------------------------ MODULE ContextEvidence_proofs ------------------------
(***************************************************************************)
(* What module AnalysisProperties promises of the index and its status,    *)
(* for every request a sender can write, wherever it was damaged, and for  *)
(* every bound of the analysis.                                            *)
(***************************************************************************)
EXTENDS AnalysisProperties, FiniteSetTheorems, SequenceTheorems, TLAPS

-----------------------------------------------------------------------------
(***************************************************************************)
(* The inductive invariant of the scan.                                    *)
(***************************************************************************)
(* Where a damaged request has its one letter too many, what its sender       *)
(* wrote, and how far the letters sent are those.                             *)
DamageOf(r) == CHOOSE at \in 0..(Len(r.letters) - 1) : DamagedAt(r, at)
Source(r) == IF r.damaged THEN Without(r.letters, DamageOf(r)) ELSE r.letters
Trusted(r) == IF r.damaged THEN DamageOf(r) ELSE Len(r.letters)

(* The cursor stands before the letter nothing allows, or at the cut.         *)
Stuck == (request.damaged /\ cursor = Trusted(request)) \/ (Truncated /\ cursor = WindowEnd)

(* Where the window cuts the request, 0 when it does not.                     *)
CutAt == IF Truncated THEN WindowEnd ELSE 0

Kinds == {"string", "number", "literal"} \cup Containers
PathSet(W) == {W[i].path : i \in 1..Len(W)}
NodeSet(W) ==
    [start : Nat, end : Nat, kind : Kinds, depth : Nat, parent : Nat, occurrence : Nat,
     name : {W[i].name : i \in 1..Len(W)}, path : PathSet(W),
     complete : BOOLEAN, duplicate : BOOLEAN]
ValueSet(W) ==
    [parent : Nat, name : {W[i].name : i \in 1..Len(W)}, occurrence : Nat, depth : Nat,
     base : Nat, start : Nat, kind : Kinds \cup {Unread}]
FrameSet == [node : Nat, kind : Containers, children : Nat, depth : Nat, base : Nat]

Alike(n, w) ==
    /\ n.start = w.start /\ n.kind = w.kind /\ n.depth = w.depth /\ n.parent = w.parent
    /\ n.occurrence = w.occurrence /\ n.name = w.name /\ n.path = w.path

Indexes(W, ns) ==
    /\ Len(ns) <= Len(W)
    /\ \A i \in 1..Len(ns) :
          /\ Alike(ns[i], W[i])
          /\ ns[i].end <= W[i].end
          /\ W[i].occurrence # 0 => ns[W[i].parent].duplicate

(* Of what is called complete, only a number at the cut may be shorter.       *)
Exact(W, n, i, cut) ==
    n.complete => /\ n.start < n.end
                  /\ n.end = W[i].end \/ (n.kind = "number" /\ n.end = cut)
AllExact(W, ns, cut) == \A i \in 1..Len(ns) : Exact(W, ns[i], i, cut)

Stack(W, fs, ns) ==
    /\ fs # << >> => fs[1].node = 1
    /\ \A f \in 1..Len(fs) :
          /\ fs[f].node \in 1..Len(ns)
          /\ fs[f].kind = W[fs[f].node].kind
          /\ fs[f].depth = W[fs[f].node].depth
          /\ fs[f].base = IF f = 1 THEN 0 ELSE f - 2
          /\ Len(ns) <= W[fs[f].node].last
          /\ ~ns[fs[f].node].complete
    /\ \A f \in 2..Len(fs) :
          /\ W[fs[f].node].parent = fs[f - 1].node
          /\ fs[f - 1].children = W[fs[f].node].rank + 1
    /\ \A g, f \in 1..Len(fs) : g < f =>
          /\ fs[g].node < fs[f].node
          /\ W[fs[f].node].end < W[fs[g].node].end
          /\ W[fs[f].node].last <= W[fs[g].node].last

(* Every value not complete yet is open, or the string being read.            *)
OpenOnly(fs, ns, reading) ==
    \A i \in 1..Len(ns) : ns[i].complete \/ i = reading \/ \E f \in 1..Len(fs) : fs[f].node = i

(* The path of every frame can be had back.                                   *)
Recalled(W, fs, points) ==
    \A f \in 1..Len(points) : f <= Len(fs) /\ points[f] = W[fs[f].node].path

Inside(W, fs, at) == fs # << >> => at < W[fs[Len(fs)].node].end

(* Between two values: nothing but spaces up to the end of the container, its *)
(* first child, or the comma before its next one.                             *)
Ahead(T, W, fs, n, at) ==
    LET top == fs[Len(fs)]
        next == W[n + 1]
    IN  \/ n = W[top.node].last /\ Blank(T, at, W[top.node].end - 1)
        \/ /\ n < W[top.node].last /\ next.parent = top.node /\ next.rank = top.children
           /\ \/ top.children = 0 /\ Blank(T, at, next.label.start)
              \/ top.children > 0 /\ Mark(T, at, next.label.start, "comma")

(* Value i is the next one, a child of the innermost frame or the root.       *)
Due(W, fs, i) ==
    /\ i <= Len(W)
    /\ fs = << >> => i = 1
    /\ fs # << >> =>
          i > 1 /\ W[i].parent = fs[Len(fs)].node /\ W[i].rank = fs[Len(fs)].children

(* What is being read is value i, and the scan knows all about it.            *)
Knows(W, fs, points, way, v, i) ==
    /\ Due(W, fs, i)
    /\ v.start = W[i].start /\ v.depth = W[i].depth /\ v.parent = W[i].parent
    /\ v.occurrence = W[i].occurrence /\ v.name = W[i].name
    /\ way = W[i].path
    /\ Len(points) = Len(fs) /\ v.base = IF fs = << >> THEN 0 ELSE Len(fs) - 1

(* Before a value, the path is that of its parent.                            *)
Resting(W, fs, points, way) ==
    /\ fs = << >> => points = << >>
    /\ fs # << >> => Len(points) = Len(fs) - 1 /\ way = W[fs[Len(fs)].node].path

InString(T, start, end, at, state) ==
    /\ start + 1 <= at /\ at < end /\ end <= Len(T)
    /\ T[start + 1] = Quote /\ T[end] = Quote
    /\ \E markers \in SUBSET ((start + 2)..(end - 2)) :
          Escapes(T, start, end, markers) /\ (state = "escape" <=> at \in markers)

InNumber(T, start, end, at, state) ==
    /\ start < at /\ at <= end
    /\ \E points \in SUBSET ((start + 2)..(end - 1)) :
          /\ \A p, q \in points : p = q
          /\ \A p \in (start + 1)..end : T[p] = IF p \in points THEN "." ELSE "1"
          /\ state = "integer" => \A p \in points : at < p
          /\ state = "point" => at \in points
          /\ state = "digits" => \E p \in points : p < at

(* Where the scan is, mode by mode.                                           *)
Numeric == {"integer", "point", "digits"}
Placed(T, W, i) ==
    LET label == W[i].label
        naming == mode \in {"text", "escape"} /\ text = 0
        member == frames # << >> /\ Top.kind = "object" /\ Due(W, frames, i)
    IN  /\ mode = "root" => nodes = << >> /\ frames = << >> /\ path = << >>
                            /\ Blank(T, cursor, W[1].start)
        /\ mode \in {"root", "frame", "next", "colon", "member"} \/ naming =>
              Resting(W, frames, checkpoints, path)
        /\ mode = "frame" => /\ frames # << >>
                             /\ \/ Ahead(T, W, frames, i - 1, cursor)
                                \/ Truncated /\ cursor = WindowEnd
        /\ mode = "next" => /\ frames # << >> /\ Due(W, frames, i)
                            /\ Blank(T, cursor, label.start)
        /\ mode \in {"colon", "member"} =>
              /\ member /\ name.start = label.start /\ name.end = label.end
              /\ label.end <= cursor
        /\ mode = "colon" => Mark(T, cursor, W[i].start, ":")
        /\ mode = "member" => Blank(T, cursor, W[i].start)
        /\ naming => /\ member /\ name.start = label.start
                     /\ InString(T, label.start, label.end, cursor, mode)
        /\ mode = "quote" \/ (mode \in {"text", "escape"} /\ ~naming) =>
              /\ i > 1 /\ text = i - 1 /\ W[i - 1].kind = "string"
              /\ ~nodes[i - 1].complete
              /\ Knows(W, frames, checkpoints, path, value, i - 1)
              /\ mode = "quote" =>
                    cursor = W[i - 1].start /\ cursor < Trusted(request) /\ cursor < WindowEnd
              /\ mode # "quote" =>
                    InString(T, W[i - 1].start, W[i - 1].end, cursor, mode)
        /\ mode \in {"value", "open", "literal"} \cup Numeric =>
              /\ Knows(W, frames, checkpoints, path, value, i)
              /\ W[i].occurrence # 0 => nodes[W[i].parent].duplicate
        /\ mode \in Numeric => /\ value.kind = "number" /\ W[i].kind = "number"
                               /\ InNumber(T, W[i].start, W[i].end, cursor, mode)
        /\ mode = "value" => cursor = W[i].start
        /\ mode = "open" => /\ cursor = W[i].start + 1
                            /\ value.kind = W[i].kind /\ value.kind \in Containers
        /\ mode = "literal" => /\ value.kind = "literal" /\ W[i].kind = "literal"
                               /\ cursor = W[i].end
        /\ mode = "trailing" => /\ frames = << >> /\ i - 1 = Len(W)
                                /\ \/ Blank(T, cursor, Len(T))
                                   \/ (Truncated /\ cursor = WindowEnd)

(* The scan stands where no value can begin, and will say so.                 *)
Doomed(W) ==
    /\ Stuck
    /\ \/ mode = "value"
       \/ mode = "next" /\ frames # << >> /\ Resting(W, frames, checkpoints, path)

Busy == {"quote", "text", "escape"}
Scanning(T, W) ==
    /\ cursor <= Trusted(request) /\ cursor <= WindowEnd
    /\ Indexes(W, nodes) /\ AllExact(W, nodes, CutAt)
    /\ Stack(W, frames, nodes)
    /\ OpenOnly(frames, nodes, IF mode \in Busy THEN text ELSE 0)
    /\ Recalled(W, frames, checkpoints)
    /\ Inside(W, frames, cursor)
    /\ Doomed(W) \/ Placed(T, W, Len(nodes) + 1)

(* How a scan may have ended.                                                 *)
Ended(W) ==
    /\ Indexes(W, nodes)
    /\ \A i \in 1..Len(nodes) : nodes[i].complete => nodes[i].end = W[i].end
    /\ cursor <= WindowEnd
    /\ stop = "syntax" => request.damaged
    /\ stop = "unexpected_end" => (request.damaged \/ Truncated)
    /\ stop = "none" => \/ Truncated
                        \/ /\ Len(nodes) = Len(W) /\ cursor = Len(request.letters) /\ ~request.damaged
                           /\ \A i \in 1..Len(nodes) : nodes[i].complete

Modes == {"root", "value", "frame", "next", "colon", "member", "text", "escape", "quote", "open",
          "literal", "integer", "point", "digits", "trailing"}

ScanInv ==
    /\ request \in Requests /\ limits \in Limits
    /\ value \in ValueSet(request.values)
    /\ cursor \in Nat /\ name \in [start : Nat, end : Nat] /\ text \in Nat
    /\ nodes \in Seq(NodeSet(request.values))
    /\ frames \in Seq(FrameSet) /\ checkpoints \in Seq(PathSet(request.values))
    /\ mode \in Modes \cup {"done"}
    /\ mode # "done" => stop = Unread /\ Scanning(Source(request), request.values)
    /\ mode = "done" =>
          /\ stop \in {"none", "syntax", "unexpected_end"} \cup LimitStops
          /\ Ended(request.values)

-----------------------------------------------------------------------------
(***************************************************************************)
(* What was written: the letters T of a well-formed text and its values W. *)
(***************************************************************************)
ScalarEndsAt(T, W, i) ==
    W[i].end < Len(T) => T[W[i].end + 1] \in {"space", "comma", "rbrace", "rbracket"}

(* The values by themselves. *)
Family(W) ==
    /\ Len(W) \in Nat \ {0} /\ W[1].parent = 0 /\ W[1].depth = 1 /\ W[1].name = NoName
    /\ W[1].occurrence = 0 /\ W[1].path = <<>> /\ W[1].last = Len(W)
    /\ \A i \in 1..Len(W) :
          /\ ValueType(W[i], Len(W)) /\ W[i].last >= i
          /\ W[i].kind \notin Containers => W[i].last = i
    /\ \A i \in 2..Len(W) :
          LET w == W[i]
              parent == W[w.parent]
          IN  /\ w.parent \in 1..(i - 1) /\ parent.kind \in Containers
              /\ w.end < parent.end /\ w.last <= parent.last
              /\ w.depth = parent.depth + 1
              /\ w.path = Append(parent.path,
                                 [index |-> IF parent.kind = "array" THEN w.rank ELSE 0,
                                  name |-> w.name])
              /\ parent.kind = "array" =>
                    /\ w.label = [start |-> w.start, end |-> w.start]
                    /\ w.name = NoName /\ w.occurrence = 0
              /\ parent.kind = "object" =>
                    w.occurrence = Cardinality({k \in 1..(i - 1) : W[k].parent = w.parent
                                                                      /\ W[k].name = w.name})

LEMMA FamilyOf ==
    ASSUME NEW T, NEW W, SentAs(T, W), Len(W) \in Nat
    PROVE  Family(W)
<1>1. Len(W) \in Nat \ {0}
    BY DEF SentAs
<1>2. \A i \in 1..Len(W) :
          /\ ValueType(W[i], Len(W)) /\ W[i].last >= i
          /\ W[i].kind \notin Containers => W[i].last = i
    BY DEF SentAs
<1>3. ASSUME NEW i \in 2..Len(W)
      PROVE  LET w == W[i]
                 parent == W[w.parent]
             IN  /\ w.parent \in 1..(i - 1) /\ parent.kind \in Containers
                 /\ w.end < parent.end /\ w.last <= parent.last
                 /\ w.depth = parent.depth + 1
                 /\ w.path = Append(parent.path,
                                    [index |-> IF parent.kind = "array" THEN w.rank ELSE 0,
                                     name |-> w.name])
                 /\ parent.kind = "array" =>
                       /\ w.label = [start |-> w.start, end |-> w.start]
                       /\ w.name = NoName /\ w.occurrence = 0
                 /\ parent.kind = "object" =>
                       w.occurrence = Cardinality({k \in 1..(i - 1) : W[k].parent = w.parent
                                                                         /\ W[k].name = w.name})
    <2>1. Belongs(T, W, i) /\ Follows(T, W, i)
        BY DEF SentAs
    <2>2. W[i].parent \in 1..(i - 1) /\ W[i].parent \in 1..Len(W)
        BY <1>1, <2>1 DEF Belongs
    <2>3. W[i].last <= W[W[i].parent].last
        <3>1. W[i].last \in Nat /\ W[W[i].parent].last \in Nat
            BY <1>1, <1>2, <2>2 DEF ValueType
        <3> QED
            BY <2>1, <3>1 DEF Follows
    <2> QED
        BY <2>1, <2>2, <2>3 DEF Belongs, Containers
<1> QED
    BY <1>1, <1>2, <1>3 DEF Family, SentAs

LEMMA FirstLetters ==
    ASSUME NEW T, NEW W, SentAs(T, W), Len(W) \in Nat, Len(T) \in Nat,
           NEW i \in 1..Len(W)
    PROVE  /\ W[i].start < Len(T) /\ W[i].end <= Len(T)
           /\ W[i].kind = "string" => T[W[i].start + 1] = Quote
           /\ W[i].kind = "number" => T[W[i].start + 1] = "1"
           /\ W[i].kind = "literal" => /\ T[W[i].start + 1] = "tr" /\ W[i].end = W[i].start + 2
                                       /\ T[W[i].end] = "ue"
           /\ W[i].kind \in Containers => /\ T[W[i].start + 1] = Opens[W[i].kind]
                                          /\ T[W[i].end] = Closes[W[i].kind]
<1>1. ValueType(W[i], Len(W)) /\ W[i].end <= Len(T) /\ Shape(T, W, i)
    BY DEF SentAs
<1>2. Len(T) \in Nat
    OBVIOUS
<1>3. W[i].start \in Nat /\ W[i].end \in Nat /\ W[i].start < W[i].end
    BY <1>1 DEF ValueType
<1>4. CASE W[i].kind = "number"
    <2>1. NumberAt(T, W[i].start, W[i].end)
        BY <1>1, <1>4 DEF Shape
    <2>2. PICK points \in SUBSET ((W[i].start + 2)..(W[i].end - 1)) :
            \A p \in (W[i].start + 1)..W[i].end : T[p] = IF p \in points THEN "." ELSE "1"
        BY <2>1 DEF NumberAt
    <2>3. W[i].start + 1 \in (W[i].start + 1)..W[i].end /\ W[i].start + 1 \notin points
        BY <1>3, <2>2
    <2> QED
        BY <1>1, <1>2, <1>3, <1>4, <2>2, <2>3 DEF Containers
<1>5. CASE W[i].kind = "string"
    BY <1>1, <1>2, <1>3, <1>5 DEF Shape, StringAt, Containers
<1>6. CASE W[i].kind = "literal"
    BY <1>1, <1>2, <1>3, <1>6 DEF Shape, Containers
<1>7. CASE W[i].kind \in Containers
    BY <1>1, <1>2, <1>3, <1>7 DEF Shape, Containers
<1> QED
    BY <1>1, <1>4, <1>5, <1>6, <1>7 DEF ValueType

(* What follows a value is a space, a comma or the end of its container.      *)
LEMMA AfterAValue ==
    ASSUME NEW T, NEW W, SentAs(T, W), Len(W) \in Nat, Len(T) \in Nat,
           NEW i \in 1..Len(W)
    PROVE  ScalarEndsAt(T, W, i)
<1>1. ValueType(W[i], Len(W)) /\ W[i].end <= Len(T)
    BY DEF SentAs
<1>2. Len(T) \in Nat /\ Len(W) \in Nat
    OBVIOUS
<1>3. W[i].start \in Nat /\ W[i].end \in Nat /\ W[i].start < W[i].end
    BY <1>1 DEF ValueType
<1> SUFFICES ASSUME W[i].end < Len(T) PROVE T[W[i].end + 1] \in {"space", "comma", "rbrace", "rbracket"}
    BY DEF ScalarEndsAt
<1>4. CASE i = 1
    <2>1. Blank(T, W[1].end, Len(T))
        BY DEF SentAs
    <2>2. W[1].end + 1 \in (W[1].end + 1)..Len(T)
        BY <1>2, <1>3, <1>4
    <2> QED
        BY <1>4, <2>1, <2>2 DEF Blank, Spaces
<1>5. CASE i # 1
    <2>1. Belongs(T, W, i) /\ Follows(T, W, i)
        BY <1>2, <1>5 DEF SentAs
    <2> DEFINE parent == W[W[i].parent]
    <2>2. W[i].parent \in 1..Len(W) /\ parent.kind \in Containers
        BY <1>2, <2>1 DEF Belongs
    <2>3. parent.end \in Nat /\ parent.end <= Len(T) /\ T[parent.end] \in {"rbrace", "rbracket"}
        <3>1. ValueType(parent, Len(W)) /\ parent.end <= Len(T)
            BY <2>2 DEF SentAs
        <3>2. T[parent.end] = Closes[parent.kind]
            BY <2>2, FirstLetters
        <3>3. Closes[parent.kind] \in {"rbrace", "rbracket"}
            BY <2>2 DEF Closes, Containers
        <3> QED
            BY <3>1, <3>2, <3>3 DEF ValueType
    <2>4. CASE Blank(T, W[i].end, parent.end - 1)
        <3>0. W[i].end <= parent.end - 1
            BY <2>4 DEF Blank
        <3>1. CASE W[i].end = parent.end - 1
            BY <1>3, <2>3, <3>1
        <3>2. CASE W[i].end # parent.end - 1
            <4>1. W[i].end + 1 \in (W[i].end + 1)..(parent.end - 1)
                <5>1. PICK e \in Nat, q \in Nat : e = W[i].end /\ q = parent.end
                    BY <1>3, <2>3
                <5>2. e <= q - 1 /\ e # q - 1
                    BY <3>0, <3>2, <5>1
                <5>3. e + 1 \in (e + 1)..(q - 1)
                    BY ONLY <5>2, e \in Nat, q \in Nat
                <5> QED
                    BY <5>1, <5>3
            <4> QED
                BY <2>4, <4>1 DEF Blank, Spaces
        <3> QED
            BY <3>1, <3>2
    <2>5. CASE Mark(T, W[i].end, W[W[i].last + 1].label.start, "comma")
        <3>1. PICK p \in (W[i].end + 1)..W[W[i].last + 1].label.start :
                    T[p] = "comma" /\ Blank(T, W[i].end, p - 1)
            BY <2>5 DEF Mark
        <3>2. CASE p = W[i].end + 1
            BY <3>1, <3>2
        <3>3. CASE p # W[i].end + 1
            <4>1. W[i].end + 1 \in (W[i].end + 1)..(p - 1)
                BY <1>3, <3>1, <3>3
            <4> QED
                BY <3>1, <4>1 DEF Blank, Spaces
        <3> QED
            BY <3>2, <3>3
    <2> QED
        BY <2>1, <2>4, <2>5 DEF Follows
<1> QED
    BY <1>4, <1>5

(***************************************************************************)
(* What a request is made of: its letters are those written, up to where   *)
(* it was damaged.                                                         *)
(***************************************************************************)
LEMMA SourceFacts ==
    ASSUME NEW r \in Requests
    PROVE  /\ SentAs(Source(r), r.values)
           /\ Len(Source(r)) \in Nat /\ Len(r.letters) \in Nat /\ Len(r.values) \in Nat
           /\ r.damaged \in BOOLEAN
           /\ Trusted(r) \in Nat /\ Trusted(r) <= Len(Source(r))
           /\ \A p \in 1..Trusted(r) : r.letters[p] = Source(r)[p]
           /\ ~r.damaged => Trusted(r) = Len(Source(r)) /\ Len(r.letters) = Len(Source(r))
           /\ r.damaged =>
                 /\ Trusted(r) < Len(r.letters) /\ r.letters[Trusted(r) + 1] \in {"ctl", "bad"}
                 /\ \A i \in 1..Len(r.values) :
                       r.values[i].kind = "number" =>
                          Trusted(r) <= r.values[i].start \/ r.values[i].end <= Trusted(r)
<1>1. WellWritten(r)
    BY RequestsAssumption
<1>2. Len(r.letters) \in Nat /\ Len(r.values) \in Nat
    BY <1>1 DEF WellWritten
<1>3. CASE r.damaged = FALSE
    <2>1. ~r.damaged
        BY <1>3
    <2>2. Source(r) = r.letters /\ Trusted(r) = Len(r.letters)
        BY <2>1 DEF Source, Trusted
    <2>3. SentAs(r.letters, r.values)
        BY <1>1, <1>3 DEF WellWritten
    <2>4. r.damaged \in BOOLEAN
        BY <1>3
    <2>5. /\ SentAs(Source(r), r.values)
          /\ Len(Source(r)) \in Nat /\ Trusted(r) \in Nat /\ Trusted(r) <= Len(Source(r))
          /\ \A p \in 1..Trusted(r) : r.letters[p] = Source(r)[p]
          /\ Trusted(r) = Len(Source(r)) /\ Len(r.letters) = Len(Source(r))
        <3>1. \A p \in 1..Len(r.letters) : r.letters[p] = Source(r)[p]
            BY <2>2
        <3> QED
            BY <1>2, <2>2, <2>3, <3>1
    <2> QED
        BY <1>2, <2>1, <2>4, <2>5, Zenon
<1>4. CASE r.damaged = TRUE
    <2> DEFINE at == DamageOf(r)
    <2>1. at \in 0..(Len(r.letters) - 1) /\ DamagedAt(r, at)
        BY <1>1, <1>4 DEF WellWritten, DamageOf
    <2> HIDE DEF at
    <2>2. Source(r) = Without(r.letters, at) /\ Trusted(r) = at
        BY <1>4 DEF Source, Trusted, at
    <2> DEFINE S == ToSet(r.letters)
    <2>3. r.letters \in Seq(S)
        BY <1>1 DEF WellWritten
    <2> HIDE DEF S
    <2> DEFINE before == SubSeq(r.letters, 1, at)
               behind == SubSeq(r.letters, at + 2, Len(r.letters))
    <2>4. /\ before \in Seq(S) /\ Len(before) = at
          /\ \A p \in 1..at : before[p] = r.letters[p]
        <3>1. \A p \in 1..at : r.letters[p] \in S
            BY <1>2, <2>1, <2>3
        <3>2. at \in Int /\ 1 \in Int /\ at >= 0
            BY <1>2, <2>1
        <3>3. /\ SubSeq(r.letters, 1, at) \in Seq(S)
              /\ Len(SubSeq(r.letters, 1, at)) = IF 1 <= at THEN at - 1 + 1 ELSE 0
              /\ \A p \in 1..(at - 1 + 1) : SubSeq(r.letters, 1, at)[p] = r.letters[1 + p - 1]
            BY ONLY <3>1, <3>2, SubSeqProperties
        <3> QED
            BY <3>2, <3>3
    <2>5. behind \in Seq(S) /\ Len(behind) \in Nat
        <3>1. \A p \in (at + 2)..Len(r.letters) : r.letters[p] \in S
            BY <1>2, <2>1, <2>3
        <3>2. at + 2 \in Int /\ Len(r.letters) \in Int
            BY <1>2, <2>1
        <3>3. SubSeq(r.letters, at + 2, Len(r.letters)) \in Seq(S)
            BY ONLY <3>1, <3>2, SubSeqProperties
        <3> QED
            BY <3>3
    <2> HIDE DEF before, behind
    <2>6. /\ Len(before \o behind) = at + Len(behind)
          /\ \A p \in 1..at : (before \o behind)[p] = before[p]
        BY <2>1, <2>4, <2>5
    <2>7. Without(r.letters, at) = before \o behind
        BY DEF Without, before, behind
    <2>8. SentAs(Without(r.letters, at), r.values)
        BY <2>1 DEF DamagedAt
    <2>9. /\ Len(Without(r.letters, at)) \in Nat /\ at <= Len(Without(r.letters, at))
          /\ \A p \in 1..at : r.letters[p] = Without(r.letters, at)[p]
        BY <1>2, <2>1, <2>4, <2>5, <2>6, <2>7
    <2> QED
        <3>1. /\ r.letters[at + 1] \in {"ctl", "bad"}
              /\ \A i \in 1..Len(r.values) :
                    r.values[i].kind = "number" => at <= r.values[i].start \/ r.values[i].end <= at
            BY <2>1 DEF DamagedAt
        <3>2. at \in Nat /\ at < Len(r.letters) /\ r.damaged
            BY <1>2, <1>4, <2>1
        <3> QED
            BY <1>2, <1>4, <2>2, <2>8, <2>9, <3>1, <3>2
<1> QED
    BY <1>1, <1>3, <1>4 DEF WellWritten

(***************************************************************************)
(* Steps over letters.                                                     *)
(***************************************************************************)
LEMMA BlankStep ==
    ASSUME NEW T, NEW at \in Nat, NEW to \in Nat, Blank(T, at, to)
    PROVE  /\ at <= to
           /\ at < to => T[at + 1] = "space" /\ Blank(T, at + 1, to)
<1>1. at <= to
    BY DEF Blank
<1>2. ASSUME at < to PROVE T[at + 1] = "space" /\ Blank(T, at + 1, to)
    <2>1. at + 1 \in (at + 1)..to
        BY <1>2
    <2>2. (at + 1 + 1)..to \subseteq (at + 1)..to
        OBVIOUS
    <2> QED
        BY <1>2, <2>1, <2>2 DEF Blank, Spaces
<1> QED
    BY <1>1, <1>2

LEMMA MarkStep ==
    ASSUME NEW T, NEW at \in Nat, NEW to \in Nat, NEW letter, Mark(T, at, to, letter)
    PROVE  /\ at < to
           /\ \/ T[at + 1] = "space" /\ Mark(T, at + 1, to, letter)
              \/ T[at + 1] = letter /\ Blank(T, at + 1, to)
<1>1. PICK p \in (at + 1)..to :
            T[p] = letter /\ Blank(T, at, p - 1) /\ Blank(T, p, to)
    BY DEF Mark
<1>2. p \in Nat /\ at < p /\ p <= to
    BY <1>1
<1>3. CASE p = at + 1
    BY <1>1, <1>2, <1>3
<1>4. CASE p # at + 1
    <2>1. p - 1 \in Nat /\ at < p - 1
        BY <1>2, <1>4
    <2>2. T[at + 1] = "space" /\ Blank(T, at + 1, p - 1)
        BY <1>1, <2>1, BlankStep
    <2>3. p \in (at + 1 + 1)..to
        BY <1>2, <1>4
    <2>4. Mark(T, at + 1, to, letter)
        BY <1>1, <2>2, <2>3 DEF Mark
    <2> QED
        BY <1>2, <2>2, <2>4
<1> QED
    BY <1>3, <1>4

(* What the text of a request is, for the lemmas below.                       *)
Wrote(T, W) == SentAs(T, W) /\ Len(T) \in Nat /\ Len(W) \in Nat

(* Where a child begins, with its label if it has one.                        *)
LEMMA ChildFacts ==
    ASSUME NEW T, NEW W, Wrote(T, W), NEW i \in 2..Len(W)
    PROVE  LET w == W[i]
               parent == W[w.parent]
           IN  /\ w.label.start \in Nat /\ w.label.end \in Nat
               /\ w.label.start <= w.start /\ w.start < w.end /\ w.end < parent.end
               /\ T[w.label.start + 1] \in {"quote", "1", "tr", "lbrace", "lbracket"}
               /\ parent.kind = "array" => w.label.start = w.start
               /\ parent.kind = "object" =>
                     /\ w.label.start + 2 <= w.label.end /\ w.label.end < w.start
                     /\ T[w.label.start + 1] = "quote"
                     /\ Mark(T, w.label.end, w.start, ":")
                     /\ StringAt(T, w.label.start, w.label.end)
                     /\ w.name = Decode(SubSeq(T, w.label.start + 2, w.label.end - 1))
<1>1. Belongs(T, W, i) /\ ValueType(W[i], Len(W))
    BY DEF SentAs, Wrote
<1>2. /\ W[i].start \in Nat /\ W[i].end \in Nat /\ W[i].start < W[i].end
      /\ W[i].label.start \in Nat /\ W[i].label.end \in Nat
    BY <1>1 DEF ValueType
<1>3. W[i].end < W[W[i].parent].end /\ W[W[i].parent].kind \in Containers
    BY <1>1 DEF Belongs
<1>4. CASE W[W[i].parent].kind = "array"
    <2>1. W[i].label.start = W[i].start
        BY <1>1, <1>4 DEF Belongs
    <2>2. W[i].kind \in {"string", "number", "literal"} \cup Containers
        BY <1>1 DEF ValueType
    <2>3. /\ W[i].kind = "string" => T[W[i].start + 1] = Quote
          /\ W[i].kind = "number" => T[W[i].start + 1] = "1"
          /\ W[i].kind = "literal" => T[W[i].start + 1] = "tr"
          /\ W[i].kind \in Containers => T[W[i].start + 1] = Opens[W[i].kind]
        BY FirstLetters DEF Wrote
    <2>4. T[W[i].start + 1] \in {"quote", "1", "tr", "lbrace", "lbracket"}
        BY <2>2, <2>3 DEF Quote, Opens, Containers
    <2> QED
        BY <1>2, <1>3, <1>4, <2>1, <2>4
<1>5. CASE W[W[i].parent].kind = "object"
    <2>1. /\ StringAt(T, W[i].label.start, W[i].label.end)
          /\ Mark(T, W[i].label.end, W[i].start, ":")
          /\ W[i].name = Decode(SubSeq(T, W[i].label.start + 2, W[i].label.end - 1))
        BY <1>1, <1>5 DEF Belongs
    <2>2. W[i].label.start + 2 <= W[i].label.end /\ T[W[i].label.start + 1] = "quote"
        BY <2>1 DEF StringAt, Quote
    <2>3. W[i].label.end < W[i].start
        BY <1>2, <2>1 DEF Mark
    <2>4. W[i].label.start <= W[i].start
        BY <1>2, <2>2, <2>3
    <2> QED
        BY <1>2, <1>3, <1>5, <2>1, <2>2, <2>3, <2>4
<1> QED
    BY <1>3, <1>4, <1>5 DEF Containers

(***************************************************************************)
(* Looking at the next letter.                                             *)
(***************************************************************************)
LEMMA PeekIs ==
    ASSUME request \in Requests, limits \in Limits, cursor \in Nat,
           cursor <= Trusted(request), cursor <= WindowEnd
    PROVE  /\ WindowEnd \in Nat
           /\ Stuck => /\ Peek \in {"end", "ctl", "bad"}
                       /\ request.damaged \/ (Truncated /\ Peek = "end" /\ cursor = WindowEnd)
           /\ ~Stuck =>
                 \/ /\ cursor < Trusted(request) /\ cursor < WindowEnd
                    /\ cursor < Len(Source(request)) /\ Peek = Source(request)[cursor + 1]
                 \/ /\ cursor = Len(Source(request)) /\ cursor = Len(request.letters)
                    /\ cursor = WindowEnd /\ Peek = "end"
<1> DEFINE r == request
<1>1. /\ Len(Source(r)) \in Nat /\ Len(r.letters) \in Nat
      /\ Trusted(r) \in Nat /\ Trusted(r) <= Len(Source(r))
      /\ \A p \in 1..Trusted(r) : r.letters[p] = Source(r)[p]
      /\ ~r.damaged => Trusted(r) = Len(Source(r)) /\ Len(r.letters) = Len(Source(r))
      /\ r.damaged => Trusted(r) < Len(r.letters) /\ r.letters[Trusted(r) + 1] \in {"ctl", "bad"}
    BY SourceFacts
<1>2. limits.bytes \in Nat \ {0}
    BY LimitsAssumption
<1>3. /\ WindowEnd \in Nat /\ WindowEnd <= Len(r.letters)
      /\ ~Truncated => WindowEnd = Len(r.letters)
    BY <1>1, <1>2 DEF WindowEnd, Truncated
<1>4. ASSUME cursor < WindowEnd, cursor < Trusted(r)
      PROVE  cursor < Len(Source(r)) /\ Peek = Source(r)[cursor + 1]
    <2>1. cursor + 1 \in 1..Trusted(r)
        BY <1>1, <1>4
    <2> QED
        BY <1>1, <1>3, <1>4, <2>1 DEF Peek
<1>5. ASSUME cursor = WindowEnd PROVE Peek = "end"
    BY <1>3, <1>5 DEF Peek
<1>6. ASSUME Stuck
      PROVE  /\ Peek \in {"end", "ctl", "bad"}
             /\ request.damaged \/ (Truncated /\ Peek = "end" /\ cursor = WindowEnd)
    <2>1. CASE Truncated /\ cursor = WindowEnd
        BY <1>5, <2>1
    <2>2. CASE r.damaged /\ cursor = Trusted(r)
        <3>1. cursor < WindowEnd => Peek \in {"ctl", "bad"}
            BY <1>1, <2>2 DEF Peek
        <3> QED
            BY <1>3, <1>5, <2>2, <3>1
    <2> QED
        BY <1>6, <2>1, <2>2 DEF Stuck
<1>7. ASSUME ~Stuck
      PROVE \/ /\ cursor < Trusted(r) /\ cursor < WindowEnd
               /\ cursor < Len(Source(r)) /\ Peek = Source(r)[cursor + 1]
            \/ /\ cursor = Len(Source(r)) /\ cursor = Len(r.letters)
               /\ cursor = WindowEnd /\ Peek = "end"
    <2>1. CASE cursor < WindowEnd /\ cursor < Trusted(r)
        BY <1>4, <2>1
    <2>2. CASE cursor = Trusted(r)
        <3>1. ~r.damaged
            BY <1>7, <2>2 DEF Stuck
        <3>2. cursor = Len(r.letters) /\ cursor = Len(Source(r))
            BY <1>1, <2>2, <3>1
        <3>3. cursor = WindowEnd
            BY <1>1, <1>3, <3>2
        <3> QED
            BY <1>5, <3>2, <3>3
    <2>3. CASE cursor = WindowEnd /\ cursor < Trusted(r)
        <3>1. ~Truncated
            BY <1>7, <2>3 DEF Stuck
        <3>2. cursor = Len(r.letters)
            BY <1>3, <2>3, <3>1
        <3>3. ~r.damaged
            BY <1>1, <2>3, <3>2
        <3> QED
            BY <1>1, <2>3, <3>2, <3>3
    <2> QED
        BY <1>1, <1>3, <2>1, <2>2, <2>3
<1> QED
    BY <1>3, <1>6, <1>7

-----------------------------------------------------------------------------
(***************************************************************************)
(* The index as it grows.                                                  *)
(***************************************************************************)
LEMMA NodeGrown ==
    ASSUME NEW W, NEW ns \in Seq(NodeSet(W)), NEW k \in 1..Len(ns), NEW e \in Nat
    PROVE  LET ms == [ns EXCEPT ![k].end = e]
           IN  /\ ms \in Seq(NodeSet(W)) /\ Len(ms) = Len(ns)
               /\ \A i \in 1..Len(ns) : ms[i] = IF i = k THEN [ns[k] EXCEPT !.end = e] ELSE ns[i]
<1> DEFINE n == [ns[k] EXCEPT !.end = e]
<1>1. ns[k] \in NodeSet(W)
    OBVIOUS
<1>2. n \in NodeSet(W)
    BY <1>1 DEF NodeSet
<1>3. [ns EXCEPT ![k].end = e] = [ns EXCEPT ![k] = n]
    OBVIOUS
<1> HIDE DEF n
<1>4. /\ [ns EXCEPT ![k] = n] \in Seq(NodeSet(W)) /\ Len([ns EXCEPT ![k] = n]) = Len(ns)
      /\ \A i \in 1..Len(ns) : [ns EXCEPT ![k] = n][i] = IF i = k THEN n ELSE ns[i]
    BY <1>2, ExceptSeq
<1> QED
    BY <1>3, <1>4 DEF n

LEMMA GrownNode ==
    ASSUME NEW W, NEW n \in NodeSet(W), NEW e \in Nat
    PROVE  LET m == [n EXCEPT !.end = e]
           IN  /\ m.start = n.start /\ m.kind = n.kind /\ m.depth = n.depth /\ m.parent = n.parent
               /\ m.occurrence = n.occurrence /\ m.name = n.name /\ m.path = n.path
               /\ m.end = e /\ m.duplicate = n.duplicate /\ m.complete = n.complete
    BY DEF NodeSet

LEMMA ClosedNode ==
    ASSUME NEW W, NEW n \in NodeSet(W), NEW e \in Nat
    PROVE  LET m == [n EXCEPT !.end = e, !.complete = TRUE]
           IN  /\ m.start = n.start /\ m.kind = n.kind /\ m.depth = n.depth /\ m.parent = n.parent
               /\ m.occurrence = n.occurrence /\ m.name = n.name /\ m.path = n.path
               /\ m.end = e /\ m.duplicate = n.duplicate /\ m.complete = TRUE
    BY DEF NodeSet

LEMMA DoubledNode ==
    ASSUME NEW W, NEW n \in NodeSet(W), NEW d \in BOOLEAN
    PROVE  LET m == [n EXCEPT !.duplicate = d]
           IN  /\ m.start = n.start /\ m.kind = n.kind /\ m.depth = n.depth /\ m.parent = n.parent
               /\ m.occurrence = n.occurrence /\ m.name = n.name /\ m.path = n.path
               /\ m.end = n.end /\ m.duplicate = d /\ m.complete = n.complete
    BY DEF NodeSet

(* The index after its nodes were revised, none of them moved.                *)
Revised(W, ns, ms) ==
    /\ Len(ms) = Len(ns)
    /\ \A i \in 1..Len(ns) :
          /\ Alike(ns[i], W[i]) => Alike(ms[i], W[i])
          /\ ms[i].end <= W[i].end
          /\ ns[i].duplicate => ms[i].duplicate

LEMMA IndexesRevised ==
    ASSUME NEW W, Family(W), NEW ns \in Seq(NodeSet(W)), NEW ms \in Seq(NodeSet(W)),
           Indexes(W, ns), Revised(W, ns, ms)
    PROVE  Indexes(W, ms)
<1>1. \A i \in 1..Len(ns) : W[i].occurrence # 0 => W[i].parent \in 1..Len(ns)
    <2> SUFFICES ASSUME NEW i \in 1..Len(ns), W[i].occurrence # 0 PROVE W[i].parent \in 1..Len(ns)
        OBVIOUS
    <2>1. i # 1
        BY DEF Family
    <2>2. i \in 2..Len(W)
        BY <2>1 DEF Indexes, Family
    <2>3. W[i].parent \in 1..(i - 1)
        BY <2>2 DEF Family
    <2> QED
        BY <2>3
<1> QED
    BY <1>1 DEF Indexes, Revised

LEMMA IndexesAppend ==
    ASSUME NEW W, Family(W), NEW ns \in Seq(NodeSet(W)), NEW n \in NodeSet(W),
           Indexes(W, ns), Len(ns) < Len(W), Alike(n, W[Len(ns) + 1]),
           n.end <= W[Len(ns) + 1].end,
           W[Len(ns) + 1].occurrence # 0 => ns[W[Len(ns) + 1].parent].duplicate
    PROVE  Indexes(W, Append(ns, n))
<1>1. Len(ns) \in Nat /\ Len(W) \in Nat
    BY DEF Family
<1>2. \A i \in 1..(Len(ns) + 1) : W[i].occurrence # 0 => W[i].parent \in 1..Len(ns)
    <2> SUFFICES ASSUME NEW i \in 1..(Len(ns) + 1), W[i].occurrence # 0
                 PROVE W[i].parent \in 1..Len(ns)
        OBVIOUS
    <2>1. i # 1
        BY DEF Family
    <2>2. i \in 2..Len(W)
        BY <1>1, <2>1
    <2>3. W[i].parent \in 1..(i - 1)
        BY <2>2 DEF Family
    <2> QED
        BY <1>1, <2>3
<1>3. Len(Append(ns, n)) = Len(ns) + 1 /\ Append(ns, n)[Len(ns) + 1] = n
    OBVIOUS
<1>4. \A i \in 1..Len(ns) : Append(ns, n)[i] = ns[i]
    OBVIOUS
<1> DEFINE ms == Append(ns, n)
           Fits(i) == /\ Alike(ms[i], W[i]) /\ ms[i].end <= W[i].end
                      /\ W[i].occurrence # 0 => ms[W[i].parent].duplicate
<1>7. Len(ms) = Len(ns) + 1
    BY <1>3
<1>8. (\A i \in 1..(Len(ns) + 1) : Fits(i)) => Indexes(W, ms)
    <2> HIDE DEF ms
    <2> QED
        BY <1>1, <1>7 DEF Indexes
<1> SUFFICES ASSUME NEW i \in 1..(Len(ns) + 1) PROVE Fits(i)
    BY <1>8
<1>5. CASE i = Len(ns) + 1
    BY <1>2, <1>3, <1>4, <1>5
<1>6. CASE i # Len(ns) + 1
    <2>1. i \in 1..Len(ns)
        BY <1>1, <1>6
    <2>2. Append(ns, n)[i] = ns[i]
        BY <1>4, <2>1
    <2>3. Alike(ns[i], W[i]) /\ ns[i].end <= W[i].end
              /\ (W[i].occurrence # 0 => ns[W[i].parent].duplicate)
        BY <2>1 DEF Indexes
    <2> QED
        BY <1>2, <1>4, <2>2, <2>3
<1> QED
    BY <1>5, <1>6

-----------------------------------------------------------------------------
(***************************************************************************)
(* The open containers.                                                    *)
(***************************************************************************)
SameFrames(fs, gs) ==
    /\ Len(gs) = Len(fs)
    /\ \A f \in 1..Len(fs) : /\ gs[f].node = fs[f].node /\ gs[f].kind = fs[f].kind
                             /\ gs[f].depth = fs[f].depth /\ gs[f].base = fs[f].base

LEMMA FrameCounted ==
    ASSUME NEW fr \in FrameSet
    PROVE  LET n == [fr EXCEPT !.children = @ + 1]
           IN  /\ n \in FrameSet /\ n.node = fr.node /\ n.kind = fr.kind /\ n.depth = fr.depth
               /\ n.base = fr.base /\ n.children = fr.children + 1
    BY DEF FrameSet

LEMMA Counted ==
    ASSUME NEW fs \in Seq(FrameSet)
    PROVE  /\ CountChild(fs) \in Seq(FrameSet) /\ SameFrames(fs, CountChild(fs))
           /\ \A f \in 1..Len(fs) :
                 CountChild(fs)[f].children = IF f = Len(fs) THEN fs[f].children + 1
                                              ELSE fs[f].children
<1>1. CASE fs = << >>
    BY <1>1 DEF CountChild, SameFrames
<1>2. CASE fs # << >>
    <2> DEFINE k == Len(fs)
               n == [fs[k] EXCEPT !.children = @ + 1]
    <2>1. k \in 1..Len(fs) /\ fs[k] \in FrameSet
        BY <1>2
    <2>2. /\ n \in FrameSet /\ n.node = fs[k].node /\ n.kind = fs[k].kind /\ n.depth = fs[k].depth
          /\ n.base = fs[k].base /\ n.children = fs[k].children + 1
        BY <2>1, FrameCounted
    <2>3. CountChild(fs) = [fs EXCEPT ![k] = n]
        BY <1>2 DEF CountChild
    <2> HIDE DEF n
    <2>4. /\ [fs EXCEPT ![k] = n] \in Seq(FrameSet) /\ Len([fs EXCEPT ![k] = n]) = Len(fs)
          /\ \A i \in 1..Len(fs) : [fs EXCEPT ![k] = n][i] = IF i = k THEN n ELSE fs[i]
        BY <2>1, <2>2, ExceptSeq
    <2> QED
        BY <2>2, <2>3, <2>4 DEF SameFrames
<1> QED
    BY <1>1, <1>2

LEMMA FramesAre ==
    ASSUME NEW fs \in Seq(FrameSet)
    PROVE  /\ Len(fs) \in Nat
           /\ fs # << >> <=> Len(fs) > 0
           /\ \A f \in 1..Len(fs) : /\ fs[f] \in FrameSet /\ fs[f].node \in Nat
                                    /\ fs[f].children \in Nat /\ fs[f].kind \in Containers
<1>1. Len(fs) \in Nat /\ (fs # << >> <=> Len(fs) > 0)
    OBVIOUS
<1>2. ASSUME NEW f \in 1..Len(fs)
      PROVE  /\ fs[f] \in FrameSet /\ fs[f].node \in Nat
             /\ fs[f].children \in Nat /\ fs[f].kind \in Containers
    <2>1. fs[f] \in FrameSet
        OBVIOUS
    <2> QED
        BY <2>1 DEF FrameSet
<1> QED
    BY <1>1, <1>2

(* One conjunct of Stack per frame, for a single frame and for two.           *)
Framed(W, fs, ns, f) ==
    /\ f = 1 => fs[f].node = 1
    /\ fs[f].node \in 1..Len(ns)
    /\ fs[f].kind = W[fs[f].node].kind
    /\ fs[f].depth = W[fs[f].node].depth
    /\ fs[f].base = IF f = 1 THEN 0 ELSE f - 2
    /\ Len(ns) <= W[fs[f].node].last
    /\ ~ns[fs[f].node].complete
    /\ f # 1 => /\ W[fs[f].node].parent = fs[f - 1].node
                /\ fs[f - 1].children = W[fs[f].node].rank + 1

Nested(W, a, b) == a < b /\ W[b].end < W[a].end /\ W[b].last <= W[a].last

LEMMA NestedTwice ==
    ASSUME NEW W, NEW a \in Nat, NEW b \in Nat, NEW c \in Nat,
           W[a].end \in Nat, W[b].end \in Nat, W[c].end \in Nat,
           W[a].last \in Nat, W[b].last \in Nat, W[c].last \in Nat,
           Nested(W, a, b), Nested(W, b, c)
    PROVE  Nested(W, a, c)
    BY DEF Nested

LEMMA StackIs ==
    ASSUME NEW W, NEW fs \in Seq(FrameSet), NEW ns
    PROVE  Stack(W, fs, ns) <=>
              /\ \A f \in 1..Len(fs) : Framed(W, fs, ns, f)
              /\ \A g, f \in 1..Len(fs) : g < f => Nested(W, fs[g].node, fs[f].node)
<1>1. Len(fs) \in Nat /\ (fs # << >> <=> Len(fs) > 0)
    BY FramesAre
<1>2. 2..Len(fs) = {f \in 1..Len(fs) : f # 1}
    BY <1>1
<1>3. fs # << >> => 1 \in 1..Len(fs)
    BY <1>1
<1>4. ASSUME Stack(W, fs, ns), NEW f \in 1..Len(fs) PROVE Framed(W, fs, ns, f)
    <2>1. fs # << >>
        BY <1>1, <1>4
    <2>2. f # 1 => f \in 2..Len(fs)
        BY <1>2
    <2> QED
        BY <1>4, <2>1, <2>2 DEF Stack, Framed
<1>5. ASSUME Stack(W, fs, ns), NEW g \in 1..Len(fs), NEW f \in 1..Len(fs), g < f
      PROVE  Nested(W, fs[g].node, fs[f].node)
    BY <1>5 DEF Stack, Nested
<1>6. ASSUME \A f \in 1..Len(fs) : Framed(W, fs, ns, f),
             \A g, f \in 1..Len(fs) : g < f => Nested(W, fs[g].node, fs[f].node)
      PROVE  Stack(W, fs, ns)
    <2>1. fs # << >> => fs[1].node = 1
        BY <1>3, <1>6 DEF Framed
    <2>2. \A f \in 1..Len(fs) :
             /\ fs[f].node \in 1..Len(ns)
             /\ fs[f].kind = W[fs[f].node].kind
             /\ fs[f].depth = W[fs[f].node].depth
             /\ fs[f].base = IF f = 1 THEN 0 ELSE f - 2
             /\ Len(ns) <= W[fs[f].node].last
             /\ ~ns[fs[f].node].complete
        BY <1>6 DEF Framed
    <2>3. \A f \in 2..Len(fs) :
             /\ W[fs[f].node].parent = fs[f - 1].node
             /\ fs[f - 1].children = W[fs[f].node].rank + 1
        BY <1>2, <1>6 DEF Framed
    <2>4. \A g, f \in 1..Len(fs) : g < f =>
             /\ fs[g].node < fs[f].node
             /\ W[fs[f].node].end < W[fs[g].node].end
             /\ W[fs[f].node].last <= W[fs[g].node].last
        BY <1>6 DEF Nested
    <2> QED
        BY <2>1, <2>2, <2>3, <2>4 DEF Stack
<1> QED
    BY <1>4, <1>5, <1>6

(* The nodes were revised, and what is open is still open.                    *)
LEMMA StackRevised ==
    ASSUME NEW W, NEW fs \in Seq(FrameSet), NEW ns, NEW ms, Stack(W, fs, ns),
           Len(ms) = Len(ns), \A f \in 1..Len(fs) : ~ms[fs[f].node].complete
    PROVE  Stack(W, fs, ms)
<1>1. /\ \A f \in 1..Len(fs) : Framed(W, fs, ns, f)
      /\ \A g, f \in 1..Len(fs) : g < f => Nested(W, fs[g].node, fs[f].node)
    BY StackIs
<1>2. \A f \in 1..Len(fs) : Framed(W, fs, ms, f)
    BY <1>1 DEF Framed
<1> QED
    BY <1>1, <1>2, StackIs

LEMMA StackCounted ==
    ASSUME NEW W, NEW fs \in Seq(FrameSet), NEW ns, Stack(W, fs, ns)
    PROVE  Stack(W, CountChild(fs), ns)
<1> DEFINE gs == CountChild(fs)
<1>1. /\ gs \in Seq(FrameSet) /\ SameFrames(fs, gs)
      /\ \A f \in 1..Len(fs) : f # Len(fs) => gs[f].children = fs[f].children
    BY Counted
<1> HIDE DEF gs
<1>2. /\ \A f \in 1..Len(fs) : Framed(W, fs, ns, f)
      /\ \A g, f \in 1..Len(fs) : g < f => Nested(W, fs[g].node, fs[f].node)
    BY StackIs
<1>3. Len(fs) \in Nat
    OBVIOUS
<1>4. ASSUME NEW f \in 1..Len(gs) PROVE Framed(W, gs, ns, f)
    <2>1. f \in 1..Len(fs) /\ Framed(W, fs, ns, f)
        BY <1>1, <1>2, <1>4 DEF SameFrames
    <2>2. f # 1 => /\ f - 1 \in 1..Len(fs) /\ f - 1 # Len(fs)
        BY <1>3, <2>1
    <2>3. f # 1 => gs[f - 1].children = fs[f - 1].children /\ gs[f - 1].node = fs[f - 1].node
        BY <1>1, <2>2 DEF SameFrames
    <2> QED
        BY <1>1, <2>1, <2>3 DEF Framed, SameFrames
<1>5. \A g, f \in 1..Len(gs) : g < f => Nested(W, gs[g].node, gs[f].node)
    BY <1>1, <1>2 DEF SameFrames
<1>6. Stack(W, gs, ns)
    BY <1>1, <1>4, <1>5, StackIs
<1> QED
    BY <1>6 DEF gs

LEMMA AllInside ==
    ASSUME NEW W, Family(W), NEW fs \in Seq(FrameSet), NEW ns, Stack(W, fs, ns),
           Len(ns) \in Nat, Len(ns) <= Len(W), NEW at \in Nat, Inside(W, fs, at)
    PROVE  \A f \in 1..Len(fs) : at < W[fs[f].node].end
<1>1. Len(fs) \in Nat /\ Len(W) \in Nat
    BY DEF Family
<1> SUFFICES ASSUME NEW f \in 1..Len(fs) PROVE at < W[fs[f].node].end
    OBVIOUS
<1>2. Len(fs) \in 1..Len(fs) /\ fs # << >>
    BY <1>1
<1>0. /\ \A g \in 1..Len(fs) : Framed(W, fs, ns, g)
      /\ \A g, h \in 1..Len(fs) : g < h => Nested(W, fs[g].node, fs[h].node)
    BY StackIs
<1>3. \A g \in 1..Len(fs) : fs[g].node \in 1..Len(W)
    BY <1>0, <1>1 DEF Framed
<1>4. \A i \in 1..Len(W) : W[i].end \in Nat
    BY DEF Family, ValueType
<1>5. at < W[fs[Len(fs)].node].end
    BY <1>2 DEF Inside
<1>6. CASE f = Len(fs)
    BY <1>5, <1>6
<1>7. CASE f # Len(fs)
    <2>1. Nested(W, fs[f].node, fs[Len(fs)].node)
        BY <1>0, <1>1, <1>2, <1>7
    <2>2. W[fs[f].node].end \in Nat /\ W[fs[Len(fs)].node].end \in Nat
        BY <1>2, <1>3, <1>4
    <2> QED
        BY <1>5, <2>1, <2>2 DEF Nested
<1> QED
    BY <1>6, <1>7

(* The innermost container of the next value, and its ancestors, last long.   *)
LEMMA LastLong ==
    ASSUME NEW W, Family(W), NEW fs \in Seq(FrameSet), NEW ns, Stack(W, fs, ns),
           Len(ns) \in Nat, Due(W, fs, Len(ns) + 1)
    PROVE  /\ Len(ns) < Len(W)
           /\ \A f \in 1..Len(fs) :
                 /\ Len(ns) + 1 <= W[fs[f].node].last
                 /\ Nested(W, fs[f].node, Len(ns) + 1)
<1> DEFINE i == Len(ns) + 1
           k == Len(fs)
<1>1. Len(fs) \in Nat /\ Len(W) \in Nat /\ Len(ns) < Len(W)
    BY DEF Family, Due
<1> SUFFICES ASSUME NEW f \in 1..Len(fs)
             PROVE  i <= W[fs[f].node].last /\ Nested(W, fs[f].node, i)
    BY <1>1
<1>2. k \in 1..Len(fs) /\ fs # << >>
    BY <1>1
<1>3. i \in 2..Len(W) /\ W[i].parent = fs[k].node
    BY <1>1, <1>2 DEF Due
<1>0. /\ \A g \in 1..Len(fs) : Framed(W, fs, ns, g)
      /\ \A g, h \in 1..Len(fs) : g < h => Nested(W, fs[g].node, fs[h].node)
    BY StackIs
<1>4. \A g \in 1..Len(fs) : fs[g].node \in 1..Len(ns)
    BY <1>0 DEF Framed
<1>5. \A j \in 1..Len(W) : W[j].end \in Nat /\ W[j].last \in Nat /\ j <= W[j].last
    BY <1>1 DEF Family, ValueType
<1>6. Nested(W, fs[k].node, i)
    <2>1. W[i].parent \in 1..(i - 1) /\ W[i].end < W[W[i].parent].end
              /\ W[i].last <= W[W[i].parent].last
        BY <1>3 DEF Family
    <2> QED
        BY <1>1, <1>3, <2>1 DEF Nested
<1>7. Nested(W, fs[f].node, i)
    <2>1. CASE f = k
        BY <1>6, <2>1
    <2>2. CASE f # k
        <3>1. Nested(W, fs[f].node, fs[k].node)
            BY <1>0, <1>1, <1>2, <2>2
        <3>2. fs[f].node \in 1..Len(W) /\ fs[k].node \in 1..Len(W) /\ i \in 1..Len(W)
            BY <1>1, <1>2, <1>3, <1>4
        <3>3. /\ W[fs[f].node].end \in Nat /\ W[fs[k].node].end \in Nat /\ W[i].end \in Nat
              /\ W[fs[f].node].last \in Nat /\ W[fs[k].node].last \in Nat /\ W[i].last \in Nat
            BY <1>5, <3>2
        <3>4. fs[f].node \in Nat /\ fs[k].node \in Nat /\ i \in Nat
            BY <1>1, <3>2
        <3> QED
            BY <1>6, <3>1, <3>3, <3>4, NestedTwice
    <2> QED
        BY <2>1, <2>2
<1>8. i <= W[i].last /\ W[i].last \in Nat /\ W[fs[f].node].last \in Nat
    BY <1>1, <1>3, <1>4, <1>5
<1> QED
    BY <1>7, <1>8 DEF Nested

(* A value was pushed under the innermost container.                          *)
LEMMA StackAppended ==
    ASSUME NEW W, Family(W), NEW fs \in Seq(FrameSet), NEW ns, NEW ms, Stack(W, fs, ns),
           Len(ns) \in Nat, Due(W, fs, Len(ns) + 1), Len(ms) = Len(ns) + 1,
           \A i \in 1..Len(ns) : ms[i] = ns[i]
    PROVE  Stack(W, fs, ms)
<1>1. \A f \in 1..Len(fs) : Len(ns) + 1 <= W[fs[f].node].last
    BY LastLong
<1>2. /\ \A f \in 1..Len(fs) : Framed(W, fs, ns, f)
      /\ \A g, f \in 1..Len(fs) : g < f => Nested(W, fs[g].node, fs[f].node)
    BY StackIs
<1>3. ASSUME NEW f \in 1..Len(fs) PROVE Framed(W, fs, ms, f)
    <2>1. Framed(W, fs, ns, f) /\ Len(ns) + 1 <= W[fs[f].node].last
        BY <1>1, <1>2
    <2>2. fs[f].node \in 1..Len(ns)
        BY <2>1 DEF Framed
    <2>3. ms[fs[f].node] = ns[fs[f].node] /\ fs[f].node \in 1..Len(ms)
        BY <2>2
    <2> QED
        BY <2>1, <2>3 DEF Framed
<1> QED
    BY <1>2, <1>3, StackIs

LEMMA StackPushed ==
    ASSUME NEW W, Family(W), NEW fs \in Seq(FrameSet), NEW ns, NEW ms, Stack(W, fs, ns),
           Len(ns) \in Nat, Due(W, fs, Len(ns) + 1), Len(ms) = Len(ns) + 1,
           \A i \in 1..Len(ns) : ms[i] = ns[i], ~ms[Len(ns) + 1].complete,
           NEW frame \in FrameSet, frame.node = Len(ns) + 1,
           frame.kind = W[Len(ns) + 1].kind, frame.depth = W[Len(ns) + 1].depth,
           frame.base = IF fs = << >> THEN 0 ELSE Len(fs) - 1
    PROVE  Stack(W, Append(CountChild(fs), frame), ms)
<1> DEFINE gs == CountChild(fs)
           hs == Append(gs, frame)
           k == Len(fs)
<1>1. /\ gs \in Seq(FrameSet) /\ SameFrames(fs, gs)
      /\ \A f \in 1..Len(fs) :
            gs[f].children = IF f = Len(fs) THEN fs[f].children + 1 ELSE fs[f].children
    BY Counted
<1>2. Stack(W, fs, ms)
    BY StackAppended
<1>3. Stack(W, gs, ms)
    BY <1>2, StackCounted
<1>4. k \in Nat /\ Len(gs) = k /\ (fs # << >> <=> k > 0)
    BY <1>1, FramesAre DEF SameFrames
<1> HIDE DEF gs
<1>5. /\ hs \in Seq(FrameSet) /\ Len(hs) = k + 1 /\ hs[k + 1] = frame
      /\ \A f \in 1..k : hs[f] = gs[f]
    BY <1>1, <1>4
<1> HIDE DEF hs
<1>6. \A f \in 1..k : Framed(W, gs, ms, f)
    BY <1>1, <1>3, <1>4, StackIs
<1>7. ASSUME NEW f \in 1..k PROVE Framed(W, hs, ms, f)
    <2>1. f # 1 => f - 1 \in 1..k
        BY <1>4
    <2>2. hs[f] = gs[f] /\ (f # 1 => hs[f - 1] = gs[f - 1])
        BY ONLY <1>5, <1>7, <2>1
    <2>3. Framed(W, gs, ms, f)
        BY <1>6
    <2> QED
        BY ONLY <2>2, <2>3 DEF Framed
<1>8. Framed(W, hs, ms, k + 1)
    <2>1. Len(ns) + 1 <= W[Len(ns) + 1].last
        BY DEF Family, Due
    <2>2. CASE k = 0
        <3>1. fs = << >> /\ Len(ns) + 1 = 1
            BY <1>4, <2>2 DEF Due
        <3> QED
            BY <1>5, <2>1, <2>2, <3>1 DEF Framed
    <2>3. CASE k # 0
        <3>1. k \in 1..k /\ fs # << >>
            BY <1>4, <2>3
        <3>2. /\ W[Len(ns) + 1].parent = fs[k].node /\ W[Len(ns) + 1].rank = fs[k].children
            BY <3>1 DEF Due
        <3>3. hs[k].node = fs[k].node /\ hs[k].children = fs[k].children + 1
            BY <1>1, <1>5, <3>1 DEF SameFrames
        <3>4. k + 1 # 1 /\ (k + 1) - 1 = k /\ (k + 1) - 2 = k - 1
            BY <1>4, <2>3
        <3> QED
            BY <1>5, <2>1, <3>1, <3>2, <3>3, <3>4 DEF Framed
    <2> QED
        BY <2>2, <2>3
<1>9. ASSUME NEW g \in 1..(k + 1), NEW f \in 1..(k + 1), g < f
      PROVE  Nested(W, hs[g].node, hs[f].node)
    <2>1. g \in 1..k /\ hs[g].node = fs[g].node
        BY <1>1, <1>4, <1>5, <1>9 DEF SameFrames
    <2>2. CASE f = k + 1
        BY <1>5, <2>1, <2>2, LastLong
    <2>3. CASE f # k + 1
        <3>1. f \in 1..k
            BY <1>4, <2>3
        <3> QED
            BY <1>1, <1>3, <1>4, <1>5, <1>9, <2>1, <3>1, StackIs
    <2> QED
        BY <2>2, <2>3
<1>10. \A f \in 1..(k + 1) : Framed(W, hs, ms, f)
    BY <1>4, <1>7, <1>8
<1>11. Stack(W, hs, ms)
    BY <1>5, <1>9, <1>10, StackIs
<1> QED
    BY <1>11 DEF hs, gs

LEMMA StackPopped ==
    ASSUME NEW W, NEW fs \in Seq(FrameSet), fs # << >>, NEW ns, NEW ms, Stack(W, fs, ns),
           Len(ms) = Len(ns), Len(ns) \in Nat,
           \A i \in 1..Len(ns) : i # fs[Len(fs)].node => ms[i].complete = ns[i].complete
    PROVE  LET gs == SubSeq(fs, 1, Len(fs) - 1)
           IN  /\ gs \in Seq(FrameSet) /\ Len(gs) = Len(fs) - 1
               /\ \A f \in 1..(Len(fs) - 1) : gs[f] = fs[f]
               /\ Stack(W, gs, ms)
<1> DEFINE k == Len(fs)
           gs == SubSeq(fs, 1, k - 1)
<1>1. k \in Nat \ {0}
    OBVIOUS
<1>2. /\ gs \in Seq(FrameSet) /\ Len(gs) = k - 1 /\ \A f \in 1..(k - 1) : gs[f] = fs[f]
    <2>1. \A f \in 1..(k - 1) : fs[f] \in FrameSet
        BY <1>1
    <2>2. 1 \in Int /\ k - 1 \in Int
        BY <1>1
    <2>3. /\ SubSeq(fs, 1, k - 1) \in Seq(FrameSet)
          /\ Len(SubSeq(fs, 1, k - 1)) = IF 1 <= k - 1 THEN k - 1 - 1 + 1 ELSE 0
          /\ \A i \in 1..(k - 1 - 1 + 1) : SubSeq(fs, 1, k - 1)[i] = fs[1 + i - 1]
        BY ONLY <2>1, <2>2, SubSeqProperties
    <2>4. k - 1 - 1 + 1 = k - 1 /\ (~(1 <= k - 1) => k - 1 = 0)
        <3> HIDE DEF k
        <3> QED
            BY <1>1
    <2>5. Len(gs) = k - 1
        BY <1>1, <2>3, <2>4
    <2>6. \A i \in 1..(k - 1) : gs[i] = fs[1 + i - 1] /\ 1 + i - 1 = i
        BY <1>1, <2>3, <2>4
    <2>7. \A i \in 1..(k - 1) : gs[i] = fs[i]
        BY <2>6
    <2> QED
        BY <2>3, <2>5, <2>7
<1> HIDE DEF gs
<1>3. /\ \A f \in 1..k : Framed(W, fs, ns, f)
      /\ \A g, f \in 1..k : g < f => Nested(W, fs[g].node, fs[f].node)
    BY StackIs
<1>4. ASSUME NEW f \in 1..(k - 1) PROVE Framed(W, gs, ms, f)
    <2>1. f \in 1..k /\ k \in 1..k /\ f < k /\ (f # 1 => f - 1 \in 1..(k - 1))
        BY <1>1
    <2>2. fs[f].node < fs[k].node /\ fs[f].node \in 1..Len(ns)
        BY <1>3, <2>1 DEF Nested, Framed
    <2>3. fs[f].node # fs[k].node
        BY <1>3, <2>1, <2>2 DEF Framed
    <2>4. ms[fs[f].node].complete = ns[fs[f].node].complete
        BY <2>2, <2>3
    <2>5. f # 1 => gs[f - 1] = fs[f - 1]
        BY <1>2, <2>1
    <2>6. gs[f] = fs[f] /\ Framed(W, fs, ns, f)
        BY <1>2, <1>3, <2>1
    <2> QED
        BY <2>4, <2>5, <2>6 DEF Framed
<1>5. ASSUME NEW g \in 1..(k - 1), NEW f \in 1..(k - 1), g < f
      PROVE  Nested(W, gs[g].node, gs[f].node)
    <2>1. g \in 1..k /\ f \in 1..k
        BY <1>1
    <2> QED
        BY <1>2, <1>3, <1>5, <2>1
<1>6. Stack(W, gs, ms)
    BY <1>2, <1>4, <1>5, StackIs
<1> QED
    BY <1>2, <1>6 DEF gs

LEMMA OpenAppended ==
    ASSUME NEW fs, NEW ns, NEW ms, OpenOnly(fs, ns, 0), Len(ns) \in Nat, Len(ms) = Len(ns) + 1,
           \A i \in 1..Len(ns) : ms[i] = ns[i]
    PROVE  /\ OpenOnly(fs, ms, Len(ns) + 1)
           /\ ms[Len(ns) + 1].complete => OpenOnly(fs, ms, 0)
<1>1. ASSUME NEW i \in 1..Len(ms), i # Len(ns) + 1
      PROVE  ms[i].complete \/ \E f \in 1..Len(fs) : fs[f].node = i
    <2>1. i \in 1..Len(ns) /\ i # 0
        BY <1>1
    <2>2. ns[i].complete \/ \E f \in 1..Len(fs) : fs[f].node = i
        BY <2>1 DEF OpenOnly
    <2> QED
        BY <2>1, <2>2
<1>2. OpenOnly(fs, ms, Len(ns) + 1)
    BY <1>1 DEF OpenOnly
<1>3. ms[Len(ns) + 1].complete => OpenOnly(fs, ms, 0)
    BY <1>1 DEF OpenOnly
<1> QED
    BY <1>2, <1>3

LEMMA OpenSame ==
    ASSUME NEW fs, NEW gs, NEW ns, NEW reading, SameFrames(fs, gs), OpenOnly(fs, ns, reading)
    PROVE  OpenOnly(gs, ns, reading)
    BY DEF OpenOnly, SameFrames

LEMMA OpenPushed ==
    ASSUME NEW fs \in Seq(FrameSet), NEW ms, NEW frame \in FrameSet,
           OpenOnly(fs, ms, frame.node)
    PROVE  OpenOnly(Append(fs, frame), ms, 0)
<1> DEFINE gs == Append(fs, frame)
<1>1. /\ Len(fs) \in Nat /\ Len(gs) = Len(fs) + 1 /\ gs[Len(fs) + 1] = frame
      /\ \A f \in 1..Len(fs) : gs[f] = fs[f]
    OBVIOUS
<1> HIDE DEF gs
<1>2. ASSUME NEW i \in 1..Len(ms) PROVE ms[i].complete \/ \E f \in 1..Len(gs) : gs[f].node = i
    <2>1. CASE i = frame.node
        BY <1>1, <2>1
    <2>2. CASE ms[i].complete
        BY <2>2
    <2>3. CASE \E f \in 1..Len(fs) : fs[f].node = i
        <3>1. PICK f \in 1..Len(fs) : fs[f].node = i
            BY <2>3
        <3>2. f \in 1..Len(gs) /\ gs[f] = fs[f]
            BY <1>1
        <3> QED
            BY <3>1, <3>2
    <2> QED
        BY <2>1, <2>2, <2>3 DEF OpenOnly
<1>3. OpenOnly(gs, ms, 0)
    BY <1>2 DEF OpenOnly
<1> QED
    BY <1>3 DEF gs

LEMMA OpenClosed ==
    ASSUME NEW fs, NEW ns, NEW ms, NEW k, OpenOnly(fs, ns, k), Len(ms) = Len(ns),
           \A i \in 1..Len(ns) : i # k => ms[i] = ns[i],
           k \in 1..Len(ns) => ms[k].complete
    PROVE  OpenOnly(fs, ms, 0)
    BY DEF OpenOnly

LEMMA RecalledSame ==
    ASSUME NEW W, NEW fs, NEW gs, NEW points, SameFrames(fs, gs), Recalled(W, fs, points)
    PROVE  Recalled(W, gs, points)
    BY DEF Recalled, SameFrames

(* Rewinding to where the innermost container began its last value.           *)
LEMMA Rewound ==
    ASSUME NEW W, checkpoints \in Seq(PathSet(W)), NEW b \in Nat, b < Len(checkpoints), Rewind(b),
           Recalled(W, frames, checkpoints)
    PROVE  /\ path' = W[frames[b + 1].node].path
           /\ checkpoints' \in Seq(PathSet(W)) /\ Len(checkpoints') = b
           /\ \A f \in 1..b : checkpoints'[f] = checkpoints[f]
<1> DEFINE n == Len(checkpoints)
<1>1. n \in Nat /\ b + 1 \in 1..n
    OBVIOUS
<1>2. path' = checkpoints[b + 1] /\ checkpoints' = SubSeq(checkpoints, 1, b)
    BY DEF Rewind
<1>3. checkpoints[b + 1] = W[frames[b + 1].node].path
    BY <1>1 DEF Recalled
<1>4. \A f \in 1..b : checkpoints[f] \in PathSet(W)
    BY <1>1
<1>5. /\ SubSeq(checkpoints, 1, b) \in Seq(PathSet(W))
      /\ Len(SubSeq(checkpoints, 1, b)) = IF 1 <= b THEN b - 1 + 1 ELSE 0
      /\ \A i \in 1..(b - 1 + 1) : SubSeq(checkpoints, 1, b)[i] = checkpoints[1 + i - 1]
    <2>1. 1 \in Int /\ b \in Int
        OBVIOUS
    <2> QED
        BY ONLY <1>4, <2>1, SubSeqProperties
<1>6. b - 1 + 1 = b /\ (~(1 <= b) => b = 0)
    OBVIOUS
<1>7. \A i \in 1..b : SubSeq(checkpoints, 1, b)[i] = checkpoints[1 + i - 1] /\ 1 + i - 1 = i
    BY <1>5, <1>6
<1>8. \A i \in 1..b : SubSeq(checkpoints, 1, b)[i] = checkpoints[i]
    BY <1>7
<1>9. Len(SubSeq(checkpoints, 1, b)) = b
    BY <1>5, <1>6
<1> QED
    BY <1>2, <1>3, <1>5, <1>8, <1>9

-----------------------------------------------------------------------------
(***************************************************************************)
(* Between two values.                                                     *)
(***************************************************************************)
LEMMA AheadIs ==
    ASSUME NEW T, NEW W, Wrote(T, W), Family(W), NEW fs \in Seq(FrameSet), fs # << >>, NEW ns,
           Stack(W, fs, ns), Len(ns) \in Nat, Len(ns) <= Len(W), NEW at \in Nat,
           Ahead(T, W, fs, Len(ns), at)
    PROVE  LET top == fs[Len(fs)]
               label == W[Len(ns) + 1].label
           IN  \/ /\ T[at + 1] = "space" /\ Ahead(T, W, fs, Len(ns), at + 1)
                  /\ at + 1 < W[top.node].end
               \/ /\ T[at + 1] = Closes[top.kind] /\ at + 1 = W[top.node].end
                  /\ Len(ns) = W[top.node].last
               \/ /\ Due(W, fs, Len(ns) + 1) /\ top.children = 0
                  /\ T[at + 1] \in {"quote", "1", "tr", "lbrace", "lbracket"}
                  /\ Blank(T, at, label.start) /\ at + 1 < W[top.node].end
               \/ /\ Due(W, fs, Len(ns) + 1) /\ top.children > 0 /\ T[at + 1] = "comma"
                  /\ Blank(T, at + 1, label.start) /\ at + 1 < W[top.node].end
<1>1. PICK top \in FrameSet, n \in Nat : top = fs[Len(fs)] /\ n = Len(ns)
    BY FramesAre
<1>2. /\ top.node \in 1..n /\ top.kind = W[top.node].kind /\ n <= W[top.node].last
      /\ Len(fs) \in 1..Len(fs)
    <2>1. Len(fs) \in 1..Len(fs)
        BY FramesAre
    <2>2. Framed(W, fs, ns, Len(fs))
        BY <2>1, StackIs
    <2> QED
        BY <1>1, <2>1, <2>2 DEF Framed
<1>3. /\ top.node \in 1..Len(W) /\ Len(W) \in Nat /\ n <= Len(W) /\ top.kind \in Containers
      /\ top.children \in Nat
    <2>1. Len(W) \in Nat
        BY DEF Family
    <2>2. top.node \in 1..Len(W) /\ n <= Len(W)
        BY <1>1, <1>2, <2>1
    <2>3. top.kind \in Containers /\ top.children \in Nat
        BY <1>1, FramesAre
    <2> QED
        BY <2>1, <2>2, <2>3
<1>4. PICK e \in Nat : e = W[top.node].end
    BY <1>3 DEF Family, ValueType
<1>5. W[top.node].last \in 1..Len(W)
    BY <1>3 DEF Family, ValueType
<1>6. e # 0 /\ T[e] = Closes[top.kind]
    <2>1. T[W[top.node].end] = Closes[W[top.node].kind]
        BY <1>2, <1>3, FirstLetters DEF Wrote
    <2>2. W[top.node].start \in Nat /\ W[top.node].start < e
        BY <1>3, <1>4 DEF Family, ValueType
    <2> QED
        BY <1>2, <1>4, <2>1, <2>2
<1>7. CASE n = W[top.node].last /\ Blank(T, at, e - 1)
    <2>1. e - 1 \in Nat
        BY <1>6
    <2>2. /\ at <= e - 1
          /\ at < e - 1 => T[at + 1] = "space" /\ Blank(T, at + 1, e - 1)
        BY <1>7, <2>1, BlankStep
    <2>3. CASE at < e - 1
        <3>1. Ahead(T, W, fs, n, at + 1)
            BY <1>1, <1>4, <1>7, <2>2, <2>3 DEF Ahead
        <3>2. at + 1 < e
            BY <2>3
        <3> QED
            BY <1>1, <1>4, <2>2, <2>3, <3>1, <3>2
    <2>4. CASE at = e - 1
        <3>1. at + 1 = e
            BY <2>4
        <3> QED
            BY <1>1, <1>4, <1>6, <1>7, <3>1
    <2> QED
        BY <2>1, <2>2, <2>3, <2>4
<1>8. CASE /\ n < W[top.node].last
           /\ W[n + 1].parent = top.node /\ W[n + 1].rank = top.children
           /\ \/ top.children = 0 /\ Blank(T, at, W[n + 1].label.start)
              \/ top.children > 0 /\ Mark(T, at, W[n + 1].label.start, "comma")
    <2>1. n + 1 \in 2..Len(W)
        BY <1>2, <1>3, <1>5, <1>8
    <2>2. PICK l \in Nat : l = W[n + 1].label.start
        BY <2>1, ChildFacts
    <2>3. /\ T[l + 1] \in {"quote", "1", "tr", "lbrace", "lbracket"}
          /\ l + 1 < e
        <3>1. /\ W[n + 1].label.start <= W[n + 1].start /\ W[n + 1].start < W[n + 1].end
              /\ W[n + 1].end < W[W[n + 1].parent].end
              /\ T[W[n + 1].label.start + 1] \in {"quote", "1", "tr", "lbrace", "lbracket"}
            BY <2>1, ChildFacts
        <3>2. W[n + 1].start \in Nat /\ W[n + 1].end \in Nat
            BY <2>1 DEF Family, ValueType
        <3>3. PICK s \in Nat, d \in Nat : s = W[n + 1].start /\ d = W[n + 1].end
            BY <3>2
        <3>4. l <= s /\ s < d /\ d < e
            BY <1>4, <1>8, <2>2, <3>1, <3>3
        <3>5. l + 1 < e
            BY ONLY <3>4, l \in Nat, s \in Nat, d \in Nat, e \in Nat
        <3> QED
            BY <2>2, <3>1, <3>5
    <2>4. Due(W, fs, n + 1)
        BY <1>1, <1>8, <2>1 DEF Due
    <2>5. CASE top.children = 0 /\ Blank(T, at, l)
        <3>1. at <= l /\ (at < l => T[at + 1] = "space" /\ Blank(T, at + 1, l))
            BY <2>5, BlankStep
        <3>2. CASE at < l
            <4>1. Ahead(T, W, fs, n, at + 1)
                BY <1>1, <1>8, <2>2, <2>5, <3>1, <3>2 DEF Ahead
            <4>2. at + 1 < e
                BY <2>3, <3>2
            <4> QED
                BY <1>1, <1>4, <3>1, <3>2, <4>1, <4>2
        <3>3. CASE at = l
            BY <1>1, <1>4, <2>2, <2>3, <2>4, <2>5, <3>3
        <3> QED
            BY <3>1, <3>2, <3>3
    <2>6. CASE top.children > 0 /\ Mark(T, at, l, "comma")
        <3>1. /\ at < l
              /\ \/ T[at + 1] = "space" /\ Mark(T, at + 1, l, "comma")
                 \/ T[at + 1] = "comma" /\ Blank(T, at + 1, l)
            BY <2>6, MarkStep
        <3>2. at + 1 < e
            BY <2>3, <3>1
        <3>3. CASE T[at + 1] = "space" /\ Mark(T, at + 1, l, "comma")
            <4>1. Ahead(T, W, fs, n, at + 1)
                BY <1>1, <1>8, <2>2, <2>6, <3>3 DEF Ahead
            <4> QED
                BY <1>1, <1>4, <3>2, <3>3, <4>1
        <3>4. CASE T[at + 1] = "comma" /\ Blank(T, at + 1, l)
            BY <1>1, <1>4, <2>2, <2>4, <2>6, <3>2, <3>4
        <3> QED
            BY <3>1, <3>3, <3>4
    <2> QED
        BY <1>8, <2>2, <2>5, <2>6
<1> QED
    BY <1>1, <1>4, <1>7, <1>8 DEF Ahead

(* After a value the scan is ahead of the next, or at the end of the text.    *)
LEMMA AheadAfter ==
    ASSUME NEW T, NEW W, Wrote(T, W), Family(W), NEW i \in 2..Len(W),
           NEW gs \in Seq(FrameSet), gs # << >>,
           gs[Len(gs)].node = W[i].parent, gs[Len(gs)].children = W[i].rank + 1
    PROVE  Ahead(T, W, gs, W[i].last, W[i].end)
<1>1. Follows(T, W, i)
    BY DEF SentAs, Wrote
<1>2. W[i].rank \in Nat
    BY DEF Family, ValueType
<1> QED
    BY <1>1, <1>2 DEF Follows, Ahead

-----------------------------------------------------------------------------
(***************************************************************************)
(* The invariant taken apart and put together again.                       *)
(***************************************************************************)
LEMMA Unmoved ==
    ASSUME request' = request, limits' = limits
    PROVE  WindowEnd' = WindowEnd /\ (Truncated' <=> Truncated) /\ CutAt' = CutAt
    BY DEF WindowEnd, Truncated, CutAt

LEMMA Unpacked ==
    ASSUME ScanInv, mode # "done"
    PROVE  LET T == Source(request)
               W == request.values
           IN  /\ request \in Requests /\ limits \in Limits /\ mode \in Modes /\ stop = Unread
               /\ cursor \in Nat /\ name \in [start : Nat, end : Nat] /\ text \in Nat
               /\ nodes \in Seq(NodeSet(W)) /\ frames \in Seq(FrameSet)
               /\ checkpoints \in Seq(PathSet(W))
               /\ Wrote(T, W) /\ Family(W) /\ Len(nodes) \in Nat /\ Len(nodes) <= Len(W)
               /\ cursor <= Trusted(request) /\ cursor <= WindowEnd
               /\ WindowEnd \in Nat /\ Trusted(request) \in Nat
               /\ Indexes(W, nodes) /\ AllExact(W, nodes, CutAt)
               /\ Stack(W, frames, nodes)
               /\ OpenOnly(frames, nodes, IF mode \in Busy THEN text ELSE 0)
               /\ Recalled(W, frames, checkpoints)
               /\ Inside(W, frames, cursor)
               /\ value \in ValueSet(W)
               /\ Doomed(W) \/ Placed(T, W, Len(nodes) + 1)
<1>1. request \in Requests /\ limits \in Limits /\ cursor \in Nat
    BY DEF ScanInv
<1>2. /\ SentAs(Source(request), request.values) /\ Len(Source(request)) \in Nat
      /\ Len(request.values) \in Nat /\ Trusted(request) \in Nat
    BY <1>1, SourceFacts
<1>3. Wrote(Source(request), request.values) /\ Family(request.values)
    BY <1>2, FamilyOf DEF Wrote
<1>4. Scanning(Source(request), request.values)
    BY DEF ScanInv
<1>5. WindowEnd \in Nat
    BY <1>1, <1>4, PeekIs DEF Scanning
<1>6. Len(nodes) \in Nat /\ Len(nodes) <= Len(request.values)
    <2>1. nodes \in Seq(NodeSet(request.values))
        BY DEF ScanInv
    <2>2. Indexes(request.values, nodes)
        BY <1>4 DEF Scanning
    <2> QED
        BY <2>1, <2>2 DEF Indexes
<1> QED
    BY <1>1, <1>2, <1>3, <1>4, <1>5, <1>6 DEF ScanInv, Scanning

LEMMA Packed ==
    ASSUME NEW T, NEW W, T = Source(request), W = request.values,
           request \in Requests, limits \in Limits, request' = request, limits' = limits,
           stop = Unread, stop' = stop, mode' \in Modes,
           cursor' \in Nat, name' \in [start : Nat, end : Nat], text' \in Nat,
           value' \in ValueSet(W), nodes' \in Seq(NodeSet(W)), frames' \in Seq(FrameSet),
           checkpoints' \in Seq(PathSet(W)),
           cursor' <= Trusted(request), cursor' <= WindowEnd,
           Indexes(W, nodes'), AllExact(W, nodes', CutAt), Stack(W, frames', nodes'),
           OpenOnly(frames', nodes', IF mode' \in Busy THEN text' ELSE 0),
           Recalled(W, frames', checkpoints'), Inside(W, frames', cursor'),
           Doomed(W)' \/ Placed(T, W, Len(nodes) + 1)'
    PROVE  ScanInv'
<1>1. WindowEnd' = WindowEnd /\ CutAt' = CutAt
    BY Unmoved
<1>2. Scanning(T, W)'
    BY <1>1 DEF Scanning
<1>3. mode' # "done"
    BY DEF Modes
<1> QED
    BY <1>2, <1>3 DEF ScanInv

-----------------------------------------------------------------------------
(***************************************************************************)
(* A space passed over.                                                    *)
(***************************************************************************)
LEMMA NotASpace ==
    ASSUME NEW T, NEW W, Wrote(T, W), Family(W), NEW i \in 1..Len(W)
    PROVE  /\ T[W[i].start + 1] \in {"quote", "1", "tr", "lbrace", "lbracket"}
           /\ W[i].start \in Nat /\ W[i].end \in Nat /\ W[i].start < W[i].end
<1>1. /\ W[i].start \in Nat /\ W[i].end \in Nat /\ W[i].start < W[i].end
      /\ W[i].kind \in {"string", "number", "literal"} \cup Containers
    BY DEF Family, ValueType
<1>2. /\ W[i].kind = "string" => T[W[i].start + 1] = Quote
      /\ W[i].kind = "number" => T[W[i].start + 1] = "1"
      /\ W[i].kind = "literal" => T[W[i].start + 1] = "tr"
      /\ W[i].kind \in Containers => T[W[i].start + 1] = Opens[W[i].kind]
    BY FirstLetters DEF Wrote
<1>3. T[W[i].start + 1] \in {"quote", "1", "tr", "lbrace", "lbracket"}
    BY <1>1, <1>2 DEF Quote, Opens, Containers
<1> QED
    BY <1>1, <1>3

LEMMA SpaceBlank ==
    ASSUME NEW T, NEW at \in Nat, NEW to \in Nat, NEW end \in Nat, to < end,
           T[at + 1] = "space", T[to + 1] # "space", Blank(T, at, to)
    PROVE  at + 1 < end /\ Blank(T, at + 1, to)
<1>1. at # to
    OBVIOUS
<1>2. at <= to /\ (at < to => Blank(T, at + 1, to))
    BY BlankStep
<1> QED
    BY <1>1, <1>2

LEMMA SpaceMark ==
    ASSUME NEW T, NEW at \in Nat, NEW to \in Nat, NEW end \in Nat, to < end, NEW letter,
           letter # "space", T[at + 1] = "space", Mark(T, at, to, letter)
    PROVE  at + 1 < end /\ Mark(T, at + 1, to, letter)
<1>1. at < to /\ Mark(T, at + 1, to, letter)
    BY MarkStep
<1> QED
    BY <1>1

(* The next child of the innermost container.                                 *)
LEMMA NextChildIs ==
    ASSUME NEW T, NEW W, Wrote(T, W), Family(W), NEW fs, fs # << >>, NEW i \in Nat,
           Due(W, fs, i)
    PROVE  LET w == W[i]
               top == W[fs[Len(fs)].node]
           IN  /\ i \in 2..Len(W) /\ w.parent = fs[Len(fs)].node /\ w.rank = fs[Len(fs)].children
               /\ fs[Len(fs)].node \in 1..Len(W)
               /\ w.label.start \in Nat /\ w.label.end \in Nat
               /\ w.start \in Nat /\ w.end \in Nat /\ top.end \in Nat
               /\ w.label.start <= w.start /\ w.start < w.end /\ w.end < top.end
               /\ T[w.label.start + 1] \in {"quote", "1", "tr", "lbrace", "lbracket"}
               /\ T[w.start + 1] \in {"quote", "1", "tr", "lbrace", "lbracket"}
<1>1. Len(W) \in Nat /\ i <= Len(W) /\ i > 1 /\ W[i].parent = fs[Len(fs)].node
          /\ W[i].rank = fs[Len(fs)].children
    BY DEF Due, Wrote
<1>2. i \in 2..Len(W) /\ i \in 1..Len(W)
    BY <1>1
<1>3. /\ W[i].label.start \in Nat /\ W[i].label.end \in Nat
      /\ W[i].label.start <= W[i].start /\ W[i].start < W[i].end
      /\ W[i].end < W[W[i].parent].end
      /\ T[W[i].label.start + 1] \in {"quote", "1", "tr", "lbrace", "lbracket"}
    BY <1>2, ChildFacts
<1>4. /\ T[W[i].start + 1] \in {"quote", "1", "tr", "lbrace", "lbracket"}
      /\ W[i].start \in Nat /\ W[i].end \in Nat
    BY <1>2, NotASpace
<1>5. W[i].parent \in 1..Len(W)
    <2>1. W[i].parent \in 1..(i - 1)
        BY <1>2 DEF Family
    <2> QED
        BY <1>1, <2>1
<1>6. W[W[i].parent].end \in Nat
    BY <1>5 DEF Family, ValueType
<1> QED
    BY <1>1, <1>2, <1>3, <1>4, <1>5, <1>6

LEMMA NextChildAt ==
    ASSUME NEW T, NEW W, Wrote(T, W), Family(W), NEW fs, fs # << >>, NEW i \in Nat,
           Due(W, fs, i)
    PROVE  /\ W[i].label.start \in Nat /\ W[i].start \in Nat
           /\ W[fs[Len(fs)].node].end \in Nat
           /\ W[i].label.start < W[fs[Len(fs)].node].end
           /\ W[i].start < W[fs[Len(fs)].node].end
           /\ T[W[i].label.start + 1] # "space" /\ T[W[i].start + 1] # "space"
<1> DEFINE w == W[i]
           top == W[fs[Len(fs)].node]
<1>1. /\ w.label.start \in Nat
      /\ w.start \in Nat /\ w.end \in Nat /\ top.end \in Nat
      /\ w.label.start <= w.start /\ w.start < w.end /\ w.end < top.end
      /\ T[w.label.start + 1] \in {"quote", "1", "tr", "lbrace", "lbracket"}
      /\ T[w.start + 1] \in {"quote", "1", "tr", "lbrace", "lbracket"}
    BY NextChildIs
<1>2. PICK l \in Nat, s \in Nat, d \in Nat, e \in Nat :
        l = w.label.start /\ s = w.start /\ d = w.end /\ e = top.end
    BY <1>1
<1>3. l < e /\ s < e
    <2>1. l <= s /\ s < d /\ d < e
        BY <1>1, <1>2
    <2> QED
        BY <2>1
<1>4. T[l + 1] # "space" /\ T[s + 1] # "space"
    BY <1>1, <1>2
<1> QED
    BY <1>1, <1>2, <1>3, <1>4

-----------------------------------------------------------------------------
(***************************************************************************)
(* The steps between values.                                               *)
(***************************************************************************)
LEMMA SkipSpaceKeeps ==
    ASSUME ScanInv, SkipSpace
    PROVE  ScanInv'
<1> PICK T, W : T = Source(request) /\ W = request.values
    OBVIOUS
<1>1. mode # "done" /\ Peek = "space" /\ mode \in SpaceModes
    BY DEF SkipSpace, SpaceModes, Spaces
<1>2. /\ request \in Requests /\ limits \in Limits /\ mode \in Modes /\ stop = Unread
      /\ cursor \in Nat /\ name \in [start : Nat, end : Nat] /\ text \in Nat
      /\ nodes \in Seq(NodeSet(W)) /\ frames \in Seq(FrameSet) /\ checkpoints \in Seq(PathSet(W))
      /\ Wrote(T, W) /\ Family(W) /\ Len(nodes) \in Nat /\ Len(nodes) <= Len(W)
      /\ cursor <= Trusted(request) /\ cursor <= WindowEnd
      /\ WindowEnd \in Nat /\ Trusted(request) \in Nat
      /\ Indexes(W, nodes) /\ AllExact(W, nodes, CutAt)
      /\ Stack(W, frames, nodes)
      /\ OpenOnly(frames, nodes, 0)
      /\ Recalled(W, frames, checkpoints)
      /\ Inside(W, frames, cursor)
      /\ value \in ValueSet(W)
      /\ Doomed(W) \/ Placed(T, W, Len(nodes) + 1)
    <2>1. mode \notin Busy
        BY <1>1 DEF SpaceModes, Busy
    <2> QED
        BY <1>1, <2>1, Unpacked
<1>3. /\ cursor < Trusted(request) /\ cursor < WindowEnd /\ cursor < Len(T)
      /\ T[cursor + 1] = "space" /\ ~Stuck
    BY <1>1, <1>2, PeekIs
<1>4. /\ cursor' = cursor + 1 /\ request' = request /\ limits' = limits /\ mode' = mode
      /\ value' = value /\ name' = name /\ text' = text /\ nodes' = nodes /\ frames' = frames
      /\ path' = path /\ checkpoints' = checkpoints /\ stop' = stop
    BY DEF SkipSpace
<1>5. Placed(T, W, Len(nodes) + 1)
    BY <1>2, <1>3 DEF Doomed
<1>6. WindowEnd' = WindowEnd /\ (Truncated' <=> Truncated)
    BY <1>4, Unmoved
<1>7. Placed(T, W, Len(nodes) + 1)' /\ Inside(W, frames', cursor')
    <2> DEFINE n == Len(nodes)
    <2>1. CASE mode = "root"
        <3>1. Blank(T, cursor, W[1].start) /\ frames = << >>
            BY <1>5, <2>1 DEF Placed
        <3>2. 1 \in 1..Len(W)
            BY <1>2 DEF Family
        <3>3. PICK s \in Nat, e \in Nat : s = W[1].start /\ e = W[1].end /\ s < e /\ T[s + 1] # "space"
            BY <1>2, <3>2, NotASpace
        <3>4. PICK c \in Nat : c = cursor
            BY <1>2
        <3>5. Blank(T, c + 1, s)
            BY <1>3, <3>1, <3>3, <3>4, SpaceBlank
        <3> QED
            BY <1>4, <1>5, <2>1, <3>1, <3>3, <3>4, <3>5 DEF Placed, Inside, Resting, Numeric
    <2>2. CASE mode = "frame"
        <3>1. /\ Resting(W, frames, checkpoints, path) /\ frames # << >>
              /\ Ahead(T, W, frames, n, cursor) \/ (Truncated /\ cursor = WindowEnd)
            BY <1>5, <2>2 DEF Placed
        <3>2. Ahead(T, W, frames, n, cursor)
            BY <1>2, <1>3, <3>1
        <3>3. frames[Len(frames)].kind \in Containers
            BY <1>2, <3>1, FramesAre
        <3>4. \/ /\ T[cursor + 1] = "space" /\ Ahead(T, W, frames, n, cursor + 1)
                 /\ cursor + 1 < W[frames[Len(frames)].node].end
              \/ T[cursor + 1] = Closes[frames[Len(frames)].kind]
              \/ T[cursor + 1] \in {"quote", "1", "tr", "lbrace", "lbracket", "comma"}
            <4>1. /\ Wrote(T, W) /\ Family(W) /\ frames \in Seq(FrameSet) /\ Stack(W, frames, nodes)
                  /\ n \in Nat /\ n <= Len(W) /\ cursor \in Nat
                BY <1>2
            <4> QED
                BY <3>1, <3>2, <4>1, AheadIs
        <3>5. Closes[frames[Len(frames)].kind] # "space"
            BY <3>3 DEF Closes, Containers
        <3>6. Ahead(T, W, frames, n, cursor + 1) /\ cursor + 1 < W[frames[Len(frames)].node].end
            BY <1>3, <3>4, <3>5
        <3> QED
            BY <1>4, <1>5, <2>2, <3>1, <3>6 DEF Placed, Inside, Numeric
    <2>3. CASE mode \in {"next", "colon", "member"}
        <3> DEFINE label == W[n + 1].label
        <3>1. frames # << >> /\ Due(W, frames, n + 1) /\ Resting(W, frames, checkpoints, path)
            BY <1>5, <2>3 DEF Placed
        <3>2. n + 1 \in Nat
            BY <1>2
        <3>3. PICK i \in Nat, c \in Nat : i = n + 1 /\ c = cursor
            BY <1>2, <3>2
        <3>4. Wrote(T, W) /\ Family(W) /\ Due(W, frames, i) /\ frames # << >>
            BY <1>2, <3>1, <3>3
        <3>5. /\ W[i].label.start \in Nat /\ W[i].start \in Nat
              /\ W[frames[Len(frames)].node].end \in Nat
              /\ W[i].label.start < W[frames[Len(frames)].node].end
              /\ W[i].start < W[frames[Len(frames)].node].end
              /\ T[W[i].label.start + 1] # "space" /\ T[W[i].start + 1] # "space"
            BY ONLY <3>4, i \in Nat, NextChildAt
        <3>6. PICK l \in Nat, s \in Nat, e \in Nat :
                l = W[i].label.start /\ s = W[i].start /\ e = W[frames[Len(frames)].node].end
            BY <3>5
        <3>7. /\ c = cursor /\ l = label.start /\ s = W[n + 1].start
              /\ e = W[frames[Len(frames)].node].end /\ l < e /\ s < e
              /\ T[l + 1] # "space" /\ T[s + 1] # "space"
            BY <3>3, <3>5, <3>6
        <3>8. CASE mode = "next"
            <4>1. Blank(T, c, l)
                BY <1>5, <3>7, <3>8 DEF Placed
            <4>2. c + 1 < e /\ Blank(T, c + 1, l)
                BY <1>3, <3>7, <4>1, SpaceBlank
            <4> QED
                BY <1>4, <3>1, <3>7, <3>8, <4>2 DEF Placed, Inside, Numeric
        <3>9. CASE mode = "colon"
            <4>1. /\ Mark(T, c, s, ":") /\ name.start = label.start /\ name.end = label.end
                  /\ label.end <= cursor /\ frames[Len(frames)].kind = "object"
                BY <1>5, <3>7, <3>9 DEF Placed, Top
            <4>2. c + 1 < e /\ Mark(T, c + 1, s, ":")
                BY <1>3, <3>7, <4>1, SpaceMark
            <4>3. label.end <= cursor + 1
                <5>1. PICK g \in Nat : g = label.end
                    BY <3>4, NextChildIs, <3>3
                <5> QED
                    BY <3>7, <4>1, <5>1
            <4> QED
                BY <1>4, <3>1, <3>7, <3>9, <4>1, <4>2, <4>3 DEF Placed, Inside, Top, Numeric
        <3>10. CASE mode = "member"
            <4>1. /\ Blank(T, c, s) /\ name.start = label.start /\ name.end = label.end
                  /\ label.end <= cursor /\ frames[Len(frames)].kind = "object"
                BY <1>5, <3>7, <3>10 DEF Placed, Top
            <4>2. c + 1 < e /\ Blank(T, c + 1, s)
                BY <1>3, <3>7, <4>1, SpaceBlank
            <4>3. label.end <= cursor + 1
                <5>1. PICK g \in Nat : g = label.end
                    BY <3>4, NextChildIs, <3>3
                <5> QED
                    BY <3>7, <4>1, <5>1
            <4> QED
                BY <1>4, <3>1, <3>7, <3>10, <4>1, <4>2, <4>3 DEF Placed, Inside, Top, Numeric
        <3> QED
            BY <2>3, <3>8, <3>9, <3>10
    <2>4. CASE mode = "trailing"
        <3>1. /\ frames = << >> /\ n + 1 - 1 = Len(W) 
              /\ Blank(T, cursor, Len(T)) \/ (Truncated /\ cursor = WindowEnd)
            BY <1>5, <2>4 DEF Placed
        <3>2. Blank(T, cursor, Len(T)) /\ Len(T) \in Nat
            BY <1>2, <1>3, <3>1 DEF Wrote
        <3>3. Blank(T, cursor + 1, Len(T))
            BY <1>2, <1>3, <3>2, BlankStep
        <3> QED
            BY <1>4, <2>4, <3>1, <3>3 DEF Placed, Inside, Numeric
    <2> QED
        BY <1>1, <2>1, <2>2, <2>3, <2>4 DEF SpaceModes
<1>8. cursor' \in Nat /\ cursor' <= Trusted(request) /\ cursor' <= WindowEnd
    BY <1>2, <1>3, <1>4
<1>9. mode' \notin Busy
    BY <1>1, <1>4 DEF SpaceModes, Busy
<1> QED
    BY <1>2, <1>4, <1>7, <1>8, <1>9, Packed

-----------------------------------------------------------------------------
(***************************************************************************)
(* The steps between values.                                               *)
(***************************************************************************)
LEMMA StillDoomed ==
    ASSUME NEW W, request' = request, limits' = limits, cursor' = cursor, Stuck, mode' = "value"
    PROVE  Doomed(W)'
<1>1. WindowEnd' = WindowEnd /\ (Truncated' <=> Truncated)
    BY Unmoved
<1> QED
    BY <1>1 DEF Doomed, Stuck

LEMMA NotSpaceBlank ==
    ASSUME NEW T, NEW at \in Nat, NEW to \in Nat, Blank(T, at, to), T[at + 1] # "space"
    PROVE  at = to
    BY BlankStep

LEMMA RootValue ==
    ASSUME NEW W, Family(W), NEW at \in Nat
    PROVE  LET v == [Root EXCEPT !.start = at]
           IN  /\ v \in ValueSet(W) /\ v.start = at /\ v.depth = 1 /\ v.parent = 0
               /\ v.occurrence = 0 /\ v.name = NoName /\ v.base = 0
<1>1. NoName \in {W[i].name : i \in 1..Len(W)}
    <2>1. 1 \in 1..Len(W) /\ W[1].name = NoName
        BY DEF Family
    <2> QED
        BY <2>1
<1> HIDE DEF NoName
<1> QED
    BY <1>1 DEF ValueSet, Root, Kinds

LEMMA BeginRootKeeps ==
    ASSUME ScanInv, BeginRoot
    PROVE  ScanInv'
<1> PICK T, W : T = Source(request) /\ W = request.values
    OBVIOUS
<1>1. mode = "root" /\ mode # "done" /\ Peek # "space"
    BY DEF BeginRoot, Spaces
<1>2. /\ request \in Requests /\ limits \in Limits /\ mode \in Modes /\ stop = Unread
      /\ cursor \in Nat /\ name \in [start : Nat, end : Nat] /\ text \in Nat
      /\ value \in ValueSet(W) /\ nodes \in Seq(NodeSet(W)) /\ frames \in Seq(FrameSet)
      /\ checkpoints \in Seq(PathSet(W))
      /\ cursor <= Trusted(request) /\ cursor <= WindowEnd
      /\ WindowEnd \in Nat /\ Trusted(request) \in Nat
      /\ Len(nodes) \in Nat /\ Len(nodes) <= Len(W)
    BY <1>1, Unpacked
<1>3. /\ Wrote(T, W) /\ Family(W)
      /\ Indexes(W, nodes) /\ AllExact(W, nodes, CutAt) /\ Stack(W, frames, nodes)
      /\ Recalled(W, frames, checkpoints) /\ Inside(W, frames, cursor)
    BY <1>1, Unpacked
<1>4. /\ OpenOnly(frames, nodes, 0)
      /\ Doomed(W) \/ Placed(T, W, Len(nodes) + 1)
    <2>1. mode \notin Busy
        BY <1>1 DEF Busy
    <2> QED
        BY <1>1, <2>1, Unpacked
<1>5. /\ cursor' = cursor /\ request' = request /\ limits' = limits /\ mode' = "value"
      /\ value' = [Root EXCEPT !.start = cursor] /\ name' = name /\ text' = text
      /\ nodes' = nodes /\ frames' = frames /\ path' = path /\ checkpoints' = checkpoints
      /\ stop' = stop
    BY DEF BeginRoot
<1>6. /\ nodes = << >> /\ frames = << >> /\ path = << >> /\ checkpoints = << >>
      /\ Blank(T, cursor, W[1].start)
    BY <1>1, <1>4 DEF Placed, Doomed, Resting
<1>7. /\ value' \in ValueSet(W) /\ value'.start = cursor /\ value'.depth = 1
      /\ value'.parent = 0 /\ value'.occurrence = 0 /\ value'.name = NoName /\ value'.base = 0
    BY <1>2, <1>3, <1>5, RootValue
<1>8. Doomed(W)' \/ Placed(T, W, Len(nodes) + 1)'
    <2>1. CASE Stuck
        BY <1>5, <2>1, StillDoomed
    <2>2. CASE ~Stuck
        <3>1. 1 \in 1..Len(W) /\ Len(nodes) + 1 = 1
            BY <1>3, <1>6 DEF Family
        <3>2. PICK s \in Nat, c \in Nat : s = W[1].start /\ c = cursor
            BY <1>2, <1>3, <3>1, NotASpace
        <3>3. PICK t \in Nat : t = Len(T) /\ s < t
            BY <1>3, <3>1, <3>2, FirstLetters DEF Wrote
        <3>4. Blank(T, c, s) /\ c <= s
            BY <1>6, <3>2 DEF Blank
        <3>5. T[c + 1] # "space"
            <4>1. cursor # Len(Source(request))
                BY <3>2, <3>3, <3>4
            <4>2. Peek = Source(request)[cursor + 1]
                BY <1>2, <2>2, <4>1, PeekIs
            <4> QED
                BY <1>1, <3>2, <4>2
        <3>6. cursor = W[1].start
            BY <3>2, <3>4, <3>5, NotSpaceBlank
        <3>7. Due(W, frames, 1)
            BY <1>6, <3>1 DEF Due
        <3>8. Knows(W, frames', checkpoints', path', value', 1)
            BY <1>3, <1>5, <1>6, <1>7, <3>6, <3>7 DEF Knows, Family
        <3>9. W[1].occurrence = 0
            BY <1>3 DEF Family
        <3> QED
            BY <1>5, <3>1, <3>6, <3>8, <3>9 DEF Placed, Numeric
    <2> QED
        BY <2>1, <2>2
<1>9. mode' \in Modes /\ mode' \notin Busy
    BY <1>5 DEF Modes, Busy
<1> QED
    BY <1>2, <1>3, <1>4, <1>5, <1>7, <1>8, <1>9, Packed

LEMMA TopIs ==
    ASSUME NEW W, Family(W), NEW fs \in Seq(FrameSet), fs # << >>, NEW ns, Stack(W, fs, ns),
           Len(ns) \in Nat, Len(ns) <= Len(W)
    PROVE  LET top == fs[Len(fs)]
           IN  /\ Len(fs) \in Nat \ {0}
               /\ top.node \in 1..Len(ns) /\ top.node \in 1..Len(W)
               /\ top.kind = W[top.node].kind /\ top.depth = W[top.node].depth
               /\ top.base = IF Len(fs) = 1 THEN 0 ELSE Len(fs) - 2
               /\ Len(ns) <= W[top.node].last /\ ~ns[top.node].complete
               /\ top.kind \in Containers /\ top.children \in Nat /\ top.node \in Nat
               /\ top.depth \in Nat
<1>1. Len(fs) \in Nat \ {0} /\ Len(fs) \in 1..Len(fs)
    BY FramesAre
<1>2. Framed(W, fs, ns, Len(fs))
    BY <1>1, StackIs
<1>3. PICK top \in FrameSet : top = fs[Len(fs)]
    BY <1>1
<1>4. top.kind \in Containers /\ top.children \in Nat /\ top.node \in Nat /\ top.depth \in Nat
    BY DEF FrameSet
<1>5. top.node \in 1..Len(ns) /\ top.node \in 1..Len(W)
    <2>1. top.node \in 1..Len(ns)
        BY <1>2, <1>3 DEF Framed
    <2>2. Len(W) \in Nat
        BY DEF Family
    <2> QED
        BY <2>1, <2>2
<1> QED
    BY <1>1, <1>2, <1>3, <1>4, <1>5 DEF Framed

LEMMA NextChildKeeps ==
    ASSUME ScanInv, NextChild
    PROVE  ScanInv'
<1> PICK T, W : T = Source(request) /\ W = request.values
    OBVIOUS
<1>1. mode = "frame" /\ mode # "done"
    BY DEF NextChild
<1>2. /\ request \in Requests /\ limits \in Limits /\ mode \in Modes /\ stop = Unread
      /\ cursor \in Nat /\ name \in [start : Nat, end : Nat] /\ text \in Nat
      /\ value \in ValueSet(W) /\ nodes \in Seq(NodeSet(W)) /\ frames \in Seq(FrameSet)
      /\ checkpoints \in Seq(PathSet(W))
      /\ cursor <= Trusted(request) /\ cursor <= WindowEnd
      /\ WindowEnd \in Nat /\ Trusted(request) \in Nat
      /\ Len(nodes) \in Nat /\ Len(nodes) <= Len(W)
    BY <1>1, Unpacked
<1>3. /\ Wrote(T, W) /\ Family(W)
      /\ Indexes(W, nodes) /\ AllExact(W, nodes, CutAt) /\ Stack(W, frames, nodes)
      /\ Recalled(W, frames, checkpoints) /\ Inside(W, frames, cursor)
    BY <1>1, Unpacked
<1>4. /\ OpenOnly(frames, nodes, 0)
      /\ Doomed(W) \/ Placed(T, W, Len(nodes) + 1)
    <2>1. mode \notin Busy
        BY <1>1 DEF Busy
    <2> QED
        BY <1>1, <2>1, Unpacked
<1>5. /\ request' = request /\ limits' = limits /\ mode' = "next"
      /\ value' = value /\ name' = name /\ text' = text
      /\ nodes' = nodes /\ frames' = frames /\ path' = path /\ checkpoints' = checkpoints
      /\ stop' = stop
    BY DEF NextChild
<1>6. /\ frames # << >> /\ Resting(W, frames, checkpoints, path)
      /\ Ahead(T, W, frames, Len(nodes), cursor) \/ (Truncated /\ cursor = WindowEnd)
    <2>1. Len(nodes) + 1 - 1 = Len(nodes)
        BY <1>2
    <2> QED
        BY <1>1, <1>4, <2>1 DEF Placed, Doomed
<1> DEFINE top == frames[Len(frames)]
<1>7. /\ top.kind \in Containers /\ Closes[top.kind] \in {"rbrace", "rbracket"}
      /\ top.children \in Nat
    <2>1. top.kind \in Containers /\ top.children \in Nat
        BY <1>2, <1>6, FramesAre
    <2> QED
        BY <2>1 DEF Closes, Containers
<1>8. /\ cursor' \in Nat /\ cursor' <= Trusted(request) /\ cursor' <= WindowEnd
      /\ Inside(W, frames', cursor')
      /\ Doomed(W)' \/ Placed(T, W, Len(nodes) + 1)'
    <2>1. CASE Stuck
        <3>1. Peek \in {"end", "ctl", "bad"}
            BY <1>2, <2>1, PeekIs
        <3>2. cursor' = cursor
            BY <3>1 DEF NextChild
        <3>3. WindowEnd' = WindowEnd /\ (Truncated' <=> Truncated)
            BY <1>5, Unmoved
        <3>4. Stuck'
            BY <1>5, <2>1, <3>2, <3>3 DEF Stuck
        <3>5. Resting(W, frames', checkpoints', path')
            BY <1>5, <1>6
        <3>6. Doomed(W)'
            BY <1>5, <1>6, <3>4, <3>5 DEF Doomed
        <3> QED
            BY <1>2, <1>3, <1>5, <3>2, <3>6
    <2>2. CASE ~Stuck
        <3>1. Ahead(T, W, frames, Len(nodes), cursor)
            BY <1>6, <2>2 DEF Stuck
        <3>2. \/ /\ T[cursor + 1] = "space"
              \/ /\ T[cursor + 1] = Closes[top.kind]
              \/ /\ Due(W, frames, Len(nodes) + 1) /\ top.children = 0
                 /\ T[cursor + 1] \in {"quote", "1", "tr", "lbrace", "lbracket"}
                 /\ Blank(T, cursor, W[Len(nodes) + 1].label.start)
              \/ /\ Due(W, frames, Len(nodes) + 1) /\ top.children > 0 /\ T[cursor + 1] = "comma"
                 /\ Blank(T, cursor + 1, W[Len(nodes) + 1].label.start)
                 /\ cursor + 1 < W[top.node].end
            <4>1. /\ Wrote(T, W) /\ Family(W) /\ frames \in Seq(FrameSet) /\ frames # << >>
                  /\ Stack(W, frames, nodes) /\ Len(nodes) \in Nat /\ Len(nodes) <= Len(W)
                  /\ cursor \in Nat
                BY <1>2, <1>3, <1>6
            <4> QED
                BY <3>1, <4>1, AheadIs
        <3>3. /\ Peek = "comma" /\ top.children > 0 /\ cursor' = cursor + 1
              \/ /\ top.children = 0 /\ Peek \notin {Closes[top.kind], "end", "space"}
                 /\ cursor' = cursor
            BY DEF NextChild, Top, Spaces
        <3>4. Peek # "end"
            BY <3>3
        <3>5. cursor < Trusted(request) /\ cursor < WindowEnd /\ Peek = T[cursor + 1]
            BY <1>2, <2>2, <3>4, PeekIs
        <3>6. CASE Peek = "comma" /\ top.children > 0 /\ cursor' = cursor + 1
            <4>1. /\ Due(W, frames, Len(nodes) + 1)
                  /\ Blank(T, cursor + 1, W[Len(nodes) + 1].label.start)
                  /\ cursor + 1 < W[top.node].end
                BY <1>7, <3>2, <3>5, <3>6
            <4>2. Inside(W, frames', cursor')
                BY <1>5, <3>6, <4>1 DEF Inside
            <4>3. Placed(T, W, Len(nodes) + 1)'
                BY <1>5, <1>6, <3>6, <4>1 DEF Placed, Numeric
            <4> QED
                BY <1>2, <3>5, <3>6, <4>2, <4>3
        <3>7. CASE /\ top.children = 0 /\ Peek \notin {Closes[top.kind], "end", "space"}
                   /\ cursor' = cursor
            <4>1. /\ Due(W, frames, Len(nodes) + 1)
                  /\ Blank(T, cursor, W[Len(nodes) + 1].label.start)
                BY <1>7, <3>2, <3>5, <3>7
            <4>2. Inside(W, frames', cursor')
                BY <1>3, <1>5, <3>7
            <4>3. Placed(T, W, Len(nodes) + 1)'
                BY <1>5, <1>6, <3>7, <4>1 DEF Placed, Numeric
            <4> QED
                BY <1>2, <3>7, <4>2, <4>3
        <3> QED
            BY <3>3, <3>6, <3>7
    <2> QED
        BY <2>1, <2>2
<1>9. mode' \in Modes /\ mode' \notin Busy
    BY <1>5 DEF Modes, Busy
<1> QED
    BY <1>2, <1>3, <1>4, <1>5, <1>8, <1>9, Packed

LEMMA ColonKeeps ==
    ASSUME ScanInv, Colon
    PROVE  ScanInv'
<1> PICK T, W : T = Source(request) /\ W = request.values
    OBVIOUS
<1>1. mode = "colon" /\ mode # "done" /\ Peek = ":"
    BY DEF Colon
<1>2. /\ request \in Requests /\ limits \in Limits /\ mode \in Modes /\ stop = Unread
      /\ cursor \in Nat /\ name \in [start : Nat, end : Nat] /\ text \in Nat
      /\ value \in ValueSet(W) /\ nodes \in Seq(NodeSet(W)) /\ frames \in Seq(FrameSet)
      /\ checkpoints \in Seq(PathSet(W))
      /\ cursor <= Trusted(request) /\ cursor <= WindowEnd
      /\ WindowEnd \in Nat /\ Trusted(request) \in Nat
      /\ Len(nodes) \in Nat /\ Len(nodes) <= Len(W)
    BY <1>1, Unpacked
<1>3. /\ Wrote(T, W) /\ Family(W)
      /\ Indexes(W, nodes) /\ AllExact(W, nodes, CutAt) /\ Stack(W, frames, nodes)
      /\ Recalled(W, frames, checkpoints) /\ Inside(W, frames, cursor)
    BY <1>1, Unpacked
<1>4. /\ OpenOnly(frames, nodes, 0)
      /\ Doomed(W) \/ Placed(T, W, Len(nodes) + 1)
    <2>1. mode \notin Busy
        BY <1>1 DEF Busy
    <2> QED
        BY <1>1, <2>1, Unpacked
<1>5. /\ request' = request /\ limits' = limits /\ mode' = "member" /\ cursor' = cursor + 1
      /\ value' = value /\ name' = name /\ text' = text
      /\ nodes' = nodes /\ frames' = frames /\ path' = path /\ checkpoints' = checkpoints
      /\ stop' = stop
    BY DEF Colon
<1> DEFINE i == Len(nodes) + 1
<1>6. /\ frames # << >> /\ Top.kind = "object" /\ Due(W, frames, i)
      /\ Resting(W, frames, checkpoints, path)
      /\ name.start = W[i].label.start /\ name.end = W[i].label.end /\ W[i].label.end <= cursor
      /\ Mark(T, cursor, W[i].start, ":")
    BY <1>1, <1>4 DEF Placed, Doomed
<1>7. /\ cursor < Trusted(request) /\ cursor < WindowEnd /\ T[cursor + 1] = ":"
    BY <1>1, <1>2, PeekIs
<1>8. PICK c \in Nat, k \in Nat, s \in Nat, g \in Nat, d \in Nat, e \in Nat :
        /\ c = cursor /\ k = i /\ s = W[i].start /\ g = W[i].label.end /\ d = W[i].end
        /\ e = W[frames[Len(frames)].node].end
    <2>1. PICK k \in Nat : k = i
        BY <1>2
    <2>2. Due(W, frames, k)
        BY <1>6, <2>1
    <2>3. /\ W[k].start \in Nat /\ W[k].label.end \in Nat /\ W[k].end \in Nat
          /\ W[frames[Len(frames)].node].end \in Nat
        BY <1>3, <1>6, <2>2, NextChildIs
    <2> QED
        BY <1>2, <2>1, <2>3
<1>9. s < d /\ d < e
    BY <1>3, <1>6, <1>8, NextChildIs
<1>10. Mark(T, c, s, ":")
    BY <1>6, <1>8
<1>11. c < s /\ Blank(T, c + 1, s)
    BY <1>7, <1>8, <1>10, MarkStep
<1>12. Inside(W, frames', cursor')
    BY <1>5, <1>8, <1>9, <1>11 DEF Inside
<1>13. Placed(T, W, Len(nodes) + 1)'
    <2>1. W[i].label.end <= cursor + 1
        BY <1>6, <1>8
    <2> QED
        BY <1>5, <1>6, <1>8, <1>11, <2>1 DEF Placed, Numeric, Top
<1>14. mode' \in Modes /\ mode' \notin Busy
    BY <1>5 DEF Modes, Busy
<1>15. cursor' \in Nat /\ cursor' <= Trusted(request) /\ cursor' <= WindowEnd
    BY <1>2, <1>5, <1>7
<1> QED
    BY <1>2, <1>3, <1>4, <1>5, <1>12, <1>13, <1>14, <1>15, Packed

LEMMA RecalledPushed ==
    ASSUME NEW W, Family(W), NEW fs \in Seq(FrameSet), fs # << >>, NEW points \in Seq(PathSet(W)),
           NEW way, Recalled(W, fs, points), Resting(W, fs, points, way),
           fs[Len(fs)].node \in 1..Len(W)
    PROVE  /\ Append(points, way) \in Seq(PathSet(W))
           /\ Recalled(W, fs, Append(points, way))
           /\ Len(Append(points, way)) = Len(fs) /\ Len(points) = Len(fs) - 1
<1>1. Len(points) = Len(fs) - 1 /\ way = W[fs[Len(fs)].node].path
    BY DEF Resting
<1>2. Len(fs) \in Nat \ {0}
    BY FramesAre
<1>3. way \in PathSet(W)
    BY <1>1 DEF PathSet
<1> DEFINE more == Append(points, way)
<1>4. /\ more \in Seq(PathSet(W)) /\ Len(more) = Len(fs)
      /\ \A f \in 1..Len(points) : more[f] = points[f]
      /\ more[Len(fs)] = way
    BY <1>1, <1>2, <1>3
<1> HIDE DEF more
<1>5. Recalled(W, fs, more)
    <2> SUFFICES ASSUME NEW f \in 1..Len(more)
                 PROVE  f <= Len(fs) /\ more[f] = W[fs[f].node].path
        BY DEF Recalled
    <2>1. CASE f = Len(fs)
        BY <1>1, <1>4, <2>1
    <2>2. CASE f # Len(fs)
        <3>1. f \in 1..Len(points)
            BY <1>1, <1>2, <1>4, <2>2
        <3> QED
            BY <1>2, <1>4, <3>1 DEF Recalled
    <2> QED
        BY <2>1, <2>2
<1> QED
    BY <1>1, <1>4, <1>5 DEF more

LEMMA ElementValue ==
    ASSUME NEW W, Family(W), NEW p \in Nat, NEW d \in Nat, NEW b \in Nat, NEW s \in Nat
    PROVE  [parent |-> p, name |-> NoName, occurrence |-> 0, depth |-> d, base |-> b,
            start |-> s, kind |-> Unread] \in ValueSet(W)
<1>1. NoName \in {W[i].name : i \in 1..Len(W)}
    <2>1. 1 \in 1..Len(W) /\ W[1].name = NoName
        BY DEF Family
    <2> QED
        BY <2>1
<1> HIDE DEF NoName
<1> QED
    BY <1>1 DEF ValueSet

LEMMA BeginElementKeeps ==
    ASSUME ScanInv, BeginElement
    PROVE  ScanInv'
<1> PICK T, W : T = Source(request) /\ W = request.values
    OBVIOUS
<1>1. mode = "next" /\ mode # "done" /\ Top.kind = "array" /\ Peek # "space"
    BY DEF BeginElement, Spaces
<1>2. /\ request \in Requests /\ limits \in Limits /\ mode \in Modes /\ stop = Unread
      /\ cursor \in Nat /\ name \in [start : Nat, end : Nat] /\ text \in Nat
      /\ value \in ValueSet(W) /\ nodes \in Seq(NodeSet(W)) /\ frames \in Seq(FrameSet)
      /\ checkpoints \in Seq(PathSet(W))
      /\ cursor <= Trusted(request) /\ cursor <= WindowEnd
      /\ WindowEnd \in Nat /\ Trusted(request) \in Nat
      /\ Len(nodes) \in Nat /\ Len(nodes) <= Len(W)
    BY <1>1, Unpacked
<1>3. /\ Wrote(T, W) /\ Family(W)
      /\ Indexes(W, nodes) /\ AllExact(W, nodes, CutAt) /\ Stack(W, frames, nodes)
      /\ Recalled(W, frames, checkpoints) /\ Inside(W, frames, cursor)
    BY <1>1, Unpacked
<1>4. /\ OpenOnly(frames, nodes, 0)
      /\ Doomed(W) \/ Placed(T, W, Len(nodes) + 1)
    <2>1. mode \notin Busy
        BY <1>1 DEF Busy
    <2> QED
        BY <1>1, <2>1, Unpacked
<1> DEFINE top == frames[Len(frames)]
           i == Len(nodes) + 1
<1>5. /\ request' = request /\ limits' = limits /\ mode' = "value" /\ cursor' = cursor
      /\ name' = name /\ text' = text /\ nodes' = nodes /\ frames' = frames
      /\ checkpoints' = Append(checkpoints, path)
      /\ path' = Append(path, [index |-> top.children, name |-> NoName])
      /\ value' = [parent |-> top.node, name |-> NoName, occurrence |-> 0,
                   depth |-> top.depth + 1, base |-> Len(checkpoints),
                   start |-> cursor, kind |-> Unread]
      /\ stop' = stop /\ top.kind = "array"
    BY DEF BeginElement, Top
<1>6. frames # << >> /\ Resting(W, frames, checkpoints, path)
    BY <1>1, <1>4 DEF Placed, Doomed
<1>7. /\ Len(frames) \in Nat \ {0} /\ top.node \in 1..Len(W) /\ top.node \in Nat
      /\ top.kind = W[top.node].kind /\ top.depth = W[top.node].depth
      /\ top.children \in Nat /\ top.depth \in Nat
    BY <1>2, <1>3, <1>6, TopIs
<1>8. /\ checkpoints' \in Seq(PathSet(W)) /\ Recalled(W, frames', checkpoints')
      /\ Len(checkpoints') = Len(frames) /\ Len(checkpoints) = Len(frames) - 1
    BY <1>2, <1>3, <1>5, <1>6, <1>7, RecalledPushed
<1>9. value' \in ValueSet(W)
    <2>1. top.depth + 1 \in Nat /\ Len(checkpoints) \in Nat
        BY <1>7, <1>8
    <2> QED
        BY <1>2, <1>3, <1>5, <1>7, <2>1, ElementValue
<1>10. Doomed(W)' \/ Placed(T, W, Len(nodes) + 1)'
    <2>1. CASE Stuck
        BY <1>5, <2>1, StillDoomed
    <2>2. CASE ~Stuck
        <3>1. Due(W, frames, i) /\ Blank(T, cursor, W[i].label.start)
            BY <1>1, <1>4, <2>2 DEF Placed, Doomed
        <3>2. PICK k \in Nat : k = i
            BY <1>2
        <3>3. Due(W, frames, k)
            BY <3>1, <3>2
        <3>4. /\ k \in 2..Len(W) /\ W[k].parent = top.node /\ W[k].rank = top.children
              /\ W[k].label.start \in Nat /\ W[k].start \in Nat
            BY <1>3, <1>6, <3>3, NextChildIs
        <3>5. /\ W[k].depth = W[top.node].depth + 1
              /\ W[k].path = Append(W[top.node].path, [index |-> W[k].rank, name |-> W[k].name])
              /\ W[k].label.start = W[k].start /\ W[k].name = NoName /\ W[k].occurrence = 0
            <4>1. W[W[k].parent].kind = "array"
                BY <1>5, <1>7, <3>4
            <4>2. /\ W[k].depth = W[W[k].parent].depth + 1
                  /\ W[k].path = Append(W[W[k].parent].path,
                                        [index |-> IF W[W[k].parent].kind = "array" THEN W[k].rank
                                                   ELSE 0, name |-> W[k].name])
                  /\ W[W[k].parent].kind = "array" =>
                        /\ W[k].label = [start |-> W[k].start, end |-> W[k].start]
                        /\ W[k].name = NoName /\ W[k].occurrence = 0
                BY <1>3, <3>4 DEF Family
            <4>3. W[k].label.start = W[k].start /\ W[k].name = NoName /\ W[k].occurrence = 0
                BY ONLY <4>1, <4>2
            <4>4. /\ W[k].depth = W[W[k].parent].depth + 1
                  /\ W[k].path = Append(W[W[k].parent].path,
                                        [index |-> W[k].rank, name |-> W[k].name])
                BY ONLY <4>1, <4>2
            <4>5. W[k].parent = top.node
                BY <3>4
            <4> HIDE DEF top
            <4> QED
                BY ONLY <4>3, <4>4, <4>5
        <3>6. cursor = W[k].start
            <4>1. PICK s \in Nat, c \in Nat : s = W[k].start /\ c = cursor
                BY <1>2, <3>4
            <4>2. Blank(T, c, s)
                BY <3>1, <3>2, <3>5, <4>1
            <4>3. T[c + 1] # "space"
                <5>1. PICK e \in Nat, t \in Nat : e = W[top.node].end /\ t = Len(T) /\ e <= t
                    BY <1>3, <1>7, NotASpace, FirstLetters DEF Wrote
                <5>2. cursor < e
                    BY <1>3, <1>6, <5>1 DEF Inside
                <5>3. cursor # Len(Source(request))
                    <6>1. Len(Source(request)) = t
                        BY <5>1
                    <6>2. cursor # t
                        BY ONLY <4>1, <5>1, <5>2
                    <6> QED
                        BY ONLY <6>1, <6>2
                <5>4. Peek = Source(request)[cursor + 1]
                    BY <1>2, <2>2, <5>3, PeekIs
                <5> QED
                    BY <1>1, <4>1, <5>4
            <4> QED
                BY <4>1, <4>2, <4>3, NotSpaceBlank
        <3>7. Knows(W, frames', checkpoints', path', value', k)
            <4>1. /\ value'.start = W[k].start /\ value'.depth = W[k].depth
                  /\ value'.parent = W[k].parent /\ value'.occurrence = W[k].occurrence
                  /\ value'.name = W[k].name /\ value'.base = Len(frames) - 1
                BY <1>5, <1>7, <1>8, <3>4, <3>5, <3>6
            <4>2. path' = W[k].path
                <5>1. path = W[top.node].path
                    BY <1>6 DEF Resting
                <5> QED
                    BY <1>5, <3>4, <3>5, <5>1
            <4> QED
                BY <1>5, <1>6, <1>8, <3>3, <4>1, <4>2 DEF Knows
        <3> QED
            BY <1>5, <3>2, <3>5, <3>6, <3>7 DEF Placed, Numeric
    <2> QED
        BY <2>1, <2>2
<1>11. mode' \in Modes /\ mode' \notin Busy
    BY <1>5 DEF Modes, Busy
<1> QED
    BY <1>2, <1>3, <1>4, <1>5, <1>8, <1>9, <1>10, <1>11, Packed

(***************************************************************************)
(* The steps within a string.                                              *)
(***************************************************************************)
LEMMA StringOpens ==
    ASSUME NEW T, NEW s \in Nat, NEW e \in Nat, Len(T) \in Nat, StringAt(T, s, e)
    PROVE  InString(T, s, e, s + 1, "text") /\ s + 1 < e
<1>1. PICK markers \in SUBSET ((s + 2)..(e - 2)) : Escapes(T, s, e, markers)
    BY DEF StringAt
<1>2. s + 1 \notin markers
    BY <1>1
<1>3. s + 2 <= e /\ e <= Len(T) /\ T[s + 1] = Quote /\ T[e] = Quote
    BY DEF StringAt
<1>4. s + 1 < e /\ s + 1 <= s + 1
    BY <1>3
<1>5. \E m \in SUBSET ((s + 2)..(e - 2)) : Escapes(T, s, e, m) /\ ("text" = "escape" <=> s + 1 \in m)
    BY <1>1, <1>2
<1> HIDE DEF Quote
<1> QED
    BY <1>3, <1>4, <1>5 DEF InString

LEMMA StringStep ==
    ASSUME NEW T, NEW s \in Nat, NEW e \in Nat, NEW at \in Nat, NEW state \in {"text", "escape"},
           InString(T, s, e, at, state)
    PROVE  /\ s + 1 <= at /\ at < e /\ e <= Len(T)
           /\ state = "escape" => /\ T[at + 1] \notin Unescapable /\ at + 1 < e
                                  /\ InString(T, s, e, at + 1, "text")
           /\ state = "text" =>
                 \/ T[at + 1] = Quote /\ at + 1 = e
                 \/ T[at + 1] = Escape /\ at + 1 < e /\ InString(T, s, e, at + 1, "escape")
                 \/ /\ T[at + 1] \notin {Quote, Escape, "ctl", "bad", "end"} /\ at + 1 < e
                    /\ InString(T, s, e, at + 1, "text")
<1>1. PICK markers \in SUBSET ((s + 2)..(e - 2)) :
            Escapes(T, s, e, markers) /\ (state = "escape" <=> at \in markers)
    BY DEF InString
<1>2. /\ s + 1 <= at /\ at < e /\ e <= Len(T) /\ T[s + 1] = Quote /\ T[e] = Quote
    BY DEF InString
<1>3. ASSUME at + 1 < e
      PROVE  IF at \in markers THEN at + 1 \notin markers /\ T[at + 1] \notin Unescapable
             ELSE IF at + 1 \in markers THEN T[at + 1] = Escape
             ELSE T[at + 1] \notin {Quote, Escape, "ctl", "bad", "end"}
    <2>1. at + 1 \in (s + 2)..(e - 1) /\ at + 1 - 1 = at
        BY <1>2, <1>3
    <2> QED
        BY <1>1, <2>1 DEF Escapes
<1>4. ASSUME at + 1 < e, NEW next, next = "escape" <=> at + 1 \in markers
      PROVE  InString(T, s, e, at + 1, next)
    <2>1. s + 1 <= at + 1
        BY <1>2
    <2>2. \E m \in SUBSET ((s + 2)..(e - 2)) :
             Escapes(T, s, e, m) /\ (next = "escape" <=> at + 1 \in m)
        BY <1>1, <1>4
    <2> HIDE DEF Quote
    <2> QED
        BY <1>2, <1>4, <2>1, <2>2 DEF InString
<1>5. ASSUME state = "escape"
      PROVE  T[at + 1] \notin Unescapable /\ at + 1 < e /\ InString(T, s, e, at + 1, "text")
    <2>1. at \in markers
        BY <1>1, <1>5
    <2>2. at \in (s + 2)..(e - 2)
        BY <1>1, <2>1
    <2>3. at + 1 < e
        BY <2>2
    <2>4. at + 1 \notin markers /\ T[at + 1] \notin Unescapable
        BY <1>3, <2>1, <2>3
    <2>5. "text" = "escape" <=> at + 1 \in markers
        BY <2>4
    <2> QED
        BY <1>4, <2>3, <2>4, <2>5
<1>6. ASSUME state = "text"
      PROVE  \/ T[at + 1] = Quote /\ at + 1 = e
             \/ T[at + 1] = Escape /\ at + 1 < e /\ InString(T, s, e, at + 1, "escape")
             \/ /\ T[at + 1] \notin {Quote, Escape, "ctl", "bad", "end"} /\ at + 1 < e
                /\ InString(T, s, e, at + 1, "text")
    <2>1. at \notin markers
        BY <1>1, <1>6
    <2>2. CASE at + 1 = e
        BY <1>2, <2>2
    <2>3. CASE at + 1 < e /\ at + 1 \in markers
        BY <1>3, <1>4, <2>1, <2>3
    <2>4. CASE at + 1 < e /\ at + 1 \notin markers
        <3>1. T[at + 1] \notin {Quote, Escape, "ctl", "bad", "end"}
            BY <1>3, <2>1, <2>4
        <3>2. "text" = "escape" <=> at + 1 \in markers
            BY <2>4
        <3>3. InString(T, s, e, at + 1, "text")
            BY <1>4, <2>4, <3>2
        <3> QED
            BY <2>4, <3>1, <3>3
    <2>5. at + 1 = e \/ at + 1 < e
        BY <1>2
    <2> QED
        BY <2>2, <2>3, <2>4, <2>5
<1> QED
    BY <1>2, <1>5, <1>6

LEMMA BeginNameKeeps ==
    ASSUME ScanInv, BeginName
    PROVE  ScanInv'
<1> PICK T, W : T = Source(request) /\ W = request.values
    OBVIOUS
<1>1. mode = "next" /\ mode # "done" /\ Top.kind = "object" /\ Peek = "quote"
    BY DEF BeginName, Quote
<1>2. /\ request \in Requests /\ limits \in Limits /\ mode \in Modes /\ stop = Unread
      /\ cursor \in Nat /\ name \in [start : Nat, end : Nat] /\ text \in Nat
      /\ value \in ValueSet(W) /\ nodes \in Seq(NodeSet(W)) /\ frames \in Seq(FrameSet)
      /\ checkpoints \in Seq(PathSet(W))
      /\ cursor <= Trusted(request) /\ cursor <= WindowEnd
      /\ WindowEnd \in Nat /\ Trusted(request) \in Nat
      /\ Len(nodes) \in Nat /\ Len(nodes) <= Len(W)
    BY <1>1, Unpacked
<1>3. /\ Wrote(T, W) /\ Family(W)
      /\ Indexes(W, nodes) /\ AllExact(W, nodes, CutAt) /\ Stack(W, frames, nodes)
      /\ Recalled(W, frames, checkpoints) /\ Inside(W, frames, cursor)
    BY <1>1, Unpacked
<1>4. /\ OpenOnly(frames, nodes, 0)
      /\ Doomed(W) \/ Placed(T, W, Len(nodes) + 1)
    <2>1. mode \notin Busy
        BY <1>1 DEF Busy
    <2> QED
        BY <1>1, <2>1, Unpacked
<1> DEFINE top == frames[Len(frames)]
           i == Len(nodes) + 1
<1>5. /\ request' = request /\ limits' = limits /\ mode' = "text" /\ cursor' = cursor + 1
      /\ name' = [start |-> cursor, end |-> cursor] /\ text' = 0
      /\ nodes' = nodes /\ frames' = frames /\ path' = path /\ checkpoints' = checkpoints
      /\ value' = value /\ stop' = stop /\ top.kind = "object"
    BY DEF BeginName, Top
<1>6. frames # << >> /\ Resting(W, frames, checkpoints, path)
    BY <1>1, <1>4 DEF Placed, Doomed
<1>7. /\ cursor < Trusted(request) /\ cursor < WindowEnd /\ T[cursor + 1] = "quote" /\ ~Stuck
    BY <1>1, <1>2, PeekIs
<1>8. Due(W, frames, i) /\ Blank(T, cursor, W[i].label.start)
    BY <1>1, <1>4, <1>7 DEF Placed, Doomed
<1>9. PICK k \in Nat, c \in Nat : k = i /\ c = cursor
    BY <1>2
<1>10. Due(W, frames, k)
    BY <1>8, <1>9
<1>11. /\ k \in 2..Len(W) /\ W[k].parent = top.node
       /\ W[k].label.start \in Nat /\ W[k].label.end \in Nat /\ W[k].start \in Nat
       /\ W[k].end \in Nat /\ W[top.node].end \in Nat
       /\ W[k].start < W[k].end /\ W[k].end < W[top.node].end
    <2>1. /\ k \in 2..Len(W) /\ W[k].parent = top.node
          /\ W[k].label.start \in Nat /\ W[k].label.end \in Nat /\ W[k].start \in Nat
          /\ W[k].end \in Nat /\ W[top.node].end \in Nat
        <3>1. Wrote(T, W) /\ Family(W) /\ frames # << >> /\ Due(W, frames, k)
            BY <1>3, <1>6, <1>10
        <3>2. k \in 2..Len(W) /\ W[k].parent = top.node
            BY <3>1, NextChildIs
        <3>3. W[k].label.start \in Nat /\ W[k].label.end \in Nat
            BY <3>1, NextChildIs
        <3>4. W[k].start \in Nat /\ W[k].end \in Nat /\ W[top.node].end \in Nat
            BY <3>1, NextChildIs
        <3> QED
            BY <3>2, <3>3, <3>4
    <2>2. W[k].start < W[k].end /\ W[k].end < W[top.node].end
        BY <1>3, <1>6, <1>10, NextChildIs
    <2> QED
        BY <2>1, <2>2
<1>12. /\ W[k].label.end < W[k].start
       /\ StringAt(T, W[k].label.start, W[k].label.end)
    <2>1. top.kind = W[top.node].kind
        BY <1>2, <1>3, <1>6, TopIs
    <2>2. W[W[k].parent].kind = "object"
        BY <1>5, <1>11, <2>1
    <2>3. Wrote(T, W) /\ k \in 2..Len(W) /\ W[W[k].parent].kind = "object"
        BY <1>3, <1>11, <2>2
    <2> QED
        BY ONLY <2>3, ChildFacts
<1>13. PICK l \in Nat, g \in Nat, s \in Nat, d \in Nat, e \in Nat :
        /\ l = W[k].label.start /\ g = W[k].label.end /\ s = W[k].start /\ d = W[k].end
        /\ e = W[top.node].end
    BY <1>11
<1>14. c = l
    <2>1. Blank(T, c, l) /\ T[c + 1] # "space"
        BY <1>7, <1>8, <1>9, <1>13
    <2> QED
        BY <2>1, NotSpaceBlank
<1>15. InString(T, l, g, l + 1, "text") /\ l + 1 < g /\ g < s /\ s < d /\ d < e
    <2>1. Len(T) \in Nat /\ StringAt(T, l, g)
        BY <1>3, <1>12, <1>13 DEF Wrote
    <2>2. InString(T, l, g, l + 1, "text") /\ l + 1 < g
        BY <2>1, StringOpens
    <2> QED
        BY <1>11, <1>12, <1>13, <2>2
<1>16. Inside(W, frames', cursor')
    <2>1. cursor + 1 < e
        BY <1>9, <1>14, <1>15
    <2> QED
        BY <1>5, <1>13, <2>1 DEF Inside
<1>17. Placed(T, W, Len(nodes) + 1)'
    <2>1. InString(T, W[i].label.start, W[i].label.end, cursor + 1, "text")
              /\ cursor = W[i].label.start
        BY <1>9, <1>13, <1>14, <1>15
    <2> QED
        BY <1>5, <1>6, <1>8, <2>1 DEF Placed, Numeric, Top
<1>18. mode' \in Modes /\ name' \in [start : Nat, end : Nat] /\ text' \in Nat
    BY <1>2, <1>5 DEF Modes
<1>19. cursor' \in Nat /\ cursor' <= Trusted(request) /\ cursor' <= WindowEnd
    BY <1>2, <1>5, <1>7
<1>20. OpenOnly(frames', nodes', IF mode' \in Busy THEN text' ELSE 0)
    BY <1>4, <1>5
<1> QED
    BY <1>2, <1>3, <1>5, <1>16, <1>17, <1>18, <1>19, <1>20, Packed

(* The end of the node being read moves on.                                   *)
Moved(ns, ms, k, e) ==
    /\ Len(ms) = Len(ns) /\ \A i \in 1..Len(ns) : i # k => ms[i] = ns[i]
    /\ ms[k].start = ns[k].start /\ ms[k].kind = ns[k].kind /\ ms[k].depth = ns[k].depth
    /\ ms[k].parent = ns[k].parent /\ ms[k].occurrence = ns[k].occurrence
    /\ ms[k].name = ns[k].name /\ ms[k].path = ns[k].path
    /\ ms[k].end = e /\ ms[k].duplicate = ns[k].duplicate
Unfinished(ns, k) == ~ns[k].complete
Grew(ns, ms, k, e) == Moved(ns, ms, k, e) /\ ms[k].complete = ns[k].complete
Closed(ns, ms, k, e) == Moved(ns, ms, k, e) /\ ms[k].complete

LEMMA GrowsThus ==
    ASSUME NEW W, NEW ns \in Seq(NodeSet(W)), NEW k \in 1..Len(ns), NEW e \in Nat,
           NEW ms, ms = [ns EXCEPT ![k].end = e]
    PROVE  ms \in Seq(NodeSet(W)) /\ Grew(ns, ms, k, e)
<1>1. /\ ms \in Seq(NodeSet(W)) /\ Len(ms) = Len(ns)
      /\ \A i \in 1..Len(ns) : ms[i] = IF i = k THEN [ns[k] EXCEPT !.end = e] ELSE ns[i]
    BY NodeGrown
<1>2. ns[k] \in NodeSet(W)
    OBVIOUS
<1>3. ms[k] = [ns[k] EXCEPT !.end = e] /\ \A i \in 1..Len(ns) : i # k => ms[i] = ns[i]
    BY <1>1
<1>4. /\ ms[k].start = ns[k].start /\ ms[k].kind = ns[k].kind /\ ms[k].depth = ns[k].depth
      /\ ms[k].parent = ns[k].parent /\ ms[k].occurrence = ns[k].occurrence
      /\ ms[k].name = ns[k].name /\ ms[k].path = ns[k].path
      /\ ms[k].end = e /\ ms[k].duplicate = ns[k].duplicate /\ ms[k].complete = ns[k].complete
    BY <1>2, <1>3, GrownNode
<1> QED
    BY <1>1, <1>3, <1>4 DEF Grew, Moved

LEMMA MovedIndexes ==
    ASSUME NEW W, Family(W), NEW ns \in Seq(NodeSet(W)), NEW ms \in Seq(NodeSet(W)),
           Indexes(W, ns), NEW k \in 1..Len(ns), NEW e \in Nat, Moved(ns, ms, k, e), e <= W[k].end
    PROVE  Indexes(W, ms)
<1>1. ASSUME NEW i \in 1..Len(ns)
      PROVE  /\ Alike(ns[i], W[i]) => Alike(ms[i], W[i])
             /\ ms[i].end <= W[i].end
             /\ ns[i].duplicate => ms[i].duplicate
    <2>1. ns[i].end <= W[i].end
        BY DEF Indexes
    <2>2. CASE i = k
        BY <2>2 DEF Moved, Alike
    <2>3. CASE i # k
        BY <2>1, <2>3 DEF Moved, Alike
    <2> QED
        BY <2>2, <2>3
<1>2. Len(ms) = Len(ns)
    BY DEF Moved
<1> QED
    BY <1>1, <1>2, IndexesRevised DEF Revised

LEMMA GrownExact ==
    ASSUME NEW W, NEW ns, NEW ms, NEW cut, AllExact(W, ns, cut), NEW k \in 1..Len(ns),
           Unfinished(ns, k), NEW e, Grew(ns, ms, k, e)
    PROVE  AllExact(W, ms, cut) /\ Unfinished(ms, k)
<1>1. Unfinished(ms, k)
    BY DEF Grew, Unfinished
<1>2. ASSUME NEW i \in 1..Len(ns)
      PROVE  Exact(W, ms[i], i, cut)
    <2>1. CASE i = k
        BY <1>1, <2>1 DEF Exact, Unfinished
    <2>2. CASE i # k
        BY <2>2 DEF AllExact, Grew, Moved
    <2> QED
        BY <2>1, <2>2
<1> QED
    BY <1>1, <1>2 DEF AllExact, Grew, Moved

LEMMA GrownStack ==
    ASSUME NEW W, NEW fs \in Seq(FrameSet), NEW ns, NEW ms, Stack(W, fs, ns),
           NEW k, NEW e, Grew(ns, ms, k, e)
    PROVE  Stack(W, fs, ms)
<1>1. \A f \in 1..Len(fs) : fs[f].node \in 1..Len(ns) /\ ~ns[fs[f].node].complete
    BY DEF Stack
<1>2. \A f \in 1..Len(fs) : ~ms[fs[f].node].complete
    BY <1>1 DEF Grew, Moved
<1> QED
    BY <1>2, StackRevised DEF Grew, Moved

LEMMA GrownOpen ==
    ASSUME NEW fs, NEW ns, NEW ms, NEW r, OpenOnly(fs, ns, r), NEW k, NEW e, Grew(ns, ms, k, e)
    PROVE  OpenOnly(fs, ms, r)
    BY DEF OpenOnly, Grew, Moved

(* What is being read: the string whose quotes stand at s + 1 and e.          *)
Reading(T, s, e) ==
    \/ mode = "quote" /\ cursor = s /\ StringAt(T, s, e)
    \/ mode \in {"text", "escape"} /\ InString(T, s, e, cursor, mode)

LEMMA StringByteKeeps ==
    ASSUME ScanInv, mode \in Busy, NEW next \in {"text", "escape"}, StringByte(next),
           cursor < Trusted(request), cursor < WindowEnd,
           \A s, e \in Nat : Reading(Source(request), s, e) =>
                cursor + 1 < e /\ InString(Source(request), s, e, cursor + 1, next)
    PROVE  ScanInv'
<1> PICK T, W : T = Source(request) /\ W = request.values
    OBVIOUS
<1>1. mode # "done" /\ mode \in Busy /\ mode # "value" /\ mode # "next"
    BY DEF Busy
<1>2. /\ request \in Requests /\ limits \in Limits /\ mode \in Modes /\ stop = Unread
      /\ cursor \in Nat /\ name \in [start : Nat, end : Nat] /\ text \in Nat
      /\ value \in ValueSet(W) /\ nodes \in Seq(NodeSet(W)) /\ frames \in Seq(FrameSet)
      /\ checkpoints \in Seq(PathSet(W))
      /\ cursor <= Trusted(request) /\ cursor <= WindowEnd
      /\ WindowEnd \in Nat /\ Trusted(request) \in Nat
      /\ Len(nodes) \in Nat /\ Len(nodes) <= Len(W)
    BY <1>1, Unpacked
<1>3. /\ Wrote(T, W) /\ Family(W)
      /\ Indexes(W, nodes) /\ AllExact(W, nodes, CutAt) /\ Stack(W, frames, nodes)
      /\ Recalled(W, frames, checkpoints) /\ Inside(W, frames, cursor)
    BY <1>1, Unpacked
<1>4. /\ OpenOnly(frames, nodes, text)
      /\ Doomed(W) \/ Placed(T, W, Len(nodes) + 1)
    <2>1. mode \in Busy
        BY <1>1 DEF Busy
    <2> QED
        BY <1>1, <2>1, Unpacked
<1>5. /\ request' = request /\ limits' = limits /\ mode' = next /\ cursor' = cursor + 1
      /\ value' = value /\ name' = name /\ text' = text
      /\ nodes' = Grown /\ frames' = frames /\ path' = path /\ checkpoints' = checkpoints
      /\ stop' = stop
    BY DEF StringByte
<1>6. /\ cursor' \in Nat /\ cursor' <= Trusted(request) /\ cursor' <= WindowEnd
      /\ mode' \in Modes /\ mode' \in Busy
    BY <1>2, <1>5 DEF Modes, Busy
<1>7. Placed(T, W, Len(nodes) + 1)
    BY <1>1, <1>4 DEF Doomed
<1>8. CASE text = 0
    <2> DEFINE i == Len(nodes) + 1
    <2>1. nodes' = nodes
        BY <1>5, <1>8 DEF Grown
    <2>2. /\ frames # << >> /\ Top.kind = "object" /\ Due(W, frames, i)
          /\ Resting(W, frames, checkpoints, path)
          /\ mode \in {"text", "escape"} /\ name.start = W[i].label.start
          /\ InString(T, W[i].label.start, W[i].label.end, cursor, mode)
        <3>1. mode # "quote"
            BY <1>2, <1>7, <1>8 DEF Placed
        <3> QED
            BY <1>1, <1>7, <1>8, <3>1 DEF Placed, Busy
    <2>3. PICK k \in Nat : k = i
        BY <1>2
    <2>4. Due(W, frames, k) /\ W[k].parent = frames[Len(frames)].node /\ k \in 2..Len(W)
        <3>1. Due(W, frames, k) /\ Wrote(T, W) /\ Family(W) /\ frames # << >>
            BY <1>3, <2>2, <2>3
        <3>2. k \in Nat
            BY <2>3
        <3>3. W[k].parent = frames[Len(frames)].node /\ k \in 2..Len(W)
            BY ONLY <3>1, <3>2, NextChildIs
        <3> QED
            BY <3>1, <3>3
    <2>5. /\ W[k].label.start \in Nat /\ W[k].label.end \in Nat /\ W[k].start \in Nat
          /\ W[k].end \in Nat /\ W[frames[Len(frames)].node].end \in Nat
        <3>1. Due(W, frames, k) /\ Wrote(T, W) /\ Family(W) /\ frames # << >>
            BY <1>3, <2>2, <2>4
        <3>2. W[k].label.start \in Nat /\ W[k].label.end \in Nat
            BY <3>1, NextChildIs
        <3>3. W[k].start \in Nat /\ W[k].end \in Nat /\ W[frames[Len(frames)].node].end \in Nat
            BY <3>1, NextChildIs
        <3> QED
            BY <3>2, <3>3
    <2>6. /\ W[k].start < W[k].end /\ W[k].end < W[frames[Len(frames)].node].end
          /\ W[k].label.end < W[k].start
        <3>1. frames[Len(frames)].kind = W[frames[Len(frames)].node].kind
            BY <1>2, <1>3, <2>2, TopIs
        <3>2. W[W[k].parent].kind = "object"
            BY <2>2, <2>4, <3>1 DEF Top
        <3> QED
            BY <1>3, <2>4, <3>2, ChildFacts
    <2>7. PICK l \in Nat, g \in Nat, s \in Nat, d \in Nat, e \in Nat :
            /\ l = W[k].label.start /\ g = W[k].label.end /\ s = W[k].start /\ d = W[k].end
            /\ e = W[frames[Len(frames)].node].end
        BY <2>5
    <2>8. cursor + 1 < g /\ InString(T, l, g, cursor + 1, next)
        <3>1. Reading(T, l, g)
            BY <2>2, <2>3, <2>7 DEF Reading
        <3> QED
            BY <3>1
    <2>9. Inside(W, frames', cursor')
        <3>1. g < s /\ s < d /\ d < e
            BY <2>6, <2>7
        <3>2. cursor + 1 < e
            BY <1>2, <2>8, <3>1
        <3> QED
            BY <1>5, <2>7, <3>2 DEF Inside
    <2>10. Placed(T, W, Len(nodes) + 1)'
        <3>1. InString(T, W[i].label.start, W[i].label.end, cursor + 1, next)
            BY <2>3, <2>7, <2>8
        <3> QED
            BY <1>5, <1>8, <2>1, <2>2, <3>1 DEF Placed, Numeric, Top
    <2>11. OpenOnly(frames', nodes', IF mode' \in Busy THEN text' ELSE 0)
        BY <1>4, <1>5, <1>6, <2>1
    <2> QED
        BY <1>2, <1>3, <1>5, <1>6, <2>1, <2>9, <2>10, <2>11, Packed
<1>9. CASE text # 0
    <2> DEFINE k == Len(nodes)
    <2>1. nodes' = [nodes EXCEPT ![k].end = cursor + 1] /\ text = k /\ k \in 1..Len(nodes)
              /\ ~nodes[k].complete /\ W[k].kind = "string"
              /\ Knows(W, frames, checkpoints, path, value, k)
        <3>1. /\ Len(nodes) + 1 > 1 /\ text = Len(nodes) + 1 - 1
              /\ W[Len(nodes) + 1 - 1].kind = "string"
              /\ ~nodes[Len(nodes) + 1 - 1].complete
              /\ Knows(W, frames, checkpoints, path, value, Len(nodes) + 1 - 1)
            BY <1>1, <1>7, <1>9 DEF Placed, Busy
        <3>2. Len(nodes) + 1 - 1 = Len(nodes) /\ Len(nodes) \in 1..Len(nodes)
            BY <1>2, <3>1
        <3> QED
            BY <1>5, <1>9, <3>1, <3>2 DEF Grown
    <2>2. Reading(T, W[k].start, W[k].end)
        <3>1. mode = "quote" => cursor = W[k].start
            <4>1. Len(nodes) + 1 - 1 = Len(nodes)
                BY <1>2
            <4> QED
                BY <1>7, <1>9, <4>1 DEF Placed
        <3>2. mode # "quote" => InString(T, W[k].start, W[k].end, cursor, mode)
            <4>1. Len(nodes) + 1 - 1 = Len(nodes)
                BY <1>2
            <4> QED
                BY <1>1, <1>7, <1>9, <4>1 DEF Placed, Busy
        <3>3. StringAt(T, W[k].start, W[k].end)
            <4>1. k \in 1..Len(W)
                BY <1>2, <2>1
            <4>2. Shape(T, W, k)
                BY <1>3, <4>1 DEF Wrote, SentAs
            <4> QED
                BY <2>1, <4>2 DEF Shape
        <3> QED
            BY <1>1, <3>1, <3>2, <3>3 DEF Reading, Busy
    <2>3. PICK n \in Nat, s \in Nat, d \in Nat : n = k /\ s = W[k].start /\ d = W[k].end
        <3>1. k \in 1..Len(W)
            BY <1>2, <2>1
        <3>2. k \in Nat /\ W[k].start \in Nat /\ W[k].end \in Nat
            BY <1>2, <1>3, <3>1, NotASpace
        <3> QED
            BY <3>2
    <2>4. cursor + 1 < d /\ InString(T, s, d, cursor + 1, next)
        BY <2>2, <2>3
    <2>5. /\ nodes' \in Seq(NodeSet(W)) /\ Len(nodes') = k
          /\ Indexes(W, nodes') /\ AllExact(W, nodes', CutAt) /\ Stack(W, frames, nodes')
          /\ OpenOnly(frames, nodes', text) /\ ~nodes'[k].complete
        <3>1. PICK c \in Nat : c = cursor + 1 /\ c <= W[n].end
            BY <1>2, <2>3, <2>4
        <3>2. /\ nodes' = [nodes EXCEPT ![n].end = c] /\ n \in 1..Len(nodes) /\ ~nodes[n].complete
              /\ nodes \in Seq(NodeSet(W)) /\ frames \in Seq(FrameSet) /\ Family(W)
              /\ Indexes(W, nodes) /\ AllExact(W, nodes, CutAt) /\ Stack(W, frames, nodes)
              /\ OpenOnly(frames, nodes, text)
            BY <1>2, <1>3, <1>4, <2>1, <2>3, <3>1
        <3>3. /\ nodes' \in Seq(NodeSet(W)) /\ Len(nodes') = Len(nodes)
              /\ Indexes(W, nodes') /\ AllExact(W, nodes', CutAt) /\ Stack(W, frames, nodes')
              /\ OpenOnly(frames, nodes', text) /\ ~nodes'[n].complete
            <4>1. nodes' \in Seq(NodeSet(W)) /\ Grew(nodes, nodes', n, c)
                BY <3>1, <3>2, GrowsThus
            <4>2. Len(nodes') = Len(nodes)
                BY <4>1 DEF Grew, Moved
            <4>3. /\ Indexes(W, nodes') /\ AllExact(W, nodes', CutAt) /\ Stack(W, frames, nodes')
                  /\ OpenOnly(frames, nodes', text) /\ Unfinished(nodes', n)
                <5>1. Unfinished(nodes, n)
                    BY <3>2 DEF Unfinished
                <5> QED
                    BY <3>1, <3>2, <4>1, <5>1, MovedIndexes, GrownExact, GrownStack, GrownOpen DEF Grew
            <4> QED
                BY <4>1, <4>2, <4>3 DEF Unfinished
        <3> QED
            BY <2>3, <3>3
    <2>6. Inside(W, frames', cursor')
        <3>1. CASE frames # << >>
            <4>1. Due(W, frames, n)
                BY <2>1, <2>3 DEF Knows
            <4>2. W[frames[Len(frames)].node].end \in Nat /\ W[n].end < W[frames[Len(frames)].node].end
                BY <1>3, <3>1, <4>1, NextChildIs
            <4>3. PICK e \in Nat : e = W[frames[Len(frames)].node].end
                BY <4>2
            <4>4. cursor + 1 < e
                <5>1. d < e
                    BY <2>3, <4>2, <4>3
                <5> QED
                    BY <1>2, <2>4, <5>1
            <4> QED
                BY <1>5, <4>3, <4>4 DEF Inside
        <3>2. CASE frames = << >>
            BY <1>5, <3>2 DEF Inside
        <3> QED
            BY <3>1, <3>2
    <2>7. Placed(T, W, Len(nodes) + 1)'
        <3>1. Len(nodes') + 1 > 1 /\ Len(nodes') + 1 - 1 = k
            BY <1>2, <2>1, <2>5
        <3>2. InString(T, W[k].start, W[k].end, cursor', mode')
            BY <1>5, <2>3, <2>4
        <3>3. Knows(W, frames', checkpoints', path', value', k)
            BY <1>5, <2>1
        <3>4. /\ mode' \in {"text", "escape"} /\ text' # 0 /\ text' = k
              /\ ~nodes'[k].complete /\ W[k].kind = "string"
            BY <1>5, <1>9, <2>1, <2>5
        <3> HIDE DEF k
        <3> QED
            BY <3>1, <3>2, <3>3, <3>4 DEF Placed, Numeric
    <2>8. OpenOnly(frames', nodes', IF mode' \in Busy THEN text' ELSE 0)
        BY <1>5, <1>6, <2>5
    <2> QED
        BY <1>2, <1>3, <1>5, <1>6, <2>5, <2>6, <2>7, <2>8, Packed
<1> QED
    BY <1>8, <1>9

LEMMA OpenQuoteKeeps ==
    ASSUME ScanInv, OpenQuote
    PROVE  ScanInv'
<1> PICK T, W : T = Source(request) /\ W = request.values
    OBVIOUS
<1>1. mode # "done" /\ mode = "quote" /\ StringByte("text") /\ mode \in Busy
    BY DEF OpenQuote, Busy
<1>2. /\ request \in Requests /\ limits \in Limits /\ mode \in Modes /\ stop = Unread
      /\ cursor \in Nat /\ name \in [start : Nat, end : Nat] /\ text \in Nat
      /\ value \in ValueSet(W) /\ nodes \in Seq(NodeSet(W)) /\ frames \in Seq(FrameSet)
      /\ checkpoints \in Seq(PathSet(W))
      /\ cursor <= Trusted(request) /\ cursor <= WindowEnd
      /\ WindowEnd \in Nat /\ Trusted(request) \in Nat
      /\ Len(nodes) \in Nat /\ Len(nodes) <= Len(W)
    BY <1>1, Unpacked
<1>3. /\ Wrote(T, W) /\ Family(W)
      /\ Indexes(W, nodes) /\ AllExact(W, nodes, CutAt) /\ Stack(W, frames, nodes)
      /\ Recalled(W, frames, checkpoints) /\ Inside(W, frames, cursor)
    BY <1>1, Unpacked
<1>4. /\ OpenOnly(frames, nodes, text)
      /\ Doomed(W) \/ Placed(T, W, Len(nodes) + 1)
    <2>1. mode \in Busy
        BY <1>1 DEF Busy
    <2> QED
        BY <1>1, <2>1, Unpacked
<1>5. cursor < Trusted(request) /\ cursor < WindowEnd
    BY <1>1, <1>4 DEF Placed, Doomed
<1>6. \A s, e \in Nat : Reading(Source(request), s, e) =>
            cursor + 1 < e /\ InString(Source(request), s, e, cursor + 1, "text")
    <2> SUFFICES ASSUME NEW s \in Nat, NEW e \in Nat, Reading(T, s, e)
                 PROVE  cursor + 1 < e /\ InString(T, s, e, cursor + 1, "text")
        OBVIOUS
    <2>1. cursor = s /\ StringAt(T, s, e)
        BY <1>1 DEF Reading
    <2>2. InString(T, s, e, s + 1, "text") /\ s + 1 < e
        BY <1>3, <2>1, StringOpens DEF Wrote
    <2> QED
        BY <2>1, <2>2
<1> QED
    BY <1>1, <1>5, <1>6, StringByteKeeps

(* The letter under the cursor is the next one of the string being read.      *)
LEMMA LetterRead ==
    ASSUME ScanInv, mode \in {"text", "escape"}, Peek \notin {"end", "ctl", "bad"},
           NEW s \in Nat, NEW e \in Nat, Reading(Source(request), s, e)
    PROVE  LET T == Source(request)
           IN  /\ mode = "escape" => /\ cursor + 1 < e /\ InString(T, s, e, cursor + 1, "text")
               /\ mode = "text" =>
                     /\ Peek = Quote => cursor + 1 = e
                     /\ Peek = Escape =>
                           cursor + 1 < e /\ InString(T, s, e, cursor + 1, "escape")
                     /\ Peek \notin {Quote, Escape} =>
                           cursor + 1 < e /\ InString(T, s, e, cursor + 1, "text")
<1> PICK T, W : T = Source(request) /\ W = request.values
    OBVIOUS
<1>1. mode # "done" /\ mode \in Busy
    BY DEF Busy
<1>2. /\ request \in Requests /\ limits \in Limits /\ mode \in Modes /\ stop = Unread
      /\ cursor \in Nat /\ name \in [start : Nat, end : Nat] /\ text \in Nat
      /\ value \in ValueSet(W) /\ nodes \in Seq(NodeSet(W)) /\ frames \in Seq(FrameSet)
      /\ checkpoints \in Seq(PathSet(W))
      /\ cursor <= Trusted(request) /\ cursor <= WindowEnd
      /\ WindowEnd \in Nat /\ Trusted(request) \in Nat
      /\ Len(nodes) \in Nat /\ Len(nodes) <= Len(W)
    BY <1>1, Unpacked
<1>3. /\ Wrote(T, W) /\ Family(W)
      /\ Indexes(W, nodes) /\ AllExact(W, nodes, CutAt) /\ Stack(W, frames, nodes)
      /\ Recalled(W, frames, checkpoints) /\ Inside(W, frames, cursor)
    BY <1>1, Unpacked
<1>4. /\ OpenOnly(frames, nodes, text)
      /\ Doomed(W) \/ Placed(T, W, Len(nodes) + 1)
    <2>1. mode \in Busy
        BY <1>1 DEF Busy
    <2> QED
        BY <1>1, <2>1, Unpacked
<1>5. cursor < Trusted(request) /\ cursor < WindowEnd /\ Peek = T[cursor + 1]
    BY <1>2, PeekIs
<1>6. InString(T, s, e, cursor, mode)
    BY DEF Reading
<1>7. PICK c \in Nat, m \in {"text", "escape"} : c = cursor /\ m = mode
    BY <1>2
<1>8. InString(T, s, e, c, m)
    BY <1>6, <1>7
<1>9. /\ m = "escape" => c + 1 < e /\ InString(T, s, e, c + 1, "text")
      /\ m = "text" =>
            \/ T[c + 1] = Quote /\ c + 1 = e
            \/ T[c + 1] = Escape /\ c + 1 < e /\ InString(T, s, e, c + 1, "escape")
            \/ /\ T[c + 1] \notin {Quote, Escape} /\ c + 1 < e
               /\ InString(T, s, e, c + 1, "text")
    BY ONLY <1>8, StringStep, s \in Nat, e \in Nat, c \in Nat, m \in {"text", "escape"}
<1> QED
    BY <1>5, <1>7, <1>9 DEF Quote, Escape

LEMMA LetterInside ==
    ASSUME ScanInv, mode \in {"text", "escape"}, Peek \notin {"end", "ctl", "bad"}
    PROVE  cursor < Trusted(request) /\ cursor < WindowEnd
<1> PICK T, W : T = Source(request) /\ W = request.values
    OBVIOUS
<1>1. mode # "done" /\ mode \in Busy
    BY DEF Busy
<1>2. /\ request \in Requests /\ limits \in Limits /\ mode \in Modes /\ stop = Unread
      /\ cursor \in Nat /\ name \in [start : Nat, end : Nat] /\ text \in Nat
      /\ value \in ValueSet(W) /\ nodes \in Seq(NodeSet(W)) /\ frames \in Seq(FrameSet)
      /\ checkpoints \in Seq(PathSet(W))
      /\ cursor <= Trusted(request) /\ cursor <= WindowEnd
      /\ WindowEnd \in Nat /\ Trusted(request) \in Nat
      /\ Len(nodes) \in Nat /\ Len(nodes) <= Len(W)
    BY <1>1, Unpacked
<1>3. /\ Wrote(T, W) /\ Family(W)
      /\ Indexes(W, nodes) /\ AllExact(W, nodes, CutAt) /\ Stack(W, frames, nodes)
      /\ Recalled(W, frames, checkpoints) /\ Inside(W, frames, cursor)
    BY <1>1, Unpacked
<1>4. /\ OpenOnly(frames, nodes, text)
      /\ Doomed(W) \/ Placed(T, W, Len(nodes) + 1)
    <2>1. mode \in Busy
        BY <1>1 DEF Busy
    <2> QED
        BY <1>1, <2>1, Unpacked
<1> QED
    BY <1>2, PeekIs

LEMMA TextByteKeeps ==
    ASSUME ScanInv, TextByte
    PROVE  ScanInv'
<1>1. /\ mode = "text" /\ mode \in Busy /\ Peek \notin {"end", "ctl", "bad"}
      /\ Peek \notin {Quote, Escape} /\ StringByte("text")
    BY DEF TextByte, Busy
<1>2. \A s, e \in Nat : Reading(Source(request), s, e) =>
            cursor + 1 < e /\ InString(Source(request), s, e, cursor + 1, "text")
    BY <1>1, LetterRead
<1> QED
    BY <1>1, <1>2, LetterInside, StringByteKeeps

LEMMA EscapeByteKeeps ==
    ASSUME ScanInv, EscapeByte
    PROVE  ScanInv'
<1>1. /\ mode = "text" /\ mode \in Busy /\ Peek = Escape /\ StringByte("escape")
    BY DEF EscapeByte, Busy
<1>2. Peek \notin {"end", "ctl", "bad"}
    BY <1>1 DEF Escape
<1>3. \A s, e \in Nat : Reading(Source(request), s, e) =>
            cursor + 1 < e /\ InString(Source(request), s, e, cursor + 1, "escape")
    BY <1>1, <1>2, LetterRead
<1> QED
    BY <1>1, <1>2, <1>3, LetterInside, StringByteKeeps

LEMMA EscapedByteKeeps ==
    ASSUME ScanInv, EscapedByte
    PROVE  ScanInv'
<1>1. mode = "escape" /\ mode \in Busy /\ Peek \notin Unescapable /\ StringByte("text")
    BY DEF EscapedByte, Busy
<1>2. Peek \notin {"end", "ctl", "bad"}
    BY <1>1 DEF Unescapable
<1>3. \A s, e \in Nat : Reading(Source(request), s, e) =>
            cursor + 1 < e /\ InString(Source(request), s, e, cursor + 1, "text")
    BY <1>1, <1>2, LetterRead
<1> QED
    BY <1>1, <1>2, <1>3, LetterInside, StringByteKeeps

LEMMA CloseNameKeeps ==
    ASSUME ScanInv, CloseName
    PROVE  ScanInv'
<1> PICK T, W : T = Source(request) /\ W = request.values
    OBVIOUS
<1>1. mode # "done" /\ mode = "text" /\ text = 0 /\ Peek = Quote /\ mode \in Busy
    BY DEF CloseName, Busy
<1>2. /\ request \in Requests /\ limits \in Limits /\ mode \in Modes /\ stop = Unread
      /\ cursor \in Nat /\ name \in [start : Nat, end : Nat] /\ text \in Nat
      /\ value \in ValueSet(W) /\ nodes \in Seq(NodeSet(W)) /\ frames \in Seq(FrameSet)
      /\ checkpoints \in Seq(PathSet(W))
      /\ cursor <= Trusted(request) /\ cursor <= WindowEnd
      /\ WindowEnd \in Nat /\ Trusted(request) \in Nat
      /\ Len(nodes) \in Nat /\ Len(nodes) <= Len(W)
    BY <1>1, Unpacked
<1>3. /\ Wrote(T, W) /\ Family(W)
      /\ Indexes(W, nodes) /\ AllExact(W, nodes, CutAt) /\ Stack(W, frames, nodes)
      /\ Recalled(W, frames, checkpoints) /\ Inside(W, frames, cursor)
    BY <1>1, Unpacked
<1>4. /\ OpenOnly(frames, nodes, text)
      /\ Doomed(W) \/ Placed(T, W, Len(nodes) + 1)
    <2>1. mode \in Busy
        BY <1>1 DEF Busy
    <2> QED
        BY <1>1, <2>1, Unpacked
<1> DEFINE i == Len(nodes) + 1
<1>5. /\ request' = request /\ limits' = limits /\ mode' = "colon" /\ cursor' = cursor + 1
      /\ value' = value /\ name' = [name EXCEPT !.end = cursor + 1] /\ text' = text
      /\ nodes' = nodes /\ frames' = frames /\ path' = path /\ checkpoints' = checkpoints
      /\ stop' = stop
    BY DEF CloseName
<1>6. /\ frames # << >> /\ Top.kind = "object" /\ Due(W, frames, i)
      /\ Resting(W, frames, checkpoints, path)
      /\ name.start = W[i].label.start
      /\ InString(T, W[i].label.start, W[i].label.end, cursor, mode)
    BY <1>1, <1>4 DEF Placed, Doomed
<1>7. Peek \notin {"end", "ctl", "bad"}
    BY <1>1 DEF Quote
<1>8. cursor < Trusted(request) /\ cursor < WindowEnd
    BY <1>1, <1>7, LetterInside
<1>9. PICK k \in Nat : k = i
    BY <1>2
<1>10. Due(W, frames, k) /\ Wrote(T, W) /\ Family(W) /\ frames # << >>
    BY <1>3, <1>6, <1>9
<1>11. k \in 2..Len(W) /\ W[k].parent = frames[Len(frames)].node
    BY <1>10, NextChildIs
<1>12. W[k].label.start \in Nat /\ W[k].label.end \in Nat
    BY <1>10, NextChildIs
<1>13. W[k].start \in Nat /\ W[k].end \in Nat /\ W[frames[Len(frames)].node].end \in Nat
    BY <1>10, NextChildIs
<1>14. /\ W[k].start < W[k].end /\ W[k].end < W[frames[Len(frames)].node].end
       /\ W[k].label.end < W[k].start
       /\ Mark(T, W[k].label.end, W[k].start, ":")
    <2>1. frames[Len(frames)].kind = W[frames[Len(frames)].node].kind
        BY <1>2, <1>3, <1>6, TopIs
    <2>2. W[W[k].parent].kind = "object"
        BY <1>6, <1>11, <2>1 DEF Top
    <2> QED
        BY <1>10, <1>11, <2>2, ChildFacts
<1>15. PICK l \in Nat, g \in Nat, s \in Nat, d \in Nat, e \in Nat :
        /\ l = W[k].label.start /\ g = W[k].label.end /\ s = W[k].start /\ d = W[k].end
        /\ e = W[frames[Len(frames)].node].end
    BY <1>12, <1>13
<1>16. cursor + 1 = g
    <2>1. Reading(T, l, g)
        BY <1>1, <1>6, <1>9, <1>15 DEF Reading
    <2> QED
        BY <1>1, <1>7, <2>1, LetterRead
<1>17. Inside(W, frames', cursor')
    <2>1. g < s /\ s < d /\ d < e
        BY <1>14, <1>15
    <2>2. g < e
        <3>1. g \in Nat /\ s \in Nat /\ d \in Nat /\ e \in Nat
            OBVIOUS
        <3> QED
            BY ONLY <2>1, <3>1
    <2>3. cursor + 1 < e
        BY ONLY <1>16, <2>2
    <2> QED
        BY <1>5, <1>15, <2>3 DEF Inside
<1>18. /\ name' \in [start : Nat, end : Nat] /\ name'.start = name.start
       /\ name'.end = cursor + 1
    <2>1. PICK c \in Nat : c = cursor + 1
        BY <1>2
    <2>2. name \in [start : Nat, end : Nat] /\ name' = [name EXCEPT !.end = c]
        BY <1>2, <1>5, <2>1
    <2> QED
        BY ONLY <2>1, <2>2, c \in Nat
<1>19. Placed(T, W, Len(nodes) + 1)'
    <2>1. /\ name'.start = W[i].label.start /\ name'.end = W[i].label.end
          /\ W[i].label.end <= cursor'
        BY <1>2, <1>5, <1>6, <1>9, <1>15, <1>16, <1>18
    <2>2. Mark(T, cursor', W[i].start, ":")
        BY <1>5, <1>9, <1>14, <1>15, <1>16
    <2> QED
        BY <1>5, <1>6, <2>1, <2>2 DEF Placed, Numeric, Top
<1>20. mode' \in Modes /\ mode' \notin Busy
    BY <1>5 DEF Modes, Busy
<1>21. cursor' \in Nat /\ cursor' <= Trusted(request) /\ cursor' <= WindowEnd
    <2>1. cursor' = cursor + 1
        BY <1>5
    <2>2. cursor < Trusted(request) /\ cursor < WindowEnd
        BY <1>8
    <2>3. cursor \in Nat /\ Trusted(request) \in Nat /\ WindowEnd \in Nat
        BY <1>2
    <2> QED
        BY <2>1, <2>2, <2>3
<1>22. OpenOnly(frames', nodes', IF mode' \in Busy THEN text' ELSE 0)
    BY <1>1, <1>4, <1>5, <1>20
<1> QED
    BY <1>2, <1>3, <1>5, <1>17, <1>18, <1>19, <1>20, <1>21, <1>22, Packed

-----------------------------------------------------------------------------
(***************************************************************************)
(* A value read to its end.                                                *)
(***************************************************************************)
LEMMA CompletedKeeps ==
    ASSUME NEW T, NEW W, T = Source(request), W = request.values,
           request \in Requests, limits \in Limits, request' = request, limits' = limits,
           stop = Unread, stop' = stop, name' = name, text' = text, value' = value,
           name \in [start : Nat, end : Nat], text \in Nat, value \in ValueSet(W),
           frames \in Seq(FrameSet), checkpoints \in Seq(PathSet(W)),
           WindowEnd \in Nat, Wrote(T, W), Family(W), Recalled(W, frames, checkpoints),
           NEW i \in 1..Len(W), Knows(W, frames, checkpoints, path, value, i),
           nodes' \in Seq(NodeSet(W)), Len(nodes') = i, W[i].last = i,
           Indexes(W, nodes'), AllExact(W, nodes', CutAt), Stack(W, frames, nodes'),
           OpenOnly(frames, nodes', 0),
           Rewind(value.base), frames' = CountChild(frames), mode' = AfterValue(frames),
           cursor' \in Nat, cursor' <= Trusted(request), cursor' <= WindowEnd,
           cursor' <= W[i].end,
           cursor' = W[i].end \/ (Truncated /\ cursor' = WindowEnd)
    PROVE  ScanInv'
<1>1. /\ frames' \in Seq(FrameSet) /\ SameFrames(frames, frames')
      /\ \A f \in 1..Len(frames) :
            frames'[f].children = IF f = Len(frames) THEN frames[f].children + 1
                                  ELSE frames[f].children
    BY Counted
<1>2. Stack(W, frames', nodes') /\ OpenOnly(frames', nodes', 0)
    BY <1>1, StackCounted, OpenSame
<1>3. WindowEnd' = WindowEnd /\ (Truncated' <=> Truncated)
    BY Unmoved
<1>4. /\ Due(W, frames, i) /\ Len(checkpoints) = Len(frames)
      /\ value.base = IF frames = << >> THEN 0 ELSE Len(frames) - 1
    BY DEF Knows
<1>5. /\ frames = << >> => Len(frames) = 0 /\ frames' = << >> /\ mode' = "trailing"
      /\ frames # << >> => Len(frames) > 0 /\ frames' # << >> /\ mode' = "frame"
      /\ Len(frames) \in Nat /\ Len(frames') = Len(frames)
    <2>1. Len(frames) \in Nat /\ (frames # << >> <=> Len(frames) > 0)
        BY FramesAre
    <2>2. Len(frames') \in Nat /\ (frames' # << >> <=> Len(frames') > 0)
        BY <1>1, FramesAre
    <2>3. Len(frames') = Len(frames)
        BY <1>1 DEF SameFrames
    <2>4. mode' = IF frames = << >> THEN "trailing" ELSE "frame"
        BY DEF AfterValue
    <2> QED
        BY <2>1, <2>2, <2>3, <2>4
<1>6. mode' \in Modes /\ mode' \notin Busy
    BY <1>5 DEF Modes, Busy
<1>7. OpenOnly(frames', nodes', IF mode' \in Busy THEN text' ELSE 0)
    BY <1>2, <1>6
<1>8. Len(nodes') + 1 - 1 = i
    OBVIOUS
<1>9. CASE frames = << >>
    <2>1. UNCHANGED <<path, checkpoints>> /\ frames' = << >> /\ mode' = "trailing"
        BY <1>4, <1>5, <1>9 DEF Rewind
    <2>2. i = 1 /\ i = Len(W)
        <3>1. i = 1
            BY <1>4, <1>9 DEF Due
        <3> QED
            BY <3>1 DEF Family
    <2>3. Blank(T, W[i].end, Len(T))
        BY <2>2 DEF Wrote, SentAs
    <2>4. Placed(T, W, Len(nodes) + 1)'
        <3>1. Blank(T, cursor', Len(T)) \/ (Truncated' /\ cursor' = WindowEnd')
            BY <1>3, <2>3
        <3> QED
            BY <1>8, <2>1, <2>2, <3>1 DEF Placed, Numeric
    <2>5. Inside(W, frames', cursor') /\ Recalled(W, frames', checkpoints')
        BY <1>9, <2>1 DEF Inside
    <2> QED
        BY <1>1, <1>2, <1>6, <1>7, <2>1, <2>4, <2>5, Packed
<1>10. CASE frames # << >>
    <2>1. PICK b \in Nat : b = Len(frames) - 1 /\ b < Len(checkpoints) /\ b = value.base
        BY <1>4, <1>5, <1>10
    <2>2. /\ path' = W[frames[b + 1].node].path
          /\ checkpoints' \in Seq(PathSet(W)) /\ Len(checkpoints') = b
          /\ \A f \in 1..b : checkpoints'[f] = checkpoints[f]
        <3>1. Rewind(b)
            BY <2>1
        <3> QED
            BY <2>1, <3>1, Rewound
    <2>3. Recalled(W, frames', checkpoints')
        <3>1. Recalled(W, frames, checkpoints')
            <4> SUFFICES ASSUME NEW f \in 1..Len(checkpoints')
                         PROVE  f <= Len(frames) /\ checkpoints'[f] = W[frames[f].node].path
                BY DEF Recalled
            <4>1. f \in 1..b /\ f \in 1..Len(checkpoints)
                BY <2>1, <2>2, <1>4, <1>5
            <4>2. checkpoints'[f] = checkpoints[f]
                BY <2>2, <4>1
            <4> QED
                BY <4>1, <4>2 DEF Recalled
        <3> QED
            BY <1>1, <3>1, RecalledSame
    <2>4. /\ Len(frames) \in 1..Len(frames) /\ Len(frames') \in 1..Len(frames')
          /\ b + 1 = Len(frames) /\ b + 1 = Len(frames')
        BY <1>5, <1>10, <2>1
    <2>5. Resting(W, frames', checkpoints', path')
        <3>1. frames'[Len(frames')].node = frames[b + 1].node
            BY <1>1, <1>5, <2>4 DEF SameFrames
        <3>2. Len(checkpoints') = Len(frames') - 1
            BY <1>5, <2>1, <2>2
        <3> QED
            BY <1>5, <1>10, <2>2, <3>1, <3>2 DEF Resting
    <2>6. i \in 2..Len(W) /\ W[i].parent = frames[Len(frames)].node
              /\ W[i].rank = frames[Len(frames)].children
        <3>1. i \in Nat
            OBVIOUS
        <3> QED
            BY <1>4, <1>10, <3>1, NextChildIs
    <2>7. /\ frames'[Len(frames')].node = W[i].parent
          /\ frames'[Len(frames')].children = W[i].rank + 1
        BY <1>1, <1>5, <2>4, <2>6 DEF SameFrames
    <2>8. Ahead(T, W, frames', i, W[i].end)
        <3>1. Ahead(T, W, frames', W[i].last, W[i].end)
            BY <1>1, <1>5, <1>10, <2>6, <2>7, AheadAfter
        <3> QED
            BY <3>1
    <2>9. Placed(T, W, Len(nodes) + 1)'
        <3>1. Ahead(T, W, frames', Len(nodes') + 1 - 1, cursor')
                  \/ (Truncated' /\ cursor' = WindowEnd')
            BY <1>3, <1>8, <2>8
        <3> QED
            BY <1>5, <1>10, <2>5, <3>1 DEF Placed, Numeric
    <2>10. Inside(W, frames', cursor')
        <3>1. i \in Nat
            OBVIOUS
        <3>2. /\ W[i].end \in Nat /\ W[frames[Len(frames)].node].end \in Nat
              /\ W[i].end < W[frames[Len(frames)].node].end
            BY <1>4, <1>10, <3>1, NextChildIs
        <3>3. PICK d \in Nat, e \in Nat : d = W[i].end /\ e = W[frames[Len(frames)].node].end
            BY <3>2
        <3>4. cursor' < e
            <4>1. PICK c \in Nat : c = cursor'
                OBVIOUS
            <4>2. c <= d
                BY <3>3, <4>1
            <4>3. d < e
                BY <3>2, <3>3
            <4> QED
                BY <4>1, <4>2, <4>3
        <3>5. frames'[Len(frames')].node = frames[Len(frames)].node
            BY <2>6, <2>7
        <3> QED
            BY <3>3, <3>4, <3>5 DEF Inside
    <2> QED
        BY <1>1, <1>2, <1>6, <1>7, <2>2, <2>3, <2>9, <2>10, Packed
<1> QED
    BY <1>9, <1>10

LEMMA ClosesThus ==
    ASSUME NEW W, NEW ns \in Seq(NodeSet(W)), NEW k \in 1..Len(ns), NEW e \in Nat,
           NEW ms, ms = [ns EXCEPT ![k].end = e, ![k].complete = TRUE]
    PROVE  ms \in Seq(NodeSet(W)) /\ Closed(ns, ms, k, e)
<1> DEFINE n == [ns[k] EXCEPT !.end = e, !.complete = TRUE]
<1>0. n \in NodeSet(W)
    <2>1. ns[k] \in NodeSet(W)
        OBVIOUS
    <2> QED
        BY <2>1 DEF NodeSet
<1>1. /\ ms \in Seq(NodeSet(W)) /\ Len(ms) = Len(ns)
      /\ \A i \in 1..Len(ns) : ms[i] = IF i = k THEN n ELSE ns[i]
    <2>1. ms = [ns EXCEPT ![k] = n]
        OBVIOUS
    <2> HIDE DEF n
    <2>2. /\ [ns EXCEPT ![k] = n] \in Seq(NodeSet(W)) /\ Len([ns EXCEPT ![k] = n]) = Len(ns)
          /\ \A i \in 1..Len(ns) : [ns EXCEPT ![k] = n][i] = IF i = k THEN n ELSE ns[i]
        BY <1>0, ExceptSeq
    <2>3. ms \in Seq(NodeSet(W)) /\ Len(ms) = Len(ns)
        BY <2>1, <2>2
    <2>4. \A i \in 1..Len(ns) : ms[i] = IF i = k THEN n ELSE ns[i]
        BY <2>1, <2>2
    <2> QED
        BY <2>3, <2>4
<1>2. ns[k] \in NodeSet(W)
    OBVIOUS
<1>3. /\ ms[k] = [ns[k] EXCEPT !.end = e, !.complete = TRUE]
      /\ \A i \in 1..Len(ns) : i # k => ms[i] = ns[i]
    BY <1>1
<1>4. /\ ms[k].start = ns[k].start /\ ms[k].kind = ns[k].kind /\ ms[k].depth = ns[k].depth
      /\ ms[k].parent = ns[k].parent /\ ms[k].occurrence = ns[k].occurrence
      /\ ms[k].name = ns[k].name /\ ms[k].path = ns[k].path
      /\ ms[k].end = e /\ ms[k].duplicate = ns[k].duplicate /\ ms[k].complete
    BY <1>2, <1>3, ClosedNode
<1> QED
    BY <1>1, <1>3, <1>4 DEF Closed, Moved

LEMMA ClosedIsExact ==
    ASSUME NEW W, Family(W), NEW ns, Len(ns) \in Nat, Indexes(W, ns), NEW ms, NEW cut,
           AllExact(W, ns, cut), NEW k \in 1..Len(ns), Closed(ns, ms, k, W[k].end)
    PROVE  AllExact(W, ms, cut)
<1>1. ASSUME NEW i \in 1..Len(ns)
      PROVE  Exact(W, ms[i], i, cut)
    <2>1. CASE i = k
        <3>1. ms[k].start = W[k].start
            BY DEF Closed, Moved, Indexes, Alike
        <3>2. k \in 1..Len(W)
            BY DEF Indexes, Family
        <3>3. W[k].start < W[k].end
            BY <3>2 DEF Family, ValueType
        <3>4. ms[k].end = W[k].end
            BY DEF Closed, Moved
        <3> QED
            BY <2>1, <3>1, <3>3, <3>4 DEF Exact
    <2>2. CASE i # k
        BY <2>2 DEF AllExact, Closed, Moved
    <2> QED
        BY <2>1, <2>2
<1> QED
    BY <1>1 DEF AllExact, Closed, Moved

LEMMA ClosedStack ==
    ASSUME NEW W, NEW fs \in Seq(FrameSet), NEW ns, NEW ms, Stack(W, fs, ns),
           NEW k, NEW e, Closed(ns, ms, k, e), W[k].kind = "string"
    PROVE  Stack(W, fs, ms)
<1>1. \A f \in 1..Len(fs) : /\ fs[f].node \in 1..Len(ns) /\ ~ns[fs[f].node].complete
                            /\ fs[f].kind = W[fs[f].node].kind
    BY DEF Stack
<1>2. \A f \in 1..Len(fs) : fs[f].kind \in Containers
    BY FramesAre
<1>3. \A f \in 1..Len(fs) : fs[f].node # k
    BY <1>1, <1>2 DEF Containers
<1>4. \A f \in 1..Len(fs) : ~ms[fs[f].node].complete
    BY <1>1, <1>3 DEF Closed, Moved
<1> QED
    BY <1>4, StackRevised DEF Closed, Moved

LEMMA CloseStringKeeps ==
    ASSUME ScanInv, CloseString
    PROVE  ScanInv'
<1> PICK T, W : T = Source(request) /\ W = request.values
    OBVIOUS
<1>1. mode # "done" /\ mode = "text" /\ text # 0 /\ Peek = Quote /\ mode \in Busy
    BY DEF CloseString, Busy
<1>2. /\ request \in Requests /\ limits \in Limits /\ mode \in Modes /\ stop = Unread
      /\ cursor \in Nat /\ name \in [start : Nat, end : Nat] /\ text \in Nat
      /\ value \in ValueSet(W) /\ nodes \in Seq(NodeSet(W)) /\ frames \in Seq(FrameSet)
      /\ checkpoints \in Seq(PathSet(W))
      /\ cursor <= Trusted(request) /\ cursor <= WindowEnd
      /\ WindowEnd \in Nat /\ Trusted(request) \in Nat
      /\ Len(nodes) \in Nat /\ Len(nodes) <= Len(W)
    BY <1>1, Unpacked
<1>3. /\ Wrote(T, W) /\ Family(W)
      /\ Indexes(W, nodes) /\ AllExact(W, nodes, CutAt) /\ Stack(W, frames, nodes)
      /\ Recalled(W, frames, checkpoints) /\ Inside(W, frames, cursor)
    BY <1>1, Unpacked
<1>4. /\ OpenOnly(frames, nodes, text)
      /\ Doomed(W) \/ Placed(T, W, Len(nodes) + 1)
    <2>1. mode \in Busy
        BY <1>1 DEF Busy
    <2> QED
        BY <1>1, <2>1, Unpacked
<1> DEFINE k == Len(nodes)
<1>5. /\ request' = request /\ limits' = limits /\ cursor' = cursor + 1
      /\ value' = value /\ name' = name /\ text' = text /\ stop' = stop
      /\ nodes' = [nodes EXCEPT ![text].end = cursor + 1, ![text].complete = TRUE]
      /\ Rewind(value.base) /\ frames' = CountChild(frames) /\ mode' = AfterValue(frames)
    BY DEF CloseString, Completed
<1>6. /\ k + 1 > 1 /\ text = k /\ W[k].kind = "string" /\ ~nodes[k].complete
      /\ Knows(W, frames, checkpoints, path, value, k)
      /\ InString(T, W[k].start, W[k].end, cursor, mode)
    <2>1. Len(nodes) + 1 - 1 = k
        BY <1>2
    <2> QED
        BY <1>1, <1>4, <2>1 DEF Placed, Doomed
<1>7. Peek \notin {"end", "ctl", "bad"}
    BY <1>1 DEF Quote
<1>8. cursor < Trusted(request) /\ cursor < WindowEnd
    BY <1>1, <1>7, LetterInside
<1>9. PICK n \in Nat : n = k /\ n \in 1..Len(nodes) /\ n \in 1..Len(W)
    BY <1>2, <1>6
<1>10. W[n].last = n
    BY <1>3, <1>6, <1>9 DEF Family, Containers
<1>11. PICK s \in Nat, d \in Nat : s = W[n].start /\ d = W[n].end
    BY <1>3, <1>9, NotASpace
<1>12. cursor + 1 = d
    <2>1. Reading(T, s, d)
        BY <1>1, <1>6, <1>9, <1>11 DEF Reading
    <2> QED
        BY <1>1, <1>7, <2>1, LetterRead
<1>13. nodes' = [nodes EXCEPT ![n].end = d, ![n].complete = TRUE]
    BY <1>5, <1>6, <1>9, <1>12
<1>14. nodes' \in Seq(NodeSet(W)) /\ Closed(nodes, nodes', n, d)
    BY <1>2, <1>9, <1>13, ClosesThus
<1>15. Len(nodes') = n
    BY <1>9, <1>14 DEF Closed, Moved
<1>16. Indexes(W, nodes')
    <2>1. Moved(nodes, nodes', n, d) /\ d <= W[n].end
        BY <1>11, <1>14 DEF Closed
    <2> QED
        BY <1>2, <1>3, <1>9, <1>14, <2>1, MovedIndexes
<1>17. AllExact(W, nodes', CutAt)
    <2>1. Closed(nodes, nodes', n, W[n].end)
        BY <1>11, <1>14
    <2> QED
        BY <1>2, <1>3, <1>9, <2>1, ClosedIsExact
<1>18. Stack(W, frames, nodes')
    <2>1. W[n].kind = "string"
        BY <1>6, <1>9
    <2> QED
        BY <1>2, <1>3, <1>14, <2>1, ClosedStack
<1>19. OpenOnly(frames, nodes', 0)
    <2>1. OpenOnly(frames, nodes, n)
        BY <1>4, <1>6, <1>9
    <2>2. /\ Len(nodes') = Len(nodes) /\ \A i \in 1..Len(nodes) : i # n => nodes'[i] = nodes[i]
          /\ n \in 1..Len(nodes) => nodes'[n].complete
        BY <1>14 DEF Closed, Moved
    <2> QED
        BY <2>1, <2>2, OpenClosed
<1>20. Knows(W, frames, checkpoints, path, value, n)
    BY <1>6, <1>9
<1>21. /\ cursor' \in Nat /\ cursor' <= Trusted(request) /\ cursor' <= WindowEnd
       /\ cursor' = W[n].end /\ cursor' <= W[n].end
    <2>1. cursor' = cursor + 1 /\ cursor' = d /\ d = W[n].end
        BY <1>5, <1>11, <1>12
    <2>2. cursor < Trusted(request) /\ cursor < WindowEnd
        BY <1>8
    <2>3. cursor \in Nat /\ Trusted(request) \in Nat /\ WindowEnd \in Nat
        BY <1>2
    <2> QED
        BY <2>1, <2>2, <2>3
<1> QED
    BY <1>2, <1>3, <1>5, <1>9, <1>10, <1>14, <1>15, <1>16, <1>17, <1>18, <1>19, <1>20, <1>21,
       CompletedKeeps

-----------------------------------------------------------------------------
(***************************************************************************)
(* The steps at the first letter of a value.                               *)
(***************************************************************************)
LEMMA KindIs ==
    ASSUME NEW T, NEW W, Wrote(T, W), Family(W), NEW i \in 1..Len(W)
    PROVE  /\ T[W[i].start + 1] = "quote" => W[i].kind = "string"
           /\ T[W[i].start + 1] = "1" => W[i].kind = "number"
           /\ T[W[i].start + 1] = "tr" => W[i].kind = "literal"
           /\ T[W[i].start + 1] = "lbrace" => W[i].kind = "object"
           /\ T[W[i].start + 1] = "lbracket" => W[i].kind = "array"
<1>1. W[i].kind \in {"string", "number", "literal", "object", "array"}
    BY DEF Family, ValueType, Containers
<1>2. /\ W[i].kind = "string" => T[W[i].start + 1] = Quote
      /\ W[i].kind = "number" => T[W[i].start + 1] = "1"
      /\ W[i].kind = "literal" => T[W[i].start + 1] = "tr"
      /\ W[i].kind \in Containers => T[W[i].start + 1] = Opens[W[i].kind]
    BY FirstLetters DEF Wrote
<1>3. /\ W[i].kind = "object" => T[W[i].start + 1] = "lbrace"
      /\ W[i].kind = "array" => T[W[i].start + 1] = "lbracket"
    BY <1>2 DEF Opens, Containers
<1> QED
    BY <1>1, <1>2, <1>3 DEF Quote

LEMMA NodeIs ==
    ASSUME NEW W, Family(W), NEW v \in ValueSet(W), NEW i \in 1..Len(W),
           Knows(W, frames, checkpoints, path, v, i), NEW e \in Nat, NEW done, done \in BOOLEAN,
           NEW n, n = Node(v, W[i].kind, e, done)
    PROVE  /\ n \in NodeSet(W) /\ Alike(n, W[i]) /\ n.end = e /\ n.start = W[i].start
           /\ n.kind = W[i].kind /\ n.complete = done
<1>1. /\ v.start = W[i].start /\ v.depth = W[i].depth /\ v.parent = W[i].parent
      /\ v.occurrence = W[i].occurrence /\ v.name = W[i].name /\ path = W[i].path
    BY DEF Knows
<1>2. /\ v.start \in Nat /\ v.depth \in Nat /\ v.parent \in Nat /\ v.occurrence \in Nat
      /\ v.name \in {W[j].name : j \in 1..Len(W)}
    BY DEF ValueSet
<1>3. W[i].kind \in Kinds
    BY DEF Family, ValueType, Kinds
<1>4. path \in PathSet(W)
    BY <1>1 DEF PathSet
<1>5. n \in NodeSet(W)
    BY <1>2, <1>3, <1>4 DEF NodeSet, Node
<1>6. /\ n.start = v.start /\ n.end = e /\ n.kind = W[i].kind /\ n.depth = v.depth
      /\ n.parent = v.parent /\ n.occurrence = v.occurrence /\ n.name = v.name
      /\ n.path = path /\ n.complete = done
    BY DEF Node
<1> QED
    BY <1>1, <1>5, <1>6 DEF Alike

Pushed(ns, ms, n) ==
    /\ Len(ms) = Len(ns) + 1 /\ ms[Len(ns) + 1] = n
    /\ \A i \in 1..Len(ns) : ms[i] = ns[i]

LEMMA PushedIs ==
    ASSUME NEW S, NEW ns \in Seq(S), NEW n \in S, NEW ms, ms = Append(ns, n)
    PROVE  ms \in Seq(S) /\ Pushed(ns, ms, n)
    BY DEF Pushed

(* The scan is at the first letter of the value it is about to read.          *)
LEMMA AtValue ==
    ASSUME ScanInv, mode = "value", Peek \notin {"end", "ctl", "bad"}
    PROVE  LET W == request.values
               i == Len(nodes) + 1
           IN  /\ cursor < Trusted(request) /\ cursor < WindowEnd
               /\ Peek = Source(request)[cursor + 1] /\ cursor = W[i].start
               /\ i \in 1..Len(W)
               /\ Knows(W, frames, checkpoints, path, value, i) /\ Due(W, frames, i)
               /\ W[i].occurrence # 0 => nodes[W[i].parent].duplicate
<1> PICK T, W : T = Source(request) /\ W = request.values
    OBVIOUS
<1>1. mode # "done" /\ mode = "value" /\ mode \notin Busy
    BY DEF Busy
<1>2. /\ request \in Requests /\ limits \in Limits /\ mode \in Modes /\ stop = Unread
      /\ cursor \in Nat /\ name \in [start : Nat, end : Nat] /\ text \in Nat
      /\ value \in ValueSet(W) /\ nodes \in Seq(NodeSet(W)) /\ frames \in Seq(FrameSet)
      /\ checkpoints \in Seq(PathSet(W))
      /\ cursor <= Trusted(request) /\ cursor <= WindowEnd
      /\ WindowEnd \in Nat /\ Trusted(request) \in Nat
      /\ Len(nodes) \in Nat /\ Len(nodes) <= Len(W)
    BY <1>1, Unpacked
<1>3. /\ Wrote(T, W) /\ Family(W)
      /\ Indexes(W, nodes) /\ AllExact(W, nodes, CutAt) /\ Stack(W, frames, nodes)
      /\ Recalled(W, frames, checkpoints) /\ Inside(W, frames, cursor)
    BY <1>1, Unpacked
<1>4. /\ OpenOnly(frames, nodes, 0)
      /\ Doomed(W) \/ Placed(T, W, Len(nodes) + 1)
    <2>1. mode \notin Busy
        BY <1>1 DEF Busy
    <2> QED
        BY <1>1, <2>1, Unpacked
<1>5. cursor < Trusted(request) /\ cursor < WindowEnd /\ Peek = T[cursor + 1] /\ ~Stuck
    BY <1>2, PeekIs
<1> DEFINE i == Len(nodes) + 1
<1>6. /\ cursor = W[i].start /\ Knows(W, frames, checkpoints, path, value, i)
      /\ W[i].occurrence # 0 => nodes[W[i].parent].duplicate
    BY <1>1, <1>4, <1>5 DEF Placed, Doomed
<1>7. Due(W, frames, i)
    BY <1>6 DEF Knows
<1>8. i \in 1..Len(W)
    BY <1>2, <1>3, <1>7 DEF Due, Wrote
<1> QED
    BY <1>5, <1>6, <1>7, <1>8

LEMMA PushStringKeeps ==
    ASSUME ScanInv, PushString
    PROVE  ScanInv'
<1> PICK T, W : T = Source(request) /\ W = request.values
    OBVIOUS
<1>1. mode # "done" /\ mode = "value" /\ Peek = "quote"
    BY DEF PushString, Quote
<1>2. /\ request \in Requests /\ limits \in Limits /\ mode \in Modes /\ stop = Unread
      /\ cursor \in Nat /\ name \in [start : Nat, end : Nat] /\ text \in Nat
      /\ value \in ValueSet(W) /\ nodes \in Seq(NodeSet(W)) /\ frames \in Seq(FrameSet)
      /\ checkpoints \in Seq(PathSet(W))
      /\ cursor <= Trusted(request) /\ cursor <= WindowEnd
      /\ WindowEnd \in Nat /\ Trusted(request) \in Nat
      /\ Len(nodes) \in Nat /\ Len(nodes) <= Len(W)
    BY <1>1, Unpacked
<1>3. /\ Wrote(T, W) /\ Family(W)
      /\ Indexes(W, nodes) /\ AllExact(W, nodes, CutAt) /\ Stack(W, frames, nodes)
      /\ Recalled(W, frames, checkpoints) /\ Inside(W, frames, cursor)
    BY <1>1, Unpacked
<1>4. /\ OpenOnly(frames, nodes, 0)
      /\ Doomed(W) \/ Placed(T, W, Len(nodes) + 1)
    <2>1. mode \notin Busy
        BY <1>1 DEF Busy
    <2> QED
        BY <1>1, <2>1, Unpacked
<1> DEFINE i == Len(nodes) + 1
<1>5. /\ request' = request /\ limits' = limits /\ cursor' = cursor /\ mode' = "quote"
      /\ value' = value /\ name' = name /\ text' = i /\ stop' = stop
      /\ nodes' = Append(nodes, Node(value, "string", value.start, FALSE))
      /\ frames' = frames /\ path' = path /\ checkpoints' = checkpoints
    BY DEF PushString
<1>6. /\ cursor < Trusted(request) /\ cursor < WindowEnd
      /\ Peek = T[cursor + 1] /\ cursor = W[i].start
      /\ i \in 1..Len(W)
      /\ Knows(W, frames, checkpoints, path, value, i) /\ Due(W, frames, i)
      /\ W[i].occurrence # 0 => nodes[W[i].parent].duplicate
    BY <1>1, AtValue
<1>7. W[i].kind = "string"
    BY <1>1, <1>3, <1>6, KindIs
<1>8. PICK n : n = Node(value, W[i].kind, value.start, FALSE)
    OBVIOUS
<1>9. PICK k \in Nat : k = i /\ k \in 1..Len(W)
    BY <1>2, <1>6
<1>10. PICK s \in Nat, e \in Nat : s = W[k].start /\ e = W[k].end /\ s < e
    BY <1>3, <1>9, NotASpace
<1>11. /\ n \in NodeSet(W) /\ Alike(n, W[k]) /\ n.end = s /\ n.complete = FALSE
    <2>1. Knows(W, frames, checkpoints, path, value, k) /\ value.start = s
        BY <1>6, <1>9, <1>10 DEF Knows
    <2>2. n = Node(value, W[k].kind, s, FALSE)
        BY <1>8, <1>9, <2>1
    <2>3. PICK done : done = FALSE
        OBVIOUS
    <2>4. n = Node(value, W[k].kind, s, done) /\ done \in BOOLEAN
        BY <2>2, <2>3
    <2>5. n \in NodeSet(W) /\ Alike(n, W[k]) /\ n.end = s /\ n.complete = done
        BY <1>2, <1>3, <1>9, <2>1, <2>4, NodeIs
    <2> QED
        BY <2>3, <2>5
<1>12. nodes' \in Seq(NodeSet(W)) /\ Pushed(nodes, nodes', n)
    <2>1. nodes' = Append(nodes, n)
        BY <1>5, <1>7, <1>8
    <2> QED
        BY <1>2, <1>11, <2>1, PushedIs
<1>13. Indexes(W, nodes')
    <2>1. nodes' = Append(nodes, n)
        BY <1>5, <1>7, <1>8
    <2>2. Len(nodes) < Len(W) /\ n.end <= W[Len(nodes) + 1].end /\ Alike(n, W[Len(nodes) + 1])
        <3>1. k = Len(nodes) + 1 /\ k <= Len(W)
            BY <1>2, <1>9
        <3>2. n.end <= W[k].end /\ Alike(n, W[k])
            BY <1>10, <1>11
        <3> QED
            BY <1>2, <3>1, <3>2
    <2> QED
        BY <1>2, <1>3, <1>6, <1>11, <2>1, <2>2, IndexesAppend
<1>14. AllExact(W, nodes', CutAt)
    <2>1. Exact(W, n, k, CutAt)
        BY <1>11 DEF Exact
    <2>2. \A j \in 1..Len(nodes) : Exact(W, nodes[j], j, CutAt)
        BY <1>3 DEF AllExact
    <2> SUFFICES ASSUME NEW j \in 1..Len(nodes') PROVE Exact(W, nodes'[j], j, CutAt)
        BY DEF AllExact
    <2>3. Len(nodes') = k /\ nodes'[k] = n /\ \A m \in 1..Len(nodes) : nodes'[m] = nodes[m]
        BY <1>9, <1>12 DEF Pushed
    <2>4. CASE j = k
        BY <2>1, <2>3, <2>4
    <2>5. CASE j # k
        <3>1. j \in 1..Len(nodes)
            BY <1>2, <1>9, <2>3, <2>5
        <3> QED
            BY <2>2, <2>3, <3>1
    <2> QED
        BY <2>4, <2>5
<1>15. Stack(W, frames, nodes') /\ OpenOnly(frames, nodes', i)
    <2>1. Len(nodes') = Len(nodes) + 1 /\ \A j \in 1..Len(nodes) : nodes'[j] = nodes[j]
        BY <1>12 DEF Pushed
    <2>2. Stack(W, frames, nodes')
        BY <1>2, <1>3, <1>6, <2>1, StackAppended
    <2>3. OpenOnly(frames, nodes', i)
        BY <1>2, <1>4, <2>1, OpenAppended
    <2> QED
        BY <2>2, <2>3
<1>16. Placed(T, W, Len(nodes) + 1)'
    <2>1. Len(nodes') + 1 > 1 /\ Len(nodes') + 1 - 1 = i /\ i # 0
        BY <1>2, <1>12 DEF Pushed
    <2>2. ~nodes'[i].complete
        BY <1>11, <1>12 DEF Pushed
    <2>3. cursor' = W[i].start /\ cursor' < Trusted(request') /\ cursor' < WindowEnd'
        BY <1>5, <1>6, Unmoved
    <2>4. Knows(W, frames', checkpoints', path', value', i)
        BY <1>5, <1>6
    <2>5. mode' = "quote" /\ text' = i /\ W[i].kind = "string"
        BY <1>5, <1>7
    <2> HIDE DEF i
    <2>6. Len(nodes)' = Len(nodes')
        OBVIOUS
    <2> QED
        BY <2>1, <2>2, <2>3, <2>4, <2>5 DEF Placed, Numeric
<1>17. mode' \in Modes /\ mode' \in Busy /\ text' \in Nat
    BY <1>2, <1>5 DEF Modes, Busy
<1>18. OpenOnly(frames', nodes', IF mode' \in Busy THEN text' ELSE 0)
    BY <1>5, <1>15, <1>17
<1> QED
    BY <1>2, <1>3, <1>5, <1>12, <1>13, <1>14, <1>15, <1>16, <1>17, <1>18, Packed

LEMMA KindChosen ==
    ASSUME NEW W, NEW v \in ValueSet(W), NEW kind \in Kinds, NEW u, u = [v EXCEPT !.kind = kind]
    PROVE  /\ u \in ValueSet(W) /\ u.kind = kind
           /\ \A i : Knows(W, frames, checkpoints, path, v, i)
                     => Knows(W, frames, checkpoints, path, u, i)
<1>1. /\ u \in ValueSet(W) /\ u.kind = kind
      /\ u.start = v.start /\ u.depth = v.depth /\ u.parent = v.parent
      /\ u.occurrence = v.occurrence /\ u.name = v.name /\ u.base = v.base
    BY DEF ValueSet
<1> QED
    BY <1>1 DEF Knows

LEMMA StaysInside ==
    ASSUME NEW T, NEW W, Wrote(T, W), Family(W), NEW fs \in Seq(FrameSet), NEW i \in Nat,
           Due(W, fs, i), NEW at \in Nat, NEW e \in Nat, e = W[i].end, at <= e
    PROVE  Inside(W, fs, at)
<1> SUFFICES ASSUME fs # << >> PROVE at < W[fs[Len(fs)].node].end
    BY DEF Inside
<1>1. W[i].end \in Nat /\ W[fs[Len(fs)].node].end \in Nat
      /\ W[i].end < W[fs[Len(fs)].node].end
    BY NextChildIs
<1>2. PICK p \in Nat : p = W[fs[Len(fs)].node].end
    BY <1>1
<1>3. e < p
    BY <1>1, <1>2
<1>4. at < p
    BY <1>3
<1> QED
    BY <1>2, <1>4

LEMMA OpenContainerKeeps ==
    ASSUME ScanInv, OpenContainer
    PROVE  ScanInv'
<1> PICK T, W : T = Source(request) /\ W = request.values
    OBVIOUS
<1>1. mode # "done" /\ mode = "value" /\ mode \notin Busy
    BY DEF OpenContainer, Busy
<1>2. /\ request \in Requests /\ limits \in Limits /\ mode \in Modes /\ stop = Unread
      /\ cursor \in Nat /\ name \in [start : Nat, end : Nat] /\ text \in Nat
      /\ value \in ValueSet(W) /\ nodes \in Seq(NodeSet(W)) /\ frames \in Seq(FrameSet)
      /\ checkpoints \in Seq(PathSet(W))
      /\ cursor <= Trusted(request) /\ cursor <= WindowEnd
      /\ WindowEnd \in Nat /\ Trusted(request) \in Nat
      /\ Len(nodes) \in Nat /\ Len(nodes) <= Len(W)
    BY <1>1, Unpacked
<1>3. /\ Wrote(T, W) /\ Family(W)
      /\ Indexes(W, nodes) /\ AllExact(W, nodes, CutAt) /\ Stack(W, frames, nodes)
      /\ Recalled(W, frames, checkpoints) /\ Inside(W, frames, cursor)
    BY <1>1, Unpacked
<1>4. /\ OpenOnly(frames, nodes, 0)
      /\ Doomed(W) \/ Placed(T, W, Len(nodes) + 1)
    <2>1. mode \notin Busy
        BY <1>1 DEF Busy
    <2> QED
        BY <1>1, <2>1, Unpacked
<1> DEFINE i == Len(nodes) + 1
<1>5. PICK kind \in Containers : Peek = Opens[kind] /\ value' = [value EXCEPT !.kind = kind]
    BY DEF OpenContainer
<1>6. /\ request' = request /\ limits' = limits /\ cursor' = cursor + 1 /\ mode' = "open"
      /\ name' = name /\ text' = text /\ stop' = stop
      /\ nodes' = nodes /\ frames' = frames /\ path' = path /\ checkpoints' = checkpoints
    BY DEF OpenContainer
<1>7. /\ Peek \in {"lbrace", "lbracket"}
      /\ kind = "object" => Peek = "lbrace"
      /\ kind = "array" => Peek = "lbracket"
    BY <1>5 DEF Opens, Containers
<1>8. /\ cursor < Trusted(request) /\ cursor < WindowEnd
      /\ Peek = T[cursor + 1] /\ cursor = W[i].start
      /\ i \in 1..Len(W)
      /\ Knows(W, frames, checkpoints, path, value, i) /\ Due(W, frames, i)
      /\ W[i].occurrence # 0 => nodes[W[i].parent].duplicate
    BY <1>1, <1>7, AtValue
<1>9. W[i].kind = kind
    BY <1>3, <1>5, <1>7, <1>8, KindIs DEF Containers
<1>10. PICK k \in Nat : k = i /\ k \in 1..Len(W)
    BY <1>2, <1>8
<1>11. PICK s \in Nat, e \in Nat : s = W[k].start /\ e = W[k].end /\ s < e
    BY <1>3, <1>10, NotASpace
<1>12. /\ value' \in ValueSet(W) /\ value'.kind = kind
       /\ Knows(W, frames, checkpoints, path, value', i)
    <2>1. kind \in Kinds
        BY DEF Kinds
    <2> QED
        BY <1>2, <1>5, <1>8, <2>1, KindChosen
<1>13. Inside(W, frames', cursor')
    <2>1. cursor + 1 \in Nat /\ cursor + 1 <= e
        <3>1. cursor = s
            BY <1>8, <1>10, <1>11
        <3> QED
            BY <1>11, <3>1
    <2>2. Inside(W, frames, cursor + 1)
        BY <1>2, <1>3, <1>8, <1>10, <1>11, <2>1, StaysInside
    <2> QED
        BY <1>6, <2>2
<1>14. Placed(T, W, Len(nodes) + 1)'
    <2>1. /\ value'.kind = W[i].kind /\ value'.kind \in Containers
          /\ cursor' = W[i].start + 1
        BY <1>6, <1>8, <1>9, <1>12
    <2> QED
        BY <1>6, <1>8, <1>12, <2>1 DEF Placed, Numeric
<1>15. mode' \in Modes /\ mode' \notin Busy
    BY <1>6 DEF Modes, Busy
<1>16. cursor' \in Nat /\ cursor' <= Trusted(request) /\ cursor' <= WindowEnd
    <2>1. cursor < Trusted(request) /\ cursor < WindowEnd /\ cursor' = cursor + 1
        BY <1>6, <1>8
    <2>2. cursor \in Nat /\ Trusted(request) \in Nat /\ WindowEnd \in Nat
        BY <1>2
    <2> QED
        BY <2>1, <2>2
<1> QED
    BY <1>2, <1>3, <1>4, <1>6, <1>12, <1>13, <1>14, <1>15, <1>16, Packed

(* A container holds more than its opening letter.                            *)
LEMMA OpenedAhead ==
    ASSUME NEW T, NEW W, Wrote(T, W), Family(W), NEW i \in 1..Len(W), W[i].kind \in Containers,
           NEW gs \in Seq(FrameSet), gs # << >>,
           gs[Len(gs)].node = i, gs[Len(gs)].children = 0
    PROVE  /\ Ahead(T, W, gs, i, W[i].start + 1)
           /\ W[i].start + 1 < W[i].end
<1>1. ValueType(W[i], Len(W)) /\ Shape(T, W, i)
    BY DEF Wrote, SentAs
<1>2. PICK s \in Nat, e \in Nat : s = W[i].start /\ e = W[i].end /\ s < e
    BY NotASpace
<1>3. T[s + 1] = Opens[W[i].kind] /\ T[e] = Closes[W[i].kind]
    BY <1>2, FirstLetters DEF Wrote
<1>4. T[s + 1] # T[e]
    BY <1>3 DEF Opens, Closes, Containers
<1>5. s + 1 < e
    BY <1>2, <1>4
<1>6. \/ W[i].last = i /\ Blank(T, s + 1, e - 1)
      \/ /\ i < W[i].last /\ W[i + 1].parent = i /\ W[i + 1].rank = 0
         /\ Blank(T, s + 1, W[i + 1].label.start)
    BY <1>1, <1>2 DEF Shape
<1>7. Ahead(T, W, gs, i, s + 1)
    BY <1>2, <1>6 DEF Ahead
<1> QED
    BY <1>2, <1>5, <1>7

LEMMA RecalledAppended ==
    ASSUME NEW W, NEW fs \in Seq(FrameSet), NEW frame \in FrameSet, NEW points,
           Recalled(W, fs, points), NEW gs, gs = Append(fs, frame)
    PROVE  Recalled(W, gs, points)
<1>1. Len(gs) = Len(fs) + 1 /\ Len(fs) \in Nat /\ \A f \in 1..Len(fs) : gs[f] = fs[f]
    OBVIOUS
<1> SUFFICES ASSUME NEW f \in 1..Len(points)
             PROVE  f <= Len(gs) /\ points[f] = W[gs[f].node].path
    BY DEF Recalled
<1>2. f <= Len(fs) /\ points[f] = W[fs[f].node].path
    BY DEF Recalled
<1>3. f \in 1..Len(fs)
    BY <1>1, <1>2
<1> QED
    BY <1>1, <1>2, <1>3

LEMMA PushContainerKeeps ==
    ASSUME ScanInv, PushContainer
    PROVE  ScanInv'
<1> PICK T, W : T = Source(request) /\ W = request.values
    OBVIOUS
<1>1. mode # "done" /\ mode = "open" /\ mode \notin Busy
    BY DEF PushContainer, Busy
<1>2. /\ request \in Requests /\ limits \in Limits /\ mode \in Modes /\ stop = Unread
      /\ cursor \in Nat /\ name \in [start : Nat, end : Nat] /\ text \in Nat
      /\ value \in ValueSet(W) /\ nodes \in Seq(NodeSet(W)) /\ frames \in Seq(FrameSet)
      /\ checkpoints \in Seq(PathSet(W))
      /\ cursor <= Trusted(request) /\ cursor <= WindowEnd
      /\ WindowEnd \in Nat /\ Trusted(request) \in Nat
      /\ Len(nodes) \in Nat /\ Len(nodes) <= Len(W)
    BY <1>1, Unpacked
<1>3. /\ Wrote(T, W) /\ Family(W)
      /\ Indexes(W, nodes) /\ AllExact(W, nodes, CutAt) /\ Stack(W, frames, nodes)
      /\ Recalled(W, frames, checkpoints) /\ Inside(W, frames, cursor)
    BY <1>1, Unpacked
<1>4. /\ OpenOnly(frames, nodes, 0)
      /\ Doomed(W) \/ Placed(T, W, Len(nodes) + 1)
    <2>1. mode \notin Busy
        BY <1>1 DEF Busy
    <2> QED
        BY <1>1, <2>1, Unpacked
<1> DEFINE i == Len(nodes) + 1
           frame == [node |-> i, kind |-> value.kind, children |-> 0,
                     depth |-> value.depth, base |-> value.base]
<1>5. /\ request' = request /\ limits' = limits /\ cursor' = cursor /\ mode' = "frame"
      /\ value' = value /\ name' = name /\ text' = text /\ stop' = stop
      /\ nodes' = Append(nodes, Node(value, value.kind, value.start, FALSE))
      /\ frames' = Append(CountChild(frames), frame)
      /\ path' = path /\ checkpoints' = checkpoints
    BY DEF PushContainer
<1>6. /\ Knows(W, frames, checkpoints, path, value, i) /\ cursor = W[i].start + 1
      /\ value.kind = W[i].kind /\ value.kind \in Containers
      /\ W[i].occurrence # 0 => nodes[W[i].parent].duplicate
    BY <1>1, <1>4 DEF Placed, Doomed
<1>7. /\ Due(W, frames, i) /\ value.depth = W[i].depth /\ value.start = W[i].start
      /\ Len(checkpoints) = Len(frames) /\ path = W[i].path
      /\ value.base = IF frames = << >> THEN 0 ELSE Len(frames) - 1
    BY <1>6 DEF Knows
<1>8. PICK k \in Nat : k = i /\ k \in 1..Len(W) /\ k = Len(nodes) + 1
    BY <1>2, <1>3, <1>7 DEF Due, Wrote
<1>9. PICK s \in Nat, e \in Nat : s = W[k].start /\ e = W[k].end /\ s < e
    BY <1>3, <1>8, NotASpace
<1>10. PICK n : n = Node(value, W[k].kind, s, FALSE)
    OBVIOUS
<1>11. /\ n \in NodeSet(W) /\ Alike(n, W[k]) /\ n.end = s /\ n.complete = FALSE
    <2>1. Knows(W, frames, checkpoints, path, value, k)
        BY <1>6, <1>8
    <2>3. PICK done : done = FALSE
        OBVIOUS
    <2>4. n = Node(value, W[k].kind, s, done) /\ done \in BOOLEAN
        BY <1>10, <2>3
    <2>5. n \in NodeSet(W) /\ Alike(n, W[k]) /\ n.end = s /\ n.complete = done
        BY <1>2, <1>3, <1>8, <2>1, <2>4, NodeIs
    <2> QED
        BY <2>3, <2>5
<1>12. nodes' = Append(nodes, n)
    BY <1>5, <1>6, <1>7, <1>8, <1>9, <1>10
<1>13. nodes' \in Seq(NodeSet(W)) /\ Pushed(nodes, nodes', n)
    BY <1>2, <1>11, <1>12, PushedIs
<1>14. Indexes(W, nodes')
    <2>2. Len(nodes) < Len(W) /\ n.end <= W[Len(nodes) + 1].end /\ Alike(n, W[Len(nodes) + 1])
        <3>1. k = Len(nodes) + 1 /\ k <= Len(W)
            BY <1>2, <1>8
        <3>2. n.end <= W[k].end /\ Alike(n, W[k])
            BY <1>9, <1>11
        <3> QED
            BY <1>2, <3>1, <3>2
    <2> QED
        BY <1>2, <1>3, <1>6, <1>11, <1>12, <2>2, IndexesAppend
<1>15. AllExact(W, nodes', CutAt)
    <2>1. Exact(W, n, k, CutAt)
        BY <1>11 DEF Exact
    <2>2. \A j \in 1..Len(nodes) : Exact(W, nodes[j], j, CutAt)
        BY <1>3 DEF AllExact
    <2> SUFFICES ASSUME NEW j \in 1..Len(nodes') PROVE Exact(W, nodes'[j], j, CutAt)
        BY DEF AllExact
    <2>3. Len(nodes') = k /\ nodes'[k] = n /\ \A m \in 1..Len(nodes) : nodes'[m] = nodes[m]
        BY <1>8, <1>13 DEF Pushed
    <2>4. CASE j = k
        BY <2>1, <2>3, <2>4
    <2>5. CASE j # k
        <3>1. j \in 1..Len(nodes)
            BY <1>2, <1>8, <2>3, <2>5
        <3> QED
            BY <2>2, <2>3, <3>1
    <2> QED
        BY <2>4, <2>5
<1>16. PICK fr : fr = frame
    OBVIOUS
<1>17. /\ fr \in FrameSet /\ fr.node = k /\ fr.kind = W[k].kind /\ fr.depth = W[k].depth
       /\ fr.base = IF frames = << >> THEN 0 ELSE Len(frames) - 1
       /\ fr.children = 0 /\ frames' = Append(CountChild(frames), fr)
    <2>1. value.depth \in Nat /\ value.base \in Nat
        BY <1>2 DEF ValueSet
    <2> QED
        BY <1>5, <1>6, <1>7, <1>8, <1>16, <2>1 DEF FrameSet
<1>18. PICK gs : gs = CountChild(frames)
    OBVIOUS
<1>19. gs \in Seq(FrameSet) /\ SameFrames(frames, gs) /\ Len(gs) = Len(frames)
    BY <1>2, <1>18, Counted DEF SameFrames
<1>20. /\ frames' \in Seq(FrameSet) /\ frames' # << >> /\ Len(frames') = Len(frames) + 1
       /\ frames'[Len(frames')] = fr
    BY <1>17, <1>18, <1>19
<1>21. Stack(W, frames', nodes')
    <2>1. /\ Len(nodes') = Len(nodes) + 1 /\ \A j \in 1..Len(nodes) : nodes'[j] = nodes[j]
          /\ nodes'[Len(nodes) + 1] = n
        BY <1>13 DEF Pushed
    <2>2. ~nodes'[Len(nodes) + 1].complete
        BY <1>11, <2>1
    <2>3. /\ fr.node = Len(nodes) + 1
          /\ fr.kind = W[Len(nodes) + 1].kind /\ fr.depth = W[Len(nodes) + 1].depth
        BY <1>8, <1>17
    <2>4. Stack(W, Append(CountChild(frames), fr), nodes')
        BY <1>2, <1>3, <1>7, <1>17, <2>1, <2>2, <2>3, StackPushed
    <2> QED
        BY <1>17, <2>4
<1>22. OpenOnly(frames', nodes', 0)
    <2>1. Len(nodes') = Len(nodes) + 1 /\ \A j \in 1..Len(nodes) : nodes'[j] = nodes[j]
        BY <1>13 DEF Pushed
    <2>2. OpenOnly(frames, nodes', Len(nodes) + 1)
        BY <1>2, <1>4, <2>1, OpenAppended
    <2>3. OpenOnly(gs, nodes', fr.node)
        BY <1>8, <1>17, <1>19, <2>2, OpenSame
    <2>4. OpenOnly(Append(gs, fr), nodes', 0)
        BY <1>17, <1>19, <2>3, OpenPushed
    <2> QED
        BY <1>17, <1>18, <2>4
<1>23. Recalled(W, frames', checkpoints')
    <2>1. Recalled(W, gs, checkpoints)
        BY <1>3, <1>19, RecalledSame
    <2>2. Recalled(W, frames', checkpoints)
        BY <1>17, <1>18, <1>19, <2>1, RecalledAppended
    <2> QED
        BY <1>5, <2>2
<1>24. /\ Ahead(T, W, frames', k, W[k].start + 1) /\ W[k].start + 1 < W[k].end
    <2>1. W[k].kind \in Containers
        BY <1>6, <1>8
    <2> QED
        BY <1>3, <1>8, <1>17, <1>20, <2>1, OpenedAhead
<1>25. Inside(W, frames', cursor')
    BY <1>5, <1>6, <1>8, <1>17, <1>20, <1>24 DEF Inside
<1>26. Placed(T, W, Len(nodes) + 1)'
    <2>1. Len(nodes') + 1 - 1 = k
        BY <1>8, <1>13 DEF Pushed
    <2>2. Ahead(T, W, frames', Len(nodes') + 1 - 1, cursor')
        BY <1>5, <1>6, <1>8, <1>24, <2>1
    <2>3. Resting(W, frames', checkpoints', path')
        <3>1. Len(checkpoints') = Len(frames') - 1
            <4>1. Len(frames) \in Nat
                BY <1>2
            <4> QED
                BY <1>5, <1>7, <1>20, <4>1
        <3>2. path' = W[frames'[Len(frames')].node].path
            BY <1>5, <1>7, <1>8, <1>17, <1>20
        <3> QED
            BY <1>20, <3>1, <3>2 DEF Resting
    <2> QED
        BY <1>5, <1>20, <2>2, <2>3 DEF Placed, Numeric
<1>27. mode' \in Modes /\ mode' \notin Busy
    BY <1>5 DEF Modes, Busy
<1>28. OpenOnly(frames', nodes', IF mode' \in Busy THEN text' ELSE 0)
    BY <1>22, <1>27
<1> QED
    BY <1>2, <1>3, <1>5, <1>13, <1>14, <1>15, <1>20, <1>21, <1>23, <1>25, <1>26, <1>27, <1>28,
       Packed

LEMMA LiteralKeeps ==
    ASSUME ScanInv, Literal
    PROVE  ScanInv'
<1> PICK T, W : T = Source(request) /\ W = request.values
    OBVIOUS
<1>1. mode # "done" /\ mode = "value" /\ mode \notin Busy /\ Peek = "tr"
    BY DEF Literal, Busy
<1>2. /\ request \in Requests /\ limits \in Limits /\ mode \in Modes /\ stop = Unread
      /\ cursor \in Nat /\ name \in [start : Nat, end : Nat] /\ text \in Nat
      /\ value \in ValueSet(W) /\ nodes \in Seq(NodeSet(W)) /\ frames \in Seq(FrameSet)
      /\ checkpoints \in Seq(PathSet(W))
      /\ cursor <= Trusted(request) /\ cursor <= WindowEnd
      /\ WindowEnd \in Nat /\ Trusted(request) \in Nat
      /\ Len(nodes) \in Nat /\ Len(nodes) <= Len(W)
    BY <1>1, Unpacked
<1>3. /\ Wrote(T, W) /\ Family(W)
      /\ Indexes(W, nodes) /\ AllExact(W, nodes, CutAt) /\ Stack(W, frames, nodes)
      /\ Recalled(W, frames, checkpoints) /\ Inside(W, frames, cursor)
    BY <1>1, Unpacked
<1>4. /\ OpenOnly(frames, nodes, 0)
      /\ Doomed(W) \/ Placed(T, W, Len(nodes) + 1)
    <2>1. mode \notin Busy
        BY <1>1 DEF Busy
    <2> QED
        BY <1>1, <2>1, Unpacked
<1> DEFINE i == Len(nodes) + 1
<1>5. /\ request' = request /\ limits' = limits /\ cursor' = cursor + 2 /\ mode' = "literal"
      /\ name' = name /\ text' = text /\ stop' = stop
      /\ value' = [value EXCEPT !.kind = "literal"]
      /\ nodes' = nodes /\ frames' = frames /\ path' = path /\ checkpoints' = checkpoints
      /\ cursor + 2 <= WindowEnd /\ request.letters[cursor + 2] = "ue"
    BY DEF Literal, Consume
<1>6. /\ cursor < Trusted(request) /\ cursor < WindowEnd
      /\ Peek = T[cursor + 1] /\ cursor = W[i].start
      /\ i \in 1..Len(W)
      /\ Knows(W, frames, checkpoints, path, value, i) /\ Due(W, frames, i)
      /\ W[i].occurrence # 0 => nodes[W[i].parent].duplicate
    BY <1>1, AtValue
<1>7. W[i].kind = "literal"
    BY <1>1, <1>3, <1>6, KindIs
<1>8. PICK k \in Nat : k = i /\ k \in 1..Len(W)
    BY <1>2, <1>6
<1>9. PICK e \in Nat : e = W[k].end
    BY <1>3, <1>8, NotASpace
<1>10. cursor + 2 = e /\ e <= Len(T)
    BY <1>3, <1>6, <1>7, <1>8, <1>9, FirstLetters DEF Wrote
<1>11. cursor + 2 <= Trusted(request)
    <2>1. PICK c \in Nat, t \in Nat : c = cursor /\ t = Trusted(request) /\ c < t
        BY <1>2, <1>6
    <2>2. /\ ~request.damaged => t = Len(T)
          /\ request.damaged => request.letters[t + 1] \in {"ctl", "bad"}
          /\ Len(T) \in Nat
        BY <1>2, <2>1, SourceFacts
    <2>3. CASE ~request.damaged
        BY <1>10, <2>1, <2>2, <2>3
    <2>4. CASE request.damaged
        <3>1. c + 1 # t
            <4>1. c + 1 = t => request.letters[c + 2] \in {"ctl", "bad"}
                <5>1. c + 1 + 1 = c + 2
                    OBVIOUS
                <5> QED
                    BY <2>2, <2>4, <5>1
            <4> QED
                BY <1>5, <2>1, <4>1
        <3> QED
            BY <2>1, <3>1
    <2> QED
        BY <2>3, <2>4
<1>12. /\ value' \in ValueSet(W) /\ value'.kind = "literal"
       /\ Knows(W, frames, checkpoints, path, value', i)
    <2>1. "literal" \in Kinds
        BY DEF Kinds
    <2>2. value \in ValueSet(W) /\ value' = [value EXCEPT !.kind = "literal"]
        BY <1>2, <1>5
    <2>3. Knows(W, frames, checkpoints, path, value, i)
        BY <1>6
    <2> QED
        BY <2>1, <2>2, <2>3, KindChosen
<1>13. Inside(W, frames', cursor')
    <2>1. Inside(W, frames, e)
        BY <1>2, <1>3, <1>6, <1>8, <1>9, StaysInside
    <2> QED
        BY <1>5, <1>10, <2>1
<1>14. Placed(T, W, Len(nodes) + 1)'
    <2>1. cursor' = W[i].end
        BY <1>5, <1>8, <1>9, <1>10
    <2> QED
        BY <1>5, <1>6, <1>7, <1>12, <2>1 DEF Placed, Numeric
<1>15. mode' \in Modes /\ mode' \notin Busy
    BY <1>5 DEF Modes, Busy
<1>16. cursor' \in Nat /\ cursor' <= Trusted(request) /\ cursor' <= WindowEnd
    BY <1>2, <1>5, <1>11
<1> QED
    BY <1>2, <1>3, <1>4, <1>5, <1>12, <1>13, <1>14, <1>15, <1>16, Packed

(***************************************************************************)
(* The steps within a number.                                              *)
(***************************************************************************)
LEMMA NumberOpens ==
    ASSUME NEW T, NEW s \in Nat, NEW e \in Nat, s < e, NumberAt(T, s, e)
    PROVE  InNumber(T, s, e, s + 1, "integer")
<1>1. PICK points \in SUBSET ((s + 2)..(e - 1)) :
        /\ \A p, q \in points : p = q
        /\ \A p \in (s + 1)..e : T[p] = IF p \in points THEN "." ELSE "1"
    BY DEF NumberAt
<1>2. \A p \in points : s + 1 < p
    BY <1>1
<1> QED
    BY <1>1, <1>2 DEF InNumber

LEMMA NumberStep ==
    ASSUME NEW T, NEW s \in Nat, NEW e \in Nat, NEW at \in Nat, NEW state \in Numeric,
           InNumber(T, s, e, at, state)
    PROVE  /\ s < at /\ at <= e
           /\ state = "point" => at < e
           /\ at < e => T[at + 1] \in {"1", "."}
           /\ at < e /\ state # "integer" => T[at + 1] = "1"
           /\ at < e /\ state = "integer" /\ T[at + 1] = "1" =>
                 InNumber(T, s, e, at + 1, "integer")
           /\ at < e /\ state = "integer" /\ T[at + 1] = "." =>
                 InNumber(T, s, e, at + 1, "point")
           /\ at < e /\ state # "integer" => InNumber(T, s, e, at + 1, "digits")
<1>1. PICK points \in SUBSET ((s + 2)..(e - 1)) :
        /\ \A p, q \in points : p = q
        /\ \A p \in (s + 1)..e : T[p] = IF p \in points THEN "." ELSE "1"
        /\ state = "integer" => \A p \in points : at < p
        /\ state = "point" => at \in points
        /\ state = "digits" => \E p \in points : p < at
    BY DEF InNumber
<1>2. s < at /\ at <= e
    BY DEF InNumber
<1>3. state = "point" => at < e
    BY <1>1
<1>4. ASSUME at < e
      PROVE  T[at + 1] = IF at + 1 \in points THEN "." ELSE "1"
    <2>1. at + 1 \in (s + 1)..e
        BY <1>2, <1>4
    <2> QED
        BY <1>1, <2>1
<1>5. ASSUME at < e, state # "integer"
      PROVE  at + 1 \notin points /\ \E p \in points : p < at + 1
    <2>1. \E p \in points : p < at + 1
        BY <1>1, <1>5 DEF Numeric
    <2>2. PICK p \in points : p < at + 1
        BY <2>1
    <2>3. p # at + 1
        BY <2>2
    <2> QED
        BY <1>1, <2>1, <2>3
<1>6. ASSUME at < e PROVE s < at + 1 /\ at + 1 <= e
    BY <1>2, <1>6
<1>7. ASSUME at < e, state = "integer", T[at + 1] = "1"
      PROVE  InNumber(T, s, e, at + 1, "integer")
    <2>1. at + 1 \notin points
        BY <1>4, <1>7
    <2>2. \A p \in points : at + 1 < p
        <3> SUFFICES ASSUME NEW p \in points PROVE at + 1 < p
            OBVIOUS
        <3>1. p \in Int /\ at < p /\ p # at + 1
            BY <1>1, <1>7, <2>1
        <3> QED
            BY <3>1
    <2> QED
        BY <1>1, <1>6, <1>7, <2>2 DEF InNumber
<1>8. ASSUME at < e, state = "integer", T[at + 1] = "."
      PROVE  InNumber(T, s, e, at + 1, "point")
    <2>1. at + 1 \in points
        BY <1>4, <1>8
    <2> QED
        BY <1>1, <1>6, <1>8, <2>1 DEF InNumber
<1>9. ASSUME at < e, state # "integer"
      PROVE  T[at + 1] = "1" /\ InNumber(T, s, e, at + 1, "digits")
    BY <1>1, <1>4, <1>5, <1>6, <1>9 DEF InNumber
<1> QED
    BY <1>2, <1>3, <1>4, <1>7, <1>8, <1>9

(* Where a number of the request is, and where it cannot be damaged.          *)
LEMMA NumberIs ==
    ASSUME NEW T, NEW W, Wrote(T, W), Family(W), NEW i \in 1..Len(W), W[i].kind = "number"
    PROVE  NumberAt(T, W[i].start, W[i].end)
    BY DEF Wrote, SentAs, Shape

LEMMA NumberKeeps ==
    ASSUME ScanInv, Number
    PROVE  ScanInv'
<1> PICK T, W : T = Source(request) /\ W = request.values
    OBVIOUS
<1>1. mode # "done" /\ mode \notin Busy /\ mode \in {"value"} \cup Numeric /\ Peek \in {"1", "."} /\ Peek \notin {"end", "ctl", "bad"}
    BY DEF Number, Numeric, Busy
<1>2. /\ request \in Requests /\ limits \in Limits /\ mode \in Modes /\ stop = Unread
      /\ cursor \in Nat /\ name \in [start : Nat, end : Nat] /\ text \in Nat
      /\ value \in ValueSet(W) /\ nodes \in Seq(NodeSet(W)) /\ frames \in Seq(FrameSet)
      /\ checkpoints \in Seq(PathSet(W))
      /\ cursor <= Trusted(request) /\ cursor <= WindowEnd
      /\ WindowEnd \in Nat /\ Trusted(request) \in Nat
      /\ Len(nodes) \in Nat /\ Len(nodes) <= Len(W)
    BY <1>1, Unpacked
<1>3. /\ Wrote(T, W) /\ Family(W)
      /\ Indexes(W, nodes) /\ AllExact(W, nodes, CutAt) /\ Stack(W, frames, nodes)
      /\ Recalled(W, frames, checkpoints) /\ Inside(W, frames, cursor)
    BY <1>1, Unpacked
<1>4. /\ OpenOnly(frames, nodes, 0)
      /\ Doomed(W) \/ Placed(T, W, Len(nodes) + 1)
    <2>1. mode \notin Busy
        BY <1>1 DEF Busy
    <2> QED
        BY <1>1, <2>1, Unpacked
<1> DEFINE i == Len(nodes) + 1
<1>5. /\ request' = request /\ limits' = limits /\ cursor' = cursor + 1
      /\ name' = name /\ text' = text /\ stop' = stop
      /\ value' = [value EXCEPT !.kind = "number"] /\ mode' \in Numeric
      /\ nodes' = nodes /\ frames' = frames /\ path' = path /\ checkpoints' = checkpoints
    BY DEF Number, Consume, Numeric
<1>6. /\ mode = "value" => Peek = "1" /\ mode' = "integer"
      /\ mode = "integer" /\ Peek = "1" => mode' = "integer"
      /\ mode = "integer" /\ Peek = "." => mode' = "point"
      /\ mode \in {"point", "digits"} => Peek = "1" /\ mode' = "digits"
    BY DEF Number, Consume
<1>7. cursor < Trusted(request) /\ cursor < WindowEnd /\ Peek = T[cursor + 1] /\ ~Stuck
    BY <1>1, <1>2, PeekIs
<1>8. /\ Knows(W, frames, checkpoints, path, value, i)
      /\ W[i].occurrence # 0 => nodes[W[i].parent].duplicate
      /\ mode = "value" => cursor = W[i].start
      /\ mode \in Numeric => /\ W[i].kind = "number"
                             /\ InNumber(T, W[i].start, W[i].end, cursor, mode)
    BY <1>1, <1>4, <1>7 DEF Placed, Doomed
<1>9. Due(W, frames, i)
    BY <1>8 DEF Knows
<1>10. PICK k \in Nat : k = i /\ k \in 1..Len(W)
    BY <1>2, <1>3, <1>9 DEF Due, Wrote
<1>11. PICK s \in Nat, e \in Nat, c \in Nat :
        s = W[k].start /\ e = W[k].end /\ s < e /\ c = cursor
    BY <1>2, <1>3, <1>10, NotASpace
<1>12. W[k].kind = "number"
    <2>1. CASE mode = "value"
        <3>1. T[W[k].start + 1] = "1"
            BY <1>6, <1>7, <1>8, <1>10, <2>1
        <3> QED
            BY <1>3, <1>10, <3>1, KindIs
    <2>2. CASE mode \in Numeric
        BY <1>8, <1>10, <2>2
    <2> QED
        BY <1>1, <2>1, <2>2
<1>13. /\ c + 1 <= e /\ InNumber(T, s, e, c + 1, mode')
    <2>1. CASE mode = "value"
        <3>1. NumberAt(T, s, e)
            BY <1>3, <1>10, <1>11, <1>12, NumberIs
        <3>2. InNumber(T, s, e, s + 1, "integer")
            BY <1>11, <3>1, NumberOpens
        <3> QED
            BY <1>6, <1>8, <1>10, <1>11, <2>1, <3>2
    <2>2. CASE mode \in Numeric
        <3>1. PICK m \in Numeric : m = mode
            BY <2>2
        <3>2. InNumber(T, s, e, c, m)
            BY <1>8, <1>10, <1>11, <2>2, <3>1
        <3>3. c < e
            <4>1. c <= e
                BY <3>2, NumberStep
            <4>2. c # e
                <5>1. c < Len(Source(request)) /\ Len(T) \in Nat
                    <6>1. Trusted(request) <= Len(Source(request)) /\ Len(Source(request)) \in Nat
                        BY <1>2, SourceFacts
                    <6> QED
                        BY <1>2, <1>7, <1>11, <6>1
                <5>2. c = e => T[c + 1] \in {"space", "comma", "rbrace", "rbracket"}
                    <6>1. ScalarEndsAt(T, W, k)
                        BY <1>3, <1>10, AfterAValue DEF Wrote
                    <6> QED
                        BY <1>11, <5>1, <6>1 DEF ScalarEndsAt
                <5> QED
                    BY <1>1, <1>7, <1>11, <5>2
            <4> QED
                BY <4>1, <4>2
        <3>4. c + 1 <= e
            BY <3>3
        <3>5. T[c + 1] = Peek
            BY <1>7, <1>11
        <3>6. CASE m = "integer" /\ Peek = "1"
            BY <1>6, <3>1, <3>2, <3>3, <3>4, <3>5, <3>6, NumberStep
        <3>7. CASE m = "integer" /\ Peek = "."
            BY <1>6, <3>1, <3>2, <3>3, <3>4, <3>5, <3>7, NumberStep
        <3>8. CASE m # "integer"
            <4>1. mode' = "digits"
                BY <1>6, <3>1, <3>8 DEF Numeric
            <4> QED
                BY <3>2, <3>3, <3>4, <3>8, <4>1, NumberStep
        <3> QED
            BY <1>1, <3>6, <3>7, <3>8
    <2> QED
        BY <1>1, <2>1, <2>2
<1>14. /\ value' \in ValueSet(W) /\ value'.kind = "number"
       /\ Knows(W, frames, checkpoints, path, value', i)
    <2>1. "number" \in Kinds
        BY DEF Kinds
    <2>2. PICK u : u = value'
        OBVIOUS
    <2>3. value \in ValueSet(W) /\ u = [value EXCEPT !.kind = "number"]
        BY <1>2, <1>5, <2>2
    <2>4. Knows(W, frames, checkpoints, path, value, i)
        BY <1>8
    <2>5. /\ u \in ValueSet(W) /\ u.kind = "number"
          /\ Knows(W, frames, checkpoints, path, u, i)
        BY ONLY <2>1, <2>3, <2>4, KindChosen
    <2> QED
        BY <2>2, <2>5
<1>15. Inside(W, frames', cursor')
    <2>1. c + 1 \in Nat
        OBVIOUS
    <2>2. Inside(W, frames, c + 1)
        BY <1>2, <1>3, <1>9, <1>10, <1>11, <1>13, <2>1, StaysInside
    <2> QED
        BY <1>5, <1>11, <2>2
<1>16. Placed(T, W, Len(nodes) + 1)'
    <2>1. InNumber(T, W[i].start, W[i].end, cursor', mode')
        BY <1>5, <1>10, <1>11, <1>13
    <2>2. W[i].kind = "number"
        BY <1>10, <1>12
    <2> QED
        BY <1>5, <1>8, <1>14, <2>1, <2>2 DEF Placed, Numeric
<1>17. mode' \in Modes /\ mode' \notin Busy
    BY <1>5 DEF Modes, Busy, Numeric
<1>18. cursor' \in Nat /\ cursor' <= Trusted(request) /\ cursor' <= WindowEnd
    BY <1>2, <1>5, <1>7
<1> QED
    BY <1>2, <1>3, <1>4, <1>5, <1>14, <1>15, <1>16, <1>17, <1>18, Packed

(* Where a number ends is where its letters do, or where the window cuts it.  *)
LEMMA NumberEnds ==
    ASSUME NEW T, NEW W, T = Source(request), W = request.values, request \in Requests,
           limits \in Limits, cursor \in Nat, cursor <= Trusted(request), cursor <= WindowEnd,
           Wrote(T, W), NEW i \in 1..Len(W), W[i].kind = "number",
           NEW s \in Nat, s = W[i].start, NEW e \in Nat, e = W[i].end,
           mode \in Numeric, InNumber(T, s, e, cursor, mode), ScalarEnds
    PROVE  /\ s < cursor /\ cursor <= e
           /\ cursor = e \/ (Truncated /\ cursor = WindowEnd)
<1>1. PICK m \in Numeric, c \in Nat : m = mode /\ c = cursor
    OBVIOUS
<1>2. InNumber(T, s, e, c, m)
    BY <1>1
<1>3. /\ s < c /\ c <= e
      /\ c < e => T[c + 1] \in {"1", "."}
      /\ c < e /\ m = "digits" => T[c + 1] = "1"
    <2>1. s < c /\ c <= e
        BY <1>2, NumberStep
    <2>2. c < e => T[c + 1] \in {"1", "."}
        BY ONLY <1>2, NumberStep, s \in Nat, e \in Nat, c \in Nat, m \in Numeric
    <2>3. c < e /\ m = "digits" => T[c + 1] = "1"
        BY <1>2, NumberStep
    <2> QED
        BY <2>1, <2>2, <2>3
<1>4. ASSUME c < e, ~(Truncated /\ cursor = WindowEnd) PROVE FALSE
    <2>1. ~Stuck
        <3>1. request.damaged => Trusted(request) <= s \/ e <= Trusted(request)
            BY SourceFacts
        <3>2. Trusted(request) \in Nat
            BY SourceFacts
        <3>3. ~(request.damaged /\ cursor = Trusted(request))
            BY <1>1, <1>3, <1>4, <3>1, <3>2
        <3> QED
            BY <1>4, <3>3 DEF Stuck
    <2>2. cursor < Len(T)
        <3>1. e <= Len(T) /\ Len(T) \in Nat
            BY FirstLetters DEF Wrote
        <3> QED
            BY <1>1, <1>4, <3>1
    <2>3. Peek = T[c + 1]
        <3>1. cursor # Len(Source(request))
            <4>1. Len(T) \in Nat
                BY DEF Wrote
            <4> QED
                BY <2>2, <4>1
        <3> QED
            BY <1>1, <2>1, <3>1, PeekIs
    <2>4. Peek \in {"1", "."} /\ (m = "digits" => Peek = "1")
        BY <1>3, <1>4, <2>3
    <2>5. m = "integer" \/ m = "digits"
        BY <1>1 DEF Numeric, ScalarEnds
    <2> QED
        BY <1>1, <2>4, <2>5 DEF ScalarEnds
<1> QED
    BY <1>1, <1>3, <1>4

LEMMA PushScalarKeeps ==
    ASSUME ScanInv, PushScalar
    PROVE  ScanInv'
<1> PICK T, W : T = Source(request) /\ W = request.values
    OBVIOUS
<1>1. mode # "done" /\ mode \notin Busy /\ ScalarEnds /\ mode \in {"literal", "integer", "digits"}
    BY DEF PushScalar, ScalarEnds, Busy
<1>2. /\ request \in Requests /\ limits \in Limits /\ mode \in Modes /\ stop = Unread
      /\ cursor \in Nat /\ name \in [start : Nat, end : Nat] /\ text \in Nat
      /\ value \in ValueSet(W) /\ nodes \in Seq(NodeSet(W)) /\ frames \in Seq(FrameSet)
      /\ checkpoints \in Seq(PathSet(W))
      /\ cursor <= Trusted(request) /\ cursor <= WindowEnd
      /\ WindowEnd \in Nat /\ Trusted(request) \in Nat
      /\ Len(nodes) \in Nat /\ Len(nodes) <= Len(W)
    BY <1>1, Unpacked
<1>3. /\ Wrote(T, W) /\ Family(W)
      /\ Indexes(W, nodes) /\ AllExact(W, nodes, CutAt) /\ Stack(W, frames, nodes)
      /\ Recalled(W, frames, checkpoints) /\ Inside(W, frames, cursor)
    BY <1>1, Unpacked
<1>4. /\ OpenOnly(frames, nodes, 0)
      /\ Doomed(W) \/ Placed(T, W, Len(nodes) + 1)
    <2>1. mode \notin Busy
        BY <1>1 DEF Busy
    <2> QED
        BY <1>1, <2>1, Unpacked
<1> DEFINE i == Len(nodes) + 1
<1>5. /\ request' = request /\ limits' = limits /\ cursor' = cursor
      /\ value' = value /\ name' = name /\ text' = text /\ stop' = stop
      /\ nodes' = Append(nodes, Node(value, value.kind, cursor, TRUE))
      /\ Rewind(value.base) /\ frames' = CountChild(frames) /\ mode' = AfterValue(frames)
    BY DEF PushScalar, Completed
<1>6. /\ Knows(W, frames, checkpoints, path, value, i)
      /\ W[i].occurrence # 0 => nodes[W[i].parent].duplicate
      /\ mode # "literal" => /\ mode \in Numeric /\ W[i].kind = "number" /\ value.kind = "number"
                             /\ InNumber(T, W[i].start, W[i].end, cursor, mode)
      /\ mode = "literal" => /\ value.kind = "literal" /\ W[i].kind = "literal"
                             /\ cursor = W[i].end
    BY <1>1, <1>4 DEF Placed, Doomed, Numeric
<1>7. Due(W, frames, i)
    BY <1>6 DEF Knows
<1>8. PICK k \in Nat : k = i /\ k \in 1..Len(W) /\ k = Len(nodes) + 1
    BY <1>2, <1>3, <1>7 DEF Due, Wrote
<1>9. PICK s \in Nat, e \in Nat, c \in Nat :
        s = W[k].start /\ e = W[k].end /\ s < e /\ c = cursor
    BY <1>2, <1>3, <1>8, NotASpace
<1>10. /\ s < c /\ c <= e /\ W[k].kind = value.kind /\ W[k].kind \in {"number", "literal"}
       /\ c = e \/ (W[k].kind = "number" /\ Truncated /\ c = WindowEnd)
    <2>1. CASE mode = "literal"
        BY <1>6, <1>8, <1>9, <2>1
    <2>2. CASE mode # "literal"
        <3>1. mode \in Numeric /\ W[k].kind = "number" /\ InNumber(T, s, e, cursor, mode)
            BY <1>6, <1>8, <1>9, <2>2
        <3>2. /\ s < cursor /\ cursor <= e
              /\ cursor = e \/ (Truncated /\ cursor = WindowEnd)
            BY <1>1, <1>2, <1>3, <1>8, <1>9, <3>1, NumberEnds
        <3> QED
            BY <1>6, <1>8, <1>9, <2>2, <3>1, <3>2
    <2> QED
        BY <2>1, <2>2
<1>11. W[k].last = k
    BY <1>3, <1>8, <1>10 DEF Family, Containers
<1>12. PICK n : n = Node(value, W[k].kind, c, TRUE)
    OBVIOUS
<1>13. /\ n \in NodeSet(W) /\ Alike(n, W[k]) /\ n.end = c /\ n.complete = TRUE
       /\ n.start = s /\ n.kind = W[k].kind
    <2>1. Knows(W, frames, checkpoints, path, value, k)
        BY <1>6, <1>8
    <2>2. PICK done : done = TRUE
        OBVIOUS
    <2>3. n = Node(value, W[k].kind, c, done) /\ done \in BOOLEAN
        BY <1>12, <2>2
    <2>4. /\ n \in NodeSet(W) /\ Alike(n, W[k]) /\ n.end = c /\ n.start = W[k].start
          /\ n.kind = W[k].kind /\ n.complete = done
        BY <1>2, <1>3, <1>8, <2>1, <2>3, NodeIs
    <2> QED
        BY <1>9, <2>2, <2>4
<1>14. nodes' = Append(nodes, n)
    BY <1>5, <1>9, <1>10, <1>12
<1>15. nodes' \in Seq(NodeSet(W)) /\ Pushed(nodes, nodes', n)
    BY <1>2, <1>13, <1>14, PushedIs
<1>16. Indexes(W, nodes')
    <2>1. Len(nodes) < Len(W) /\ n.end <= W[Len(nodes) + 1].end /\ Alike(n, W[Len(nodes) + 1])
        BY <1>2, <1>8, <1>9, <1>10, <1>13
    <2> QED
        BY <1>2, <1>3, <1>6, <1>13, <1>14, <2>1, IndexesAppend
<1>17. AllExact(W, nodes', CutAt)
    <2>1. Exact(W, n, k, CutAt)
        <3>1. n.start < n.end
            BY <1>10, <1>13
        <3>2. n.end = W[k].end \/ (n.kind = "number" /\ n.end = CutAt)
            BY <1>9, <1>10, <1>13 DEF CutAt
        <3> QED
            BY <3>1, <3>2 DEF Exact
    <2>2. \A j \in 1..Len(nodes) : Exact(W, nodes[j], j, CutAt)
        BY <1>3 DEF AllExact
    <2> SUFFICES ASSUME NEW j \in 1..Len(nodes') PROVE Exact(W, nodes'[j], j, CutAt)
        BY DEF AllExact
    <2>3. Len(nodes') = k /\ nodes'[k] = n /\ \A m \in 1..Len(nodes) : nodes'[m] = nodes[m]
        BY <1>8, <1>15 DEF Pushed
    <2>4. CASE j = k
        BY <2>1, <2>3, <2>4
    <2>5. CASE j # k
        <3>1. j \in 1..Len(nodes)
            BY <1>2, <1>8, <2>3, <2>5
        <3> QED
            BY <2>2, <2>3, <3>1
    <2> QED
        BY <2>4, <2>5
<1>18. Stack(W, frames, nodes') /\ OpenOnly(frames, nodes', 0)
    <2>1. /\ Len(nodes') = Len(nodes) + 1 /\ \A j \in 1..Len(nodes) : nodes'[j] = nodes[j]
          /\ nodes'[Len(nodes) + 1] = n
        BY <1>15 DEF Pushed
    <2>2. Stack(W, frames, nodes')
        BY <1>2, <1>3, <1>7, <2>1, StackAppended
    <2>3. nodes'[Len(nodes) + 1].complete
        BY <1>13, <2>1
    <2>4. OpenOnly(frames, nodes', 0)
        BY <1>2, <1>4, <2>1, <2>3, OpenAppended
    <2> QED
        BY <2>2, <2>4
<1>19. Knows(W, frames, checkpoints, path, value, k) /\ Len(nodes') = k
    BY <1>6, <1>8, <1>15 DEF Pushed
<1>20. /\ cursor' \in Nat /\ cursor' <= Trusted(request) /\ cursor' <= WindowEnd
       /\ cursor' <= W[k].end
       /\ cursor' = W[k].end \/ (Truncated /\ cursor' = WindowEnd)
    BY <1>2, <1>5, <1>9, <1>10
<1> QED
    BY <1>2, <1>3, <1>5, <1>8, <1>11, <1>15, <1>16, <1>17, <1>18, <1>19, <1>20, CompletedKeeps

-----------------------------------------------------------------------------
(***************************************************************************)
(* A container closed.                                                     *)
(***************************************************************************)
LEMMA ClosingIs ==
    ASSUME ScanInv, CloseContainer
    PROVE  LET T == Source(request)
               W == request.values
               k == frames[Len(frames)].node
           IN  /\ frames # << >> /\ Resting(W, frames, checkpoints, path)
               /\ cursor < Trusted(request) /\ cursor < WindowEnd
               /\ k \in 1..Len(nodes) /\ k \in 1..Len(W)
               /\ cursor + 1 = W[k].end /\ Len(nodes) = W[k].last
<1> PICK T, W : T = Source(request) /\ W = request.values
    OBVIOUS
<1>1. mode # "done" /\ mode = "frame" /\ mode \notin Busy /\ Peek = Closes[Top.kind]
    BY DEF CloseContainer, Busy
<1>2. /\ request \in Requests /\ limits \in Limits /\ mode \in Modes /\ stop = Unread
      /\ cursor \in Nat /\ name \in [start : Nat, end : Nat] /\ text \in Nat
      /\ value \in ValueSet(W) /\ nodes \in Seq(NodeSet(W)) /\ frames \in Seq(FrameSet)
      /\ checkpoints \in Seq(PathSet(W))
      /\ cursor <= Trusted(request) /\ cursor <= WindowEnd
      /\ WindowEnd \in Nat /\ Trusted(request) \in Nat
      /\ Len(nodes) \in Nat /\ Len(nodes) <= Len(W)
    BY <1>1, Unpacked
<1>3. /\ Wrote(T, W) /\ Family(W)
      /\ Indexes(W, nodes) /\ AllExact(W, nodes, CutAt) /\ Stack(W, frames, nodes)
      /\ Recalled(W, frames, checkpoints) /\ Inside(W, frames, cursor)
    BY <1>1, Unpacked
<1>4. /\ OpenOnly(frames, nodes, 0)
      /\ Doomed(W) \/ Placed(T, W, Len(nodes) + 1)
    <2>1. mode \notin Busy
        BY <1>1 DEF Busy
    <2> QED
        BY <1>1, <2>1, Unpacked
<1> DEFINE top == frames[Len(frames)]
<1>5. /\ frames # << >> /\ Resting(W, frames, checkpoints, path)
      /\ Ahead(T, W, frames, Len(nodes), cursor) \/ (Truncated /\ cursor = WindowEnd)
    <2>1. Len(nodes) + 1 - 1 = Len(nodes)
        BY <1>2
    <2> QED
        BY <1>1, <1>4, <2>1 DEF Placed, Doomed
<1>6. /\ top.kind \in Containers /\ top.node \in 1..Len(nodes) /\ top.node \in 1..Len(W)
    BY <1>2, <1>3, <1>5, TopIs
<1>7. Peek \in {"rbrace", "rbracket"} /\ Peek = Closes[top.kind]
    BY <1>1, <1>6 DEF Closes, Containers, Top
<1>8. cursor < Trusted(request) /\ cursor < WindowEnd /\ Peek = T[cursor + 1] /\ ~Stuck
    BY <1>2, <1>7, PeekIs
<1>9. Ahead(T, W, frames, Len(nodes), cursor)
    BY <1>5, <1>8 DEF Stuck
<1>10. \/ T[cursor + 1] = "space"
       \/ cursor + 1 = W[top.node].end /\ Len(nodes) = W[top.node].last
       \/ T[cursor + 1] \in {"quote", "1", "tr", "lbrace", "lbracket"}
       \/ T[cursor + 1] = "comma"
    BY <1>2, <1>3, <1>5, <1>9, AheadIs
<1>11. cursor + 1 = W[top.node].end /\ Len(nodes) = W[top.node].last
    BY <1>7, <1>8, <1>10
<1> QED
    BY <1>5, <1>6, <1>8, <1>11

(* What holds the container that closed, if anything does.                    *)
LEMMA OuterIs ==
    ASSUME NEW W, Family(W), NEW fs \in Seq(FrameSet), NEW ns, Stack(W, fs, ns),
           Len(ns) \in Nat, Len(ns) <= Len(W), NEW n \in 2..Len(fs)
    PROVE  LET k == fs[n].node
           IN  /\ k \in 2..Len(W) /\ W[k].parent = fs[n - 1].node
               /\ fs[n - 1].children = W[k].rank + 1
               /\ W[k].end < W[fs[n - 1].node].end
<1>1. n \in 1..Len(fs) /\ n - 1 \in 1..Len(fs) /\ n - 1 < n
    OBVIOUS
<1>2. Framed(W, fs, ns, n) /\ Framed(W, fs, ns, n - 1)
    BY <1>1, StackIs
<1>3. Nested(W, fs[n - 1].node, fs[n].node)
    BY <1>1, StackIs
<1>4. fs[n].node \in 1..Len(ns) /\ fs[n - 1].node \in 1..Len(ns) /\ fs[n - 1].node < fs[n].node
    BY <1>2, <1>3 DEF Framed, Nested
<1>5. fs[n].node \in 2..Len(W)
    <2>1. Len(W) \in Nat
        BY DEF Family
    <2> QED
        BY <1>4, <2>1
<1> QED
    BY <1>2, <1>3, <1>5 DEF Framed, Nested

LEMMA OpenPopped ==
    ASSUME NEW fs \in Seq(FrameSet), fs # << >>, NEW gs, NEW ns, NEW ms, NEW k,
           OpenOnly(fs, ns, 0), k = fs[Len(fs)].node, NEW e, Closed(ns, ms, k, e),
           Len(gs) = Len(fs) - 1, \A f \in 1..(Len(fs) - 1) : gs[f] = fs[f]
    PROVE  OpenOnly(gs, ms, 0)
<1>1. Len(fs) \in Nat \ {0}
    OBVIOUS
<1>2. /\ Len(ms) = Len(ns) /\ ms[k].complete
      /\ \A i \in 1..Len(ns) : i # k => ms[i] = ns[i]
    BY DEF Closed, Moved
<1>3. ASSUME NEW i \in 1..Len(ms) PROVE ms[i].complete \/ \E f \in 1..Len(gs) : gs[f].node = i
    <2>1. CASE i = k
        BY <1>2, <2>1
    <2>2. CASE i # k
        <3>1. i # 0 /\ ms[i] = ns[i] /\ i \in 1..Len(ns)
            BY <1>2, <2>2
        <3>2. CASE ns[i].complete
            BY <3>1, <3>2
        <3>3. CASE \E f \in 1..Len(fs) : fs[f].node = i
            <4>1. PICK f \in 1..Len(fs) : fs[f].node = i
                BY <3>3
            <4>2. f # Len(fs)
                BY <2>2, <4>1
            <4>3. f \in 1..(Len(fs) - 1)
                BY <1>1, <4>2
            <4> QED
                BY <4>1, <4>3
        <3> QED
            BY <3>1, <3>2, <3>3 DEF OpenOnly
    <2> QED
        BY <2>1, <2>2
<1> QED
    BY <1>3 DEF OpenOnly

LEMMA CloseContainerKeeps ==
    ASSUME ScanInv, CloseContainer
    PROVE  ScanInv'
<1> PICK T, W : T = Source(request) /\ W = request.values
    OBVIOUS
<1>1. mode # "done" /\ mode = "frame" /\ mode \notin Busy
    BY DEF CloseContainer, Busy
<1>2. /\ request \in Requests /\ limits \in Limits /\ mode \in Modes /\ stop = Unread
      /\ cursor \in Nat /\ name \in [start : Nat, end : Nat] /\ text \in Nat
      /\ value \in ValueSet(W) /\ nodes \in Seq(NodeSet(W)) /\ frames \in Seq(FrameSet)
      /\ checkpoints \in Seq(PathSet(W))
      /\ cursor <= Trusted(request) /\ cursor <= WindowEnd
      /\ WindowEnd \in Nat /\ Trusted(request) \in Nat
      /\ Len(nodes) \in Nat /\ Len(nodes) <= Len(W)
    BY <1>1, Unpacked
<1>3. /\ Wrote(T, W) /\ Family(W)
      /\ Indexes(W, nodes) /\ AllExact(W, nodes, CutAt) /\ Stack(W, frames, nodes)
      /\ Recalled(W, frames, checkpoints) /\ Inside(W, frames, cursor)
    BY <1>1, Unpacked
<1>4. /\ OpenOnly(frames, nodes, 0)
      /\ Doomed(W) \/ Placed(T, W, Len(nodes) + 1)
    <2>1. mode \notin Busy
        BY <1>1 DEF Busy
    <2> QED
        BY <1>1, <2>1, Unpacked
<1>5. /\ request' = request /\ limits' = limits /\ cursor' = cursor + 1
      /\ value' = value /\ name' = name /\ text' = text /\ stop' = stop
      /\ nodes' = [nodes EXCEPT ![frames[Len(frames)].node].end = cursor + 1,
                                ![frames[Len(frames)].node].complete = TRUE]
      /\ frames' = SubSeq(frames, 1, Len(frames) - 1)
      /\ Rewind(frames[Len(frames)].base) /\ mode' = AfterValue(frames')
    BY DEF CloseContainer, Top
<1>6. PICK k, n : k = frames[Len(frames)].node /\ n = Len(frames)
    OBVIOUS
<1>7. /\ frames # << >> /\ Resting(W, frames, checkpoints, path) /\ n \in Nat \ {0}
      /\ cursor < Trusted(request) /\ cursor < WindowEnd
      /\ k \in 1..Len(nodes) /\ k \in 1..Len(W)
      /\ cursor + 1 = W[k].end /\ Len(nodes) = W[k].last
    BY <1>1, <1>2, <1>6, ClosingIs
<1>8. PICK e \in Nat : e = cursor + 1 /\ e = W[k].end
    BY <1>2, <1>7
<1>9. nodes' \in Seq(NodeSet(W)) /\ Closed(nodes, nodes', k, e)
    <2>1. nodes' = [nodes EXCEPT ![k].end = e, ![k].complete = TRUE]
        BY <1>5, <1>6, <1>8
    <2> QED
        BY <1>2, <1>7, <2>1, ClosesThus
<1>10. /\ Len(nodes') = Len(nodes) /\ nodes'[k].complete
       /\ \A j \in 1..Len(nodes) : j # k => nodes'[j] = nodes[j]
    BY <1>9 DEF Closed, Moved
<1>11. Indexes(W, nodes')
    <2>1. Moved(nodes, nodes', k, e) /\ e <= W[k].end
        BY <1>8, <1>9 DEF Closed
    <2> QED
        BY <1>2, <1>3, <1>7, <1>9, <2>1, MovedIndexes
<1>12. AllExact(W, nodes', CutAt)
    <2>1. Closed(nodes, nodes', k, W[k].end)
        BY <1>8, <1>9
    <2> QED
        BY <1>2, <1>3, <1>7, <2>1, ClosedIsExact
<1>13. /\ frames' \in Seq(FrameSet) /\ Len(frames') = n - 1
       /\ \A f \in 1..(n - 1) : frames'[f] = frames[f]
       /\ Stack(W, frames', nodes')
    <2>1. \A j \in 1..Len(nodes) :
             j # frames[Len(frames)].node => nodes'[j].complete = nodes[j].complete
        BY <1>6, <1>10
    <2>2. /\ frames \in Seq(FrameSet) /\ frames # << >> /\ Stack(W, frames, nodes)
          /\ Len(nodes') = Len(nodes) /\ Len(nodes) \in Nat
        BY <1>2, <1>3, <1>7, <1>10
    <2>3. n = Len(frames) /\ frames' = SubSeq(frames, 1, Len(frames) - 1)
        BY <1>5, <1>6
    <2> QED
        BY ONLY <2>1, <2>2, <2>3, StackPopped
<1>14. OpenOnly(frames', nodes', 0)
    <2>1. /\ Len(frames') = Len(frames) - 1 /\ k = frames[Len(frames)].node
          /\ \A f \in 1..(Len(frames) - 1) : frames'[f] = frames[f]
        BY <1>6, <1>13
    <2>2. PICK gs, ms : gs = frames' /\ ms = nodes'
        OBVIOUS
    <2>3. /\ OpenOnly(frames, nodes, 0) /\ Closed(nodes, ms, k, e)
          /\ Len(gs) = Len(frames) - 1 /\ \A f \in 1..(Len(frames) - 1) : gs[f] = frames[f]
        BY <1>4, <1>9, <2>1, <2>2
    <2>4. OpenOnly(gs, ms, 0)
        BY <1>2, <1>7, <2>1, <2>3, OpenPopped
    <2> QED
        BY <2>2, <2>4
<1>15. frames[n].base = IF n = 1 THEN 0 ELSE n - 2
    BY <1>2, <1>3, <1>6, <1>7, TopIs
<1>16. Len(checkpoints) = n - 1
    BY <1>6, <1>7 DEF Resting
<1>17. cursor' \in Nat /\ cursor' <= Trusted(request) /\ cursor' <= WindowEnd
    <2>1. cursor' = cursor + 1
        BY <1>5
    <2>2. cursor < Trusted(request) /\ cursor < WindowEnd
        BY <1>7
    <2>3. cursor \in Nat /\ Trusted(request) \in Nat /\ WindowEnd \in Nat
        BY <1>2
    <2> QED
        BY <2>1, <2>2, <2>3
<1>18. WindowEnd' = WindowEnd /\ (Truncated' <=> Truncated)
    BY <1>5, Unmoved
<1>19. CASE n = 1
    <2>1. frames' = << >> /\ mode' = "trailing"
        <3>1. frames' = << >>
            BY <1>13, <1>19
        <3> QED
            BY <1>5, <3>1 DEF AfterValue
    <2>2. UNCHANGED <<path, checkpoints>> /\ checkpoints' \in Seq(PathSet(W))
              /\ Len(checkpoints') = 0
        BY <1>2, <1>5, <1>6, <1>15, <1>16, <1>19 DEF Rewind
    <2>3. k = 1
        BY <1>3, <1>6, <1>7, <1>19 DEF Stack
    <2>4. Len(nodes') = Len(W)
        BY <1>3, <1>7, <1>10, <2>3 DEF Family
    <2>5. Blank(T, cursor', Len(T))
        BY <1>3, <1>5, <1>7, <2>3 DEF Wrote, SentAs
    <2>6. Placed(T, W, Len(nodes) + 1)'
        <3>1. Len(nodes') + 1 - 1 = Len(W)
            BY <1>2, <1>10, <2>4
        <3> QED
            BY <2>1, <2>5, <3>1 DEF Placed, Numeric
    <2>7. Inside(W, frames', cursor') /\ Recalled(W, frames', checkpoints')
        BY <2>1, <2>2 DEF Inside, Recalled
    <2>8. mode' \in Modes /\ mode' \notin Busy
        BY <2>1 DEF Modes, Busy
    <2>9. OpenOnly(frames', nodes', IF mode' \in Busy THEN text' ELSE 0)
        BY <1>14, <2>8
    <2> QED
        BY <1>2, <1>5, <1>9, <1>11, <1>12, <1>13, <1>17, <2>2, <2>6, <2>7, <2>8, <2>9, Packed
<1>20. CASE n # 1
    <2>1. PICK b \in Nat : b = n - 2 /\ b < Len(checkpoints) /\ b = frames[n].base
        BY <1>7, <1>15, <1>16, <1>20
    <2>2. frames' # << >> /\ mode' = "frame" /\ n > 1
        <3>1. Len(frames') > 0 /\ n > 1
            BY <1>7, <1>13, <1>20
        <3>2. frames' # << >>
            BY <1>13, <3>1, FramesAre
        <3> QED
            BY <1>5, <3>1, <3>2 DEF AfterValue
    <2>3. /\ path' = W[frames[b + 1].node].path
          /\ checkpoints' \in Seq(PathSet(W)) /\ Len(checkpoints') = b
          /\ \A f \in 1..b : checkpoints'[f] = checkpoints[f]
        <3>1. Rewind(b)
            BY <1>5, <1>6, <2>1
        <3> QED
            BY <1>2, <1>3, <2>1, <3>1, Rewound
    <2>4. /\ k \in 2..Len(W) /\ W[k].parent = frames[n - 1].node
          /\ frames[n - 1].children = W[k].rank + 1
          /\ W[k].end < W[frames[n - 1].node].end
        <3>1. n \in 2..Len(frames) /\ k = frames[n].node
            BY <1>6, <1>7, <2>2
        <3> QED
            BY <1>2, <1>3, <3>1, OuterIs
    <2>5. frames'[Len(frames')] = frames[n - 1] /\ b + 1 = n - 1
        <3>1. n - 1 \in 1..(n - 1) /\ Len(frames') = n - 1
            BY <1>7, <1>13, <2>2
        <3>2. frames'[n - 1] = frames[n - 1]
            BY <1>13, <3>1
        <3>3. n - 2 + 1 = n - 1
            BY <1>7
        <3> QED
            BY <2>1, <3>1, <3>2, <3>3
    <2>6. Recalled(W, frames', checkpoints')
        <3> SUFFICES ASSUME NEW f \in 1..Len(checkpoints')
                     PROVE  f <= Len(frames') /\ checkpoints'[f] = W[frames'[f].node].path
            BY DEF Recalled
        <3>1. f \in 1..b /\ f \in 1..Len(checkpoints) /\ f \in 1..(n - 1) /\ f <= Len(frames')
            BY <1>7, <1>13, <1>16, <2>1, <2>3
        <3>2. checkpoints[f] = W[frames[f].node].path
            BY <1>3, <3>1 DEF Recalled
        <3> QED
            BY <1>13, <2>3, <3>1, <3>2
    <2>7. Resting(W, frames', checkpoints', path')
        <3>1. Len(checkpoints') = Len(frames') - 1
            BY <1>7, <1>13, <2>1, <2>3
        <3>2. path' = W[frames'[Len(frames')].node].path
            BY <2>3, <2>5
        <3> QED
            BY <2>2, <3>1, <3>2 DEF Resting
    <2>8. Ahead(T, W, frames', W[k].last, W[k].end)
        BY <1>3, <1>13, <2>2, <2>4, <2>5, AheadAfter
    <2>9. Placed(T, W, Len(nodes) + 1)'
        <3>1. Len(nodes') + 1 - 1 = W[k].last
            BY <1>2, <1>7, <1>10
        <3>2. Ahead(T, W, frames', Len(nodes') + 1 - 1, cursor')
            BY <1>5, <1>7, <2>8, <3>1
        <3> QED
            BY <2>2, <2>7, <3>2 DEF Placed, Numeric
    <2>10. Inside(W, frames', cursor')
        BY <1>5, <1>7, <2>4, <2>5 DEF Inside
    <2>11. mode' \in Modes /\ mode' \notin Busy
        BY <2>2 DEF Modes, Busy
    <2>12. OpenOnly(frames', nodes', IF mode' \in Busy THEN text' ELSE 0)
        BY <1>14, <2>11
    <2> QED
        BY <1>2, <1>5, <1>9, <1>11, <1>12, <1>13, <1>17, <2>3, <2>6, <2>9, <2>10, <2>11, <2>12,
           Packed
<1> QED
    BY <1>19, <1>20

-----------------------------------------------------------------------------
(***************************************************************************)
(* A member's value begun.                                                 *)
(***************************************************************************)
LEMMA SameLetters ==
    ASSUME NEW S, NEW T, NEW from \in Nat, NEW to \in Nat, \A p \in from..to : S[p] = T[p]
    PROVE  SubSeq(S, from, to) = SubSeq(T, from, to)
<1> DEFINE L == {T[p] : p \in from..to}
           a == SubSeq(S, from, to)
           b == SubSeq(T, from, to)
<1>1. /\ \A p \in from..to : S[p] \in L
      /\ \A p \in from..to : T[p] \in L
      /\ from \in Int /\ to \in Int
    OBVIOUS
<1> HIDE DEF L
<1>2. /\ a \in Seq(L) /\ Len(a) = IF from <= to THEN to - from + 1 ELSE 0
      /\ \A p \in 1..(to - from + 1) : a[p] = S[from + p - 1]
    BY ONLY <1>1, SubSeqProperties
<1>3. /\ b \in Seq(L) /\ Len(b) = IF from <= to THEN to - from + 1 ELSE 0
      /\ \A p \in 1..(to - from + 1) : b[p] = T[from + p - 1]
    BY ONLY <1>1, SubSeqProperties
<1> HIDE DEF a, b
<1>4. \A p \in 1..Len(a) : a[p] = b[p]
    <2> SUFFICES ASSUME NEW p \in 1..Len(a) PROVE a[p] = b[p]
        OBVIOUS
    <2>1. p \in 1..(to - from + 1) /\ from + p - 1 \in from..to
        BY <1>2
    <2> QED
        BY <1>2, <1>3, <2>1
<1>5. a = b
    BY <1>2, <1>3, <1>4, SeqEqual
<1> QED
    BY <1>5 DEF a, b

(* Only whether its names repeat is changed of the node.                      *)
Marked(ns, ms, k) ==
    /\ Len(ms) = Len(ns) /\ \A i \in 1..Len(ns) : i # k => ms[i] = ns[i]
    /\ ms[k].start = ns[k].start /\ ms[k].kind = ns[k].kind /\ ms[k].depth = ns[k].depth
    /\ ms[k].parent = ns[k].parent /\ ms[k].occurrence = ns[k].occurrence
    /\ ms[k].name = ns[k].name /\ ms[k].path = ns[k].path
    /\ ms[k].end = ns[k].end /\ ms[k].complete = ns[k].complete
    /\ ns[k].duplicate => ms[k].duplicate

LEMMA MarksThus ==
    ASSUME NEW W, NEW ns \in Seq(NodeSet(W)), NEW k \in 1..Len(ns),
           NEW d, d \in BOOLEAN, ns[k].duplicate => d,
           NEW ms, ms = [ns EXCEPT ![k].duplicate = d]
    PROVE  ms \in Seq(NodeSet(W)) /\ Marked(ns, ms, k) /\ (d => ms[k].duplicate)
<1> DEFINE n == [ns[k] EXCEPT !.duplicate = d]
<1>1. n \in NodeSet(W)
    <2>1. ns[k] \in NodeSet(W)
        OBVIOUS
    <2> QED
        BY <2>1 DEF NodeSet
<1>2. ms = [ns EXCEPT ![k] = n]
    OBVIOUS
<1> HIDE DEF n
<1>3. /\ [ns EXCEPT ![k] = n] \in Seq(NodeSet(W)) /\ Len([ns EXCEPT ![k] = n]) = Len(ns)
      /\ \A i \in 1..Len(ns) : [ns EXCEPT ![k] = n][i] = IF i = k THEN n ELSE ns[i]
    BY <1>1, ExceptSeq
<1>4. ms \in Seq(NodeSet(W)) /\ Len(ms) = Len(ns)
    BY <1>2, <1>3
<1>5. ms[k] = n /\ \A i \in 1..Len(ns) : i # k => ms[i] = ns[i]
    BY <1>2, <1>3
<1>6. /\ n.start = ns[k].start /\ n.kind = ns[k].kind /\ n.depth = ns[k].depth
      /\ n.parent = ns[k].parent /\ n.occurrence = ns[k].occurrence
      /\ n.name = ns[k].name /\ n.path = ns[k].path
      /\ n.end = ns[k].end /\ n.complete = ns[k].complete /\ n.duplicate = d
    <2>1. ns[k] \in NodeSet(W)
        OBVIOUS
    <2> QED
        BY <2>1, DoubledNode DEF n
<1> QED
    BY <1>4, <1>5, <1>6 DEF Marked

LEMMA MarkedKeeps ==
    ASSUME NEW W, Family(W), NEW ns \in Seq(NodeSet(W)), NEW ms \in Seq(NodeSet(W)),
           Indexes(W, ns), NEW cut, AllExact(W, ns, cut), NEW k \in 1..Len(ns),
           Marked(ns, ms, k)
    PROVE  Indexes(W, ms) /\ AllExact(W, ms, cut)
<1>1. ASSUME NEW i \in 1..Len(ns)
      PROVE  /\ Alike(ns[i], W[i]) => Alike(ms[i], W[i])
             /\ ms[i].end <= W[i].end
             /\ ns[i].duplicate => ms[i].duplicate
             /\ Exact(W, ms[i], i, cut)
    <2>1. ns[i].end <= W[i].end /\ Exact(W, ns[i], i, cut)
        BY DEF Indexes, AllExact
    <2>2. CASE i = k
        BY <2>1, <2>2 DEF Marked, Alike, Exact
    <2>3. CASE i # k
        BY <2>1, <2>3 DEF Marked
    <2> QED
        BY <2>2, <2>3
<1>2. Len(ms) = Len(ns)
    BY DEF Marked
<1>3. Indexes(W, ms)
    BY <1>1, <1>2, IndexesRevised DEF Revised
<1> QED
    BY <1>1, <1>2, <1>3 DEF AllExact

LEMMA MarkedStack ==
    ASSUME NEW W, NEW fs \in Seq(FrameSet), NEW ns, NEW ms, Stack(W, fs, ns),
           NEW k, Marked(ns, ms, k)
    PROVE  Stack(W, fs, ms)
<1>1. \A f \in 1..Len(fs) : fs[f].node \in 1..Len(ns) /\ ~ns[fs[f].node].complete
    BY DEF Stack
<1>2. \A f \in 1..Len(fs) : ~ms[fs[f].node].complete
    BY <1>1 DEF Marked
<1> QED
    BY <1>2, StackRevised DEF Marked

LEMMA MarkedOpen ==
    ASSUME NEW fs, NEW ns, NEW ms, OpenOnly(fs, ns, 0), NEW k, Marked(ns, ms, k)
    PROVE  OpenOnly(fs, ms, 0)
    BY DEF OpenOnly, Marked

(* The names are counted as the sender's own are.                             *)
LEMMA NamesakesAre ==
    ASSUME NEW W, Family(W), Indexes(W, nodes), Len(nodes) \in Nat, NEW i \in 2..Len(W),
           i = Len(nodes) + 1, NEW object, object = W[i].parent, W[object].kind = "object"
    PROVE  /\ Cardinality(Namesakes(object, W[i].name)) = W[i].occurrence
           /\ W[i].occurrence # 0 => Namesakes(object, W[i].name) # {}
<1>1. Len(nodes) = i - 1
    OBVIOUS
<1>2. \A j \in 1..Len(nodes) : nodes[j].parent = W[j].parent /\ nodes[j].name = W[j].name
    BY DEF Indexes, Alike
<1>3. Namesakes(object, W[i].name)
        = {k \in 1..(i - 1) : W[k].parent = W[i].parent /\ W[k].name = W[i].name}
    BY <1>1, <1>2 DEF Namesakes
<1>4. W[i].occurrence = Cardinality({k \in 1..(i - 1) : W[k].parent = W[i].parent
                                                        /\ W[k].name = W[i].name})
    BY DEF Family
<1>5. Cardinality({}) = 0
    BY FS_EmptySet
<1> QED
    BY <1>3, <1>4, <1>5

LEMMA MemberValue ==
    ASSUME NEW W, NEW i \in 1..Len(W), NEW p \in Nat, NEW c \in Nat, NEW d \in Nat, NEW b \in Nat,
           NEW s \in Nat
    PROVE  [parent |-> p, name |-> W[i].name, occurrence |-> c, depth |-> d, base |-> b,
            start |-> s, kind |-> Unread] \in ValueSet(W)
    BY DEF ValueSet

LEMMA BeginMemberKeeps ==
    ASSUME ScanInv, BeginMember
    PROVE  ScanInv'
<1> PICK T, W : T = Source(request) /\ W = request.values
    OBVIOUS
<1>1. mode = "member" /\ mode # "done" /\ mode \notin Busy /\ Peek # "space"
    BY DEF BeginMember, Spaces, Busy
<1>2. /\ request \in Requests /\ limits \in Limits /\ mode \in Modes /\ stop = Unread
      /\ cursor \in Nat /\ name \in [start : Nat, end : Nat] /\ text \in Nat
      /\ value \in ValueSet(W) /\ nodes \in Seq(NodeSet(W)) /\ frames \in Seq(FrameSet)
      /\ checkpoints \in Seq(PathSet(W))
      /\ cursor <= Trusted(request) /\ cursor <= WindowEnd
      /\ WindowEnd \in Nat /\ Trusted(request) \in Nat
      /\ Len(nodes) \in Nat /\ Len(nodes) <= Len(W)
    BY <1>1, Unpacked
<1>3. /\ Wrote(T, W) /\ Family(W)
      /\ Indexes(W, nodes) /\ AllExact(W, nodes, CutAt) /\ Stack(W, frames, nodes)
      /\ Recalled(W, frames, checkpoints) /\ Inside(W, frames, cursor)
    BY <1>1, Unpacked
<1>4. /\ OpenOnly(frames, nodes, 0)
      /\ Doomed(W) \/ Placed(T, W, Len(nodes) + 1)
    <2>1. mode \notin Busy
        BY <1>1 DEF Busy
    <2> QED
        BY <1>1, <2>1, Unpacked
<1> DEFINE top == frames[Len(frames)]
           i == Len(nodes) + 1
           units == Units(name.start, name.end)
           earlier == Namesakes(top.node, units)
<1>5. /\ request' = request /\ limits' = limits /\ mode' = "value" /\ cursor' = cursor
      /\ name' = name /\ text' = text /\ frames' = frames /\ stop' = stop
      /\ nodes' = [nodes EXCEPT ![top.node].duplicate = @ \/ earlier # {}]
      /\ checkpoints' = Append(checkpoints, path)
      /\ path' = Append(path, [index |-> 0, name |-> units])
      /\ value' = [parent |-> top.node, name |-> units, occurrence |-> Cardinality(earlier),
                   depth |-> top.depth + 1, base |-> Len(checkpoints),
                   start |-> cursor, kind |-> Unread]
    BY DEF BeginMember, Top
<1>6. /\ frames # << >> /\ top.kind = "object" /\ Due(W, frames, i)
      /\ Resting(W, frames, checkpoints, path)
      /\ name.start = W[i].label.start /\ name.end = W[i].label.end /\ W[i].label.end <= cursor
      /\ Blank(T, cursor, W[i].start)
    BY <1>1, <1>4 DEF Placed, Doomed, Top
<1>7. PICK k, t, n : k = i /\ k \in Nat /\ t = top.node /\ n = Len(frames)
    BY <1>2
<1>8. /\ n \in Nat \ {0} /\ t \in 1..Len(W) /\ t \in Nat /\ t \in 1..Len(nodes)
      /\ top.kind = W[t].kind /\ top.depth = W[t].depth
      /\ top.children \in Nat /\ top.depth \in Nat
    BY <1>2, <1>3, <1>6, <1>7, TopIs
<1>9. Due(W, frames, k) /\ Wrote(T, W) /\ Family(W) /\ frames # << >>
    BY <1>3, <1>6, <1>7
<1>10. k \in 2..Len(W) /\ k \in 1..Len(W) /\ W[k].parent = t
    <2>1. k \in 2..Len(W) /\ W[k].parent = t
        BY <1>7, <1>9, NextChildIs
    <2> QED
        BY <2>1
<1>11. W[k].label.start \in Nat /\ W[k].label.end \in Nat /\ W[k].start \in Nat
    <2>1. W[k].label.start \in Nat /\ W[k].label.end \in Nat
        BY <1>7, <1>9, NextChildIs
    <2>2. W[k].start \in Nat
        BY <1>7, <1>9, NextChildIs
    <2> QED
        BY <2>1, <2>2
<1>12. /\ W[k].name = Decode(SubSeq(T, W[k].label.start + 2, W[k].label.end - 1))
       /\ W[k].label.start + 2 <= W[k].label.end
    <2>1. W[W[k].parent].kind = "object"
        BY <1>6, <1>8, <1>10
    <2> QED
        BY <1>9, <1>10, <2>1, ChildFacts
<1>13. PICK l \in Nat, g \in Nat, s \in Nat, c \in Nat :
        l = W[k].label.start /\ g = W[k].label.end /\ s = W[k].start /\ c = cursor
    BY <1>2, <1>11
<1>14. units = W[k].name
    <2>1. /\ name.start = l /\ name.end = g /\ g <= c /\ l + 2 <= g
        BY <1>6, <1>7, <1>12, <1>13
    <2>2. units = Decode(SubSeq(request.letters, l + 1 + 1, g - 1))
        BY <2>1 DEF Units, Letters
    <2>3. l + 1 + 1 = l + 2 /\ l + 2 \in Nat /\ g - 1 \in Nat
        BY <2>1
    <2>4. \A p \in (l + 2)..(g - 1) : request.letters[p] = T[p]
        <3> SUFFICES ASSUME NEW p \in (l + 2)..(g - 1) PROVE request.letters[p] = T[p]
            OBVIOUS
        <3>1. p \in 1..Trusted(request)
            <4>1. PICK u \in Nat : u = Trusted(request) /\ c <= u
                BY <1>2, <1>13
            <4>2. g <= u
                BY <2>1, <4>1
            <4> QED
                BY <4>1, <4>2
        <3> QED
            BY <1>2, <3>1, SourceFacts
    <2>5. SubSeq(request.letters, l + 2, g - 1) = SubSeq(T, l + 2, g - 1)
        BY <2>3, <2>4, SameLetters
    <2> QED
        BY <1>12, <1>13, <2>2, <2>3, <2>5
<1>15. PICK E : E = Namesakes(t, W[k].name)
    OBVIOUS
<1>16. earlier = E
    BY <1>7, <1>14, <1>15
<1>17. Cardinality(E) = W[k].occurrence /\ (W[k].occurrence # 0 => E # {})
    <2>1. k = Len(nodes) + 1 /\ t = W[k].parent /\ W[t].kind = "object"
        BY <1>6, <1>7, <1>8, <1>10
    <2> QED
        BY <1>2, <1>3, <1>10, <1>15, <2>1, NamesakesAre
<1>18. PICK d : d = (nodes[t].duplicate \/ E # {})
    OBVIOUS
<1>19. /\ nodes' \in Seq(NodeSet(W)) /\ Marked(nodes, nodes', t)
       /\ d => nodes'[t].duplicate
    <2>1. nodes' = [nodes EXCEPT ![t].duplicate = d]
        BY <1>5, <1>7, <1>16, <1>18
    <2>2. d \in BOOLEAN /\ (nodes[t].duplicate => d)
        BY <1>18
    <2> QED
        BY <1>2, <1>8, <2>1, <2>2, MarksThus
<1>20. Indexes(W, nodes') /\ AllExact(W, nodes', CutAt) /\ Len(nodes') = Len(nodes)
    <2>1. Indexes(W, nodes') /\ AllExact(W, nodes', CutAt)
        BY <1>2, <1>3, <1>8, <1>19, MarkedKeeps
    <2> QED
        BY <1>19, <2>1 DEF Marked
<1>21. Stack(W, frames', nodes') /\ OpenOnly(frames', nodes', 0)
    BY <1>2, <1>3, <1>4, <1>5, <1>19, MarkedStack, MarkedOpen
<1>22. /\ checkpoints' \in Seq(PathSet(W)) /\ Recalled(W, frames', checkpoints')
       /\ Len(checkpoints') = n /\ Len(checkpoints) = n - 1
    <2>1. top.node \in 1..Len(W)
        BY <1>7, <1>8
    <2>2. /\ Append(checkpoints, path) \in Seq(PathSet(W))
          /\ Recalled(W, frames, Append(checkpoints, path))
          /\ Len(Append(checkpoints, path)) = Len(frames) /\ Len(checkpoints) = Len(frames) - 1
        BY <1>2, <1>3, <1>6, <2>1, RecalledPushed
    <2> QED
        BY <1>5, <1>7, <2>2
<1>23. W[k].occurrence \in Nat
    BY <1>3, <1>10 DEF Family, ValueType
<1>24. value' = [parent |-> t, name |-> W[k].name, occurrence |-> W[k].occurrence,
                 depth |-> top.depth + 1, base |-> Len(checkpoints), start |-> cursor,
                 kind |-> Unread]
    BY <1>5, <1>7, <1>14, <1>16, <1>17
<1>25. value' \in ValueSet(W)
    <2>1. top.depth + 1 \in Nat /\ Len(checkpoints) \in Nat
        BY <1>8, <1>22
    <2> QED
        BY <1>2, <1>8, <1>10, <1>23, <1>24, <2>1, MemberValue
<1>26. Doomed(W)' \/ Placed(T, W, Len(nodes) + 1)'
    <2>1. CASE Stuck
        BY <1>5, <2>1, StillDoomed
    <2>2. CASE ~Stuck
        <3>1. cursor = W[k].start
            <4>1. Blank(T, c, s)
                BY <1>6, <1>7, <1>13
            <4>2. T[c + 1] # "space"
                <5>1. PICK e \in Nat, q \in Nat : e = W[t].end /\ q = Len(T) /\ e <= q
                    <6>1. SentAs(T, W) /\ Len(W) \in Nat /\ Len(T) \in Nat
                        BY <1>3 DEF Wrote
                    <6>2. W[t].end \in Nat
                        BY <1>3, <1>8, NotASpace
                    <6>3. W[t].end <= Len(T)
                        BY <1>8, <6>1, FirstLetters
                    <6> QED
                        BY <6>1, <6>2, <6>3
                <5>2. cursor < e
                    BY <1>3, <1>6, <1>7, <5>1 DEF Inside
                <5>3. cursor # Len(Source(request))
                    <6>1. Len(Source(request)) = q
                        BY <5>1
                    <6>2. cursor \in Nat
                        BY <1>2
                    <6> QED
                        BY ONLY <5>1, <5>2, <6>1, <6>2
                <5>4. Peek = Source(request)[cursor + 1]
                    BY <1>2, <2>2, <5>3, PeekIs
                <5> QED
                    BY <1>1, <1>13, <5>4
            <4> QED
                BY <1>13, <4>1, <4>2, NotSpaceBlank
        <3>2. W[k].depth = W[t].depth + 1
            BY <1>3, <1>10 DEF Family
        <3>3. W[k].path = Append(W[t].path, [index |-> 0, name |-> W[k].name])
            <4>1. W[k].path = Append(W[t].path, [index |-> IF W[t].kind = "array" THEN W[k].rank
                                                           ELSE 0, name |-> W[k].name])
                BY <1>3, <1>10 DEF Family
            <4>2. W[t].kind # "array"
                BY <1>6, <1>8
            <4> QED
                BY <4>1, <4>2
        <3>4. /\ value'.start = W[k].start /\ value'.depth = W[k].depth
              /\ value'.parent = W[k].parent /\ value'.occurrence = W[k].occurrence
              /\ value'.name = W[k].name /\ value'.base = n - 1
            BY <1>8, <1>10, <1>22, <1>24, <3>1, <3>2
        <3>5. path' = W[k].path
            <4>1. path = W[t].path
                BY <1>6, <1>7 DEF Resting
            <4> QED
                BY <1>5, <1>14, <3>3, <4>1
        <3>6. Knows(W, frames', checkpoints', path', value', k)
            BY <1>5, <1>7, <1>9, <1>22, <3>4, <3>5 DEF Knows
        <3>7. W[k].occurrence # 0 => nodes'[W[k].parent].duplicate
            <4>1. W[k].occurrence # 0 => d
                BY <1>17, <1>18
            <4> QED
                BY <1>10, <1>19, <4>1
        <3>8. Len(nodes') + 1 = k
            BY <1>7, <1>20
        <3> QED
            BY <1>5, <3>1, <3>6, <3>7, <3>8 DEF Placed, Numeric
    <2> QED
        BY <2>1, <2>2
<1>27. Inside(W, frames', cursor')
    BY <1>3, <1>5
<1>28. mode' \in Modes /\ mode' \notin Busy
    BY <1>5 DEF Modes, Busy
<1>29. OpenOnly(frames', nodes', IF mode' \in Busy THEN text' ELSE 0)
    BY <1>21, <1>28
<1> QED
    BY <1>2, <1>3, <1>5, <1>19, <1>20, <1>21, <1>22, <1>25, <1>26, <1>27, <1>28, <1>29, Packed

-----------------------------------------------------------------------------
(***************************************************************************)
(* The end of the scan.                                                    *)
(***************************************************************************)
IsOpen(fs, i) == \E f \in 1..Len(fs) : fs[f].node = i

(* What finish does to one node of the index.                                 *)
FinishedAs(ns, ms, i, at) ==
    LET cut == Truncated /\ ns[i].kind = "number" /\ ns[i].end >= WindowEnd
    IN  /\ ms[i].start = ns[i].start /\ ms[i].kind = ns[i].kind /\ ms[i].depth = ns[i].depth
        /\ ms[i].parent = ns[i].parent /\ ms[i].occurrence = ns[i].occurrence
        /\ ms[i].name = ns[i].name /\ ms[i].path = ns[i].path
        /\ ms[i].duplicate = ns[i].duplicate
        /\ IsOpen(frames, i) => ms[i].end = at
        /\ ~IsOpen(frames, i) => ms[i].end = ns[i].end
        /\ ms[i].complete <=> ns[i].complete /\ ~cut

LEMMA FinishIs ==
    ASSUME NEW W, NEW ns \in Seq(NodeSet(W)), NEW at \in Nat, NEW ms, ms = Finish(ns, at)
    PROVE  /\ ms \in Seq(NodeSet(W)) /\ Len(ms) = Len(ns)
           /\ \A i \in 1..Len(ns) : FinishedAs(ns, ms, i, at)
<1> DEFINE cut(i) == Truncated /\ ns[i].kind = "number" /\ ns[i].end >= WindowEnd
           end(i) == IF IsOpen(frames, i) THEN at ELSE ns[i].end
           kept(i) == ns[i].complete /\ ~cut(i)
           now(i) == [ns[i] EXCEPT !.end = end(i), !.complete = kept(i)]
<1>1. ms = [i \in 1..Len(ns) |-> now(i)]
    BY DEF Finish, IsOpen
<1>2. ASSUME NEW i \in 1..Len(ns)
      PROVE  /\ now(i) \in NodeSet(W) /\ now(i).end = end(i) /\ now(i).complete = kept(i)
             /\ now(i).start = ns[i].start /\ now(i).kind = ns[i].kind
             /\ now(i).depth = ns[i].depth /\ now(i).parent = ns[i].parent
             /\ now(i).occurrence = ns[i].occurrence /\ now(i).name = ns[i].name
             /\ now(i).path = ns[i].path /\ now(i).duplicate = ns[i].duplicate
    <2>1. PICK n, e, c, m : n = ns[i] /\ e = end(i) /\ c = kept(i) /\ m = now(i)
        OBVIOUS
    <2>2. n \in NodeSet(W)
        BY <2>1
    <2>3. e \in Nat
        <3>1. n.end \in Nat
            BY <2>2 DEF NodeSet
        <3> QED
            BY <2>1, <3>1
    <2>4. c \in BOOLEAN
        BY <2>1
    <2>5. m = [n EXCEPT !.end = e, !.complete = c]
        BY <2>1
    <2>6. /\ m \in NodeSet(W) /\ m.end = e /\ m.complete = c
          /\ m.start = n.start /\ m.kind = n.kind /\ m.depth = n.depth /\ m.parent = n.parent
          /\ m.occurrence = n.occurrence /\ m.name = n.name /\ m.path = n.path
          /\ m.duplicate = n.duplicate
        BY <2>2, <2>3, <2>4, <2>5 DEF NodeSet
    <2> HIDE DEF end, kept, now
    <2> QED
        BY <2>1, <2>6
<1> HIDE DEF now
<1>3. Len(ns) \in Nat
    OBVIOUS
<1>4. ms \in Seq(NodeSet(W)) /\ Len(ms) = Len(ns) /\ \A i \in 1..Len(ns) : ms[i] = now(i)
    BY <1>1, <1>2, <1>3
<1>5. ASSUME NEW i \in 1..Len(ns) PROVE FinishedAs(ns, ms, i, at)
    <2>1. ms[i] = now(i)
        BY <1>4
    <2> QED
        BY <1>2, <2>1 DEF FinishedAs
<1> QED
    BY <1>4, <1>5

LEMMA FinishKeeps ==
    ASSUME NEW W, Family(W), NEW ns \in Seq(NodeSet(W)), Indexes(W, ns),
           AllExact(W, ns, CutAt), Stack(W, frames, ns), NEW at \in Nat,
           \A f \in 1..Len(frames) : at <= W[frames[f].node].end,
           NEW ms, ms = Finish(ns, at)
    PROVE  /\ ms \in Seq(NodeSet(W)) /\ Len(ms) = Len(ns) /\ Indexes(W, ms)
           /\ \A i \in 1..Len(ms) : ms[i].complete => ms[i].end = W[i].end
           /\ ~Truncated => \A i \in 1..Len(ns) : ms[i].complete = ns[i].complete
<1>1. /\ ms \in Seq(NodeSet(W)) /\ Len(ms) = Len(ns)
      /\ \A i \in 1..Len(ns) : FinishedAs(ns, ms, i, at)
    BY FinishIs
<1>2. ASSUME NEW i \in 1..Len(ns)
      PROVE  /\ Alike(ns[i], W[i]) => Alike(ms[i], W[i])
             /\ ms[i].end <= W[i].end
             /\ ns[i].duplicate => ms[i].duplicate
    <2>1. FinishedAs(ns, ms, i, at) /\ ns[i].end <= W[i].end
        BY <1>1 DEF Indexes
    <2>2. ms[i].end <= W[i].end
        <3>1. CASE IsOpen(frames, i)
            <4>1. at <= W[i].end
                BY <3>1 DEF IsOpen
            <4> QED
                BY <2>1, <3>1, <4>1 DEF FinishedAs
        <3>2. CASE ~IsOpen(frames, i)
            BY <2>1, <3>2 DEF FinishedAs
        <3> QED
            BY <3>1, <3>2
    <2> QED
        BY <2>1, <2>2 DEF FinishedAs, Alike
<1>3. Indexes(W, ms)
    BY <1>1, <1>2, IndexesRevised DEF Revised
<1>4. ASSUME NEW i \in 1..Len(ns), ms[i].complete PROVE ms[i].end = W[i].end
    <2>1. FinishedAs(ns, ms, i, at)
        BY <1>1
    <2>2. /\ ns[i].complete
          /\ ~(Truncated /\ ns[i].kind = "number" /\ ns[i].end >= WindowEnd)
        BY <1>4, <2>1 DEF FinishedAs
    <2>3. ~IsOpen(frames, i)
        <3>1. \A f \in 1..Len(frames) : ~ns[frames[f].node].complete
            BY DEF Stack
        <3> QED
            BY <2>2, <3>1 DEF IsOpen
    <2>4. ms[i].end = ns[i].end
        BY <2>1, <2>3 DEF FinishedAs
    <2>5. /\ ns[i].start < ns[i].end
          /\ ns[i].end = W[i].end \/ (ns[i].kind = "number" /\ ns[i].end = CutAt)
        BY <2>2 DEF AllExact, Exact
    <2>6. ns[i].start \in Nat /\ ns[i].end \in Nat
        <3>1. ns[i] \in NodeSet(W)
            OBVIOUS
        <3> QED
            BY <3>1 DEF NodeSet
    <2>7. ~(ns[i].kind = "number" /\ ns[i].end = CutAt)
        <3>1. CASE Truncated
            BY <2>2, <2>6, <3>1 DEF CutAt
        <3>2. CASE ~Truncated
            BY <2>5, <2>6, <3>2 DEF CutAt
        <3> QED
            BY <3>1, <3>2
    <2> QED
        BY <2>4, <2>5, <2>7
<1>5. ASSUME ~Truncated, NEW i \in 1..Len(ns) PROVE ms[i].complete = ns[i].complete
    <2>1. FinishedAs(ns, ms, i, at)
        BY <1>1
    <2>2. ms[i].complete <=> ns[i].complete
        BY <1>5, <2>1 DEF FinishedAs
    <2>3. ns[i] \in NodeSet(W) /\ ms[i] \in NodeSet(W)
        BY <1>1
    <2>4. ns[i].complete \in BOOLEAN /\ ms[i].complete \in BOOLEAN
        BY <2>3 DEF NodeSet
    <2> QED
        BY <2>2, <2>4
<1> QED
    BY <1>1, <1>3, <1>4, <1>5

(* However the scan ends, what it indexed so far is right.                    *)
LEMMA EndKeeps ==
    ASSUME ScanInv, mode # "done", NEW W, W = request.values,
           NEW why \in {"none", "syntax", "unexpected_end"} \cup LimitStops,
           NEW at \in Nat, NEW ns \in Seq(NodeSet(W)), End(why, at, ns),
           Indexes(W, ns), AllExact(W, ns, CutAt), Stack(W, frames, ns), at <= WindowEnd,
           \A f \in 1..Len(frames) : at <= W[frames[f].node].end,
           why = "syntax" => request.damaged,
           why = "unexpected_end" => (request.damaged \/ Truncated),
           why = "none" =>
              \/ Truncated
              \/ /\ Len(ns) = Len(W) /\ at = Len(request.letters) /\ ~request.damaged
                 /\ \A i \in 1..Len(ns) : ns[i].complete
    PROVE  ScanInv'
<1>1. /\ request \in Requests /\ limits \in Limits
      /\ value \in ValueSet(W) /\ name \in [start : Nat, end : Nat] /\ text \in Nat
      /\ frames \in Seq(FrameSet) /\ checkpoints \in Seq(PathSet(W))
    BY DEF ScanInv
<1>2. /\ request' = request /\ limits' = limits /\ mode' = "done" /\ stop' = why
      /\ value' = value /\ name' = name /\ text' = text /\ frames' = frames
      /\ path' = path /\ checkpoints' = checkpoints /\ cursor' = at
      /\ nodes' = Finish(ns, at)
    BY DEF End
<1>3. Family(W)
    BY Unpacked
<1>4. PICK ms : ms = Finish(ns, at)
    OBVIOUS
<1>5. /\ ms \in Seq(NodeSet(W)) /\ Len(ms) = Len(ns) /\ Indexes(W, ms)
      /\ \A i \in 1..Len(ms) : ms[i].complete => ms[i].end = W[i].end
      /\ ~Truncated => \A i \in 1..Len(ns) : ms[i].complete = ns[i].complete
    <2>1. \A f \in 1..Len(frames) : at <= W[frames[f].node].end
        OBVIOUS
    <2> QED
        BY ONLY <1>3, <1>4, <2>1, ns \in Seq(NodeSet(W)), Indexes(W, ns), AllExact(W, ns, CutAt),
                Stack(W, frames, ns), at \in Nat, FinishKeeps
<1>6. nodes' = ms /\ nodes' \in Seq(NodeSet(W))
    BY <1>2, <1>4, <1>5
<1>7. WindowEnd' = WindowEnd /\ (Truncated' <=> Truncated)
    BY <1>2, Unmoved
<1>8. stop' = "none" => \/ Truncated'
                        \/ /\ Len(nodes') = Len(W) /\ cursor' = Len(request'.letters)
                           /\ ~request'.damaged
                           /\ \A i \in 1..Len(nodes') : nodes'[i].complete
    <2>1. ASSUME why = "none", ~Truncated
          PROVE  /\ Len(ms) = Len(W) /\ at = Len(request.letters) /\ ~request.damaged
                 /\ \A i \in 1..Len(ms) : ms[i].complete
        BY <1>5, <2>1
    <2> QED
        BY <1>2, <1>6, <1>7, <2>1
<1>9. /\ stop' = "syntax" => request'.damaged
      /\ stop' = "unexpected_end" => (request'.damaged \/ Truncated')
    BY <1>2, <1>7
<1>10. Ended(W)'
    <2>1. /\ Indexes(W, nodes') /\ cursor' <= WindowEnd'
          /\ \A i \in 1..Len(nodes') : nodes'[i].complete => nodes'[i].end = W[i].end
        BY <1>2, <1>5, <1>6, <1>7
    <2> QED
        BY <1>8, <1>9, <2>1 DEF Ended
<1>11. W = request'.values /\ mode' \in Modes \cup {"done"} /\ cursor' \in Nat
    BY <1>2
<1>12. Ended(request.values)'
    <2>1. W = (request.values)'
        BY <1>2
    <2> QED
        BY <1>10, <2>1 DEF Ended
<1> QED
    BY <1>1, <1>2, <1>6, <1>11, <1>12 DEF ScanInv

(* A scan that stops before it reads anything more of the values.             *)
LEMMA StopKeeps ==
    ASSUME ScanInv, mode # "done",
           NEW why \in {"none", "syntax", "unexpected_end"} \cup LimitStops,
           End(why, cursor, nodes),
           why = "syntax" => request.damaged,
           why = "unexpected_end" => (request.damaged \/ Truncated),
           why = "none" =>
              \/ Truncated
              \/ /\ Len(nodes) = Len(request.values) /\ cursor = Len(request.letters)
                 /\ ~request.damaged
                 /\ \A i \in 1..Len(nodes) : nodes[i].complete
    PROVE  ScanInv'
<1> PICK W : W = request.values
    OBVIOUS
<1>1. /\ nodes \in Seq(NodeSet(W)) /\ Indexes(W, nodes) /\ AllExact(W, nodes, CutAt)
      /\ Stack(W, frames, nodes) /\ cursor \in Nat /\ cursor <= WindowEnd /\ Family(W)
      /\ frames \in Seq(FrameSet) /\ Inside(W, frames, cursor)
      /\ Len(nodes) \in Nat /\ Len(nodes) <= Len(W)
    BY Unpacked
<1>2. \A f \in 1..Len(frames) : cursor <= W[frames[f].node].end
    <2>1. \A f \in 1..Len(frames) : cursor < W[frames[f].node].end
        BY <1>1, AllInside
    <2>2. ASSUME NEW f \in 1..Len(frames) PROVE W[frames[f].node].end \in Nat
        <3>1. frames[f].node \in 1..Len(nodes)
            BY <1>1 DEF Stack
        <3>2. frames[f].node \in 1..Len(W)
            BY <1>1, <3>1, Len(W) \in Nat DEF Family
        <3> QED
            BY <1>1, <3>2 DEF Family, ValueType
    <2> QED
        BY <1>1, <2>1, <2>2
<1> QED
    BY <1>1, <1>2, EndKeeps

-----------------------------------------------------------------------------
(* The bounds of the analysis.                                                *)
LEMMA LimitsKeep ==
    ASSUME ScanInv, TooDeep \/ TooMany \/ Exhaust
    PROVE  ScanInv'
<1>1. mode # "done"
    BY DEF TooDeep, TooMany, Exhaust, ScalarEnds
<1>2. PICK why \in LimitStops : End(why, cursor, nodes)
    BY DEF TooDeep, TooMany, Exhaust, LimitStops
<1>3. why \notin {"none", "syntax", "unexpected_end"}
    BY <1>2 DEF LimitStops
<1> QED
    BY <1>1, <1>2, <1>3, StopKeeps

LEMMA WholeKeeps ==
    ASSUME ScanInv, Whole
    PROVE  ScanInv'
<1> PICK T, W : T = Source(request) /\ W = request.values
    OBVIOUS
<1>1. mode = "trailing" /\ mode # "done" /\ Peek = "end"
    BY DEF Whole
<1>2. /\ request \in Requests /\ limits \in Limits /\ mode \in Modes /\ stop = Unread
      /\ cursor \in Nat /\ name \in [start : Nat, end : Nat] /\ text \in Nat
      /\ value \in ValueSet(W) /\ nodes \in Seq(NodeSet(W)) /\ frames \in Seq(FrameSet)
      /\ checkpoints \in Seq(PathSet(W))
      /\ cursor <= Trusted(request) /\ cursor <= WindowEnd
      /\ WindowEnd \in Nat /\ Trusted(request) \in Nat
      /\ Len(nodes) \in Nat /\ Len(nodes) <= Len(W)
    BY <1>1, Unpacked
<1>3. /\ Wrote(T, W) /\ Family(W)
      /\ Indexes(W, nodes) /\ AllExact(W, nodes, CutAt) /\ Stack(W, frames, nodes)
      /\ Recalled(W, frames, checkpoints) /\ Inside(W, frames, cursor)
    BY <1>1, Unpacked
<1>4. /\ OpenOnly(frames, nodes, 0)
      /\ Doomed(W) \/ Placed(T, W, Len(nodes) + 1)
    <2>1. mode \notin Busy
        BY <1>1 DEF Busy
    <2> QED
        BY <1>1, <2>1, Unpacked
<1>5. End("none", cursor, nodes)
    BY DEF Whole
<1>6. frames = << >> /\ Len(nodes) = Len(W)
    <2>1. Len(nodes) + 1 - 1 = Len(nodes)
        BY <1>2
    <2> QED
        BY <1>1, <1>4, <2>1 DEF Placed, Doomed
<1>7. \A i \in 1..Len(nodes) : nodes[i].complete
    <2>1. ASSUME NEW i \in 1..Len(nodes) PROVE i # 0 /\ ~\E f \in 1..Len(frames) : frames[f].node = i
        BY <1>6
    <2> QED
        BY <1>4, <2>1 DEF OpenOnly
<1>8. Truncated \/ (cursor = Len(request.letters) /\ ~request.damaged)
    <2>1. Len(request.letters) \in Nat /\ limits.bytes \in Nat
        BY <1>2, SourceFacts, LimitsAssumption
    <2>2. CASE ~Truncated /\ Stuck
        <3>1. request.damaged /\ cursor = Trusted(request)
            BY <2>2 DEF Stuck
        <3>2. request.letters[cursor + 1] \in {"ctl", "bad"} /\ cursor < Len(request.letters)
            BY <1>2, <3>1, SourceFacts
        <3> QED
            BY <1>1, <1>2, <2>1, <2>2, <3>2 DEF Peek, WindowEnd, Truncated
    <2>3. CASE ~Truncated /\ ~Stuck
        <3>1. Blank(T, cursor, Len(T)) /\ Len(T) \in Nat
            BY <1>1, <1>2, <1>3, <1>4, <2>3 DEF Placed, Doomed, Wrote
        <3>2. cursor < Len(T) => T[cursor + 1] = "space"
            BY <1>2, <3>1, BlankStep
        <3>3. ~(cursor < Len(T) /\ Peek = T[cursor + 1])
            BY <1>1, <3>2
        <3>4. cursor = Len(request.letters)
            BY <1>2, <2>3, <3>3, PeekIs
        <3>5. ~request.damaged
            BY <1>2, <2>1, <3>4, SourceFacts
        <3> QED
            BY <3>4, <3>5
    <2> QED
        BY <2>2, <2>3
<1> QED
    BY <1>1, <1>5, <1>6, <1>7, <1>8, StopKeeps

-----------------------------------------------------------------------------
(***************************************************************************)
(* What the grammar does not admit.                                        *)
(***************************************************************************)
(* The string under the cursor, a label or the value read last.               *)
LEMMA StringIs ==
    ASSUME ScanInv, mode \in {"text", "escape"}
    PROVE  \E s, e \in Nat :
              /\ InString(Source(request), s, e, cursor, mode)
              /\ text # 0 => /\ text \in 1..Len(nodes) /\ Unfinished(nodes, text)
                             /\ e = request.values[text].end
<1> PICK T, W : T = Source(request) /\ W = request.values
    OBVIOUS
<1>1. mode # "done" /\ mode \in {"text", "escape"} /\ mode \in Busy /\ mode # "value" /\ mode # "next" /\ mode # "quote"
    BY DEF Busy
<1>2. /\ request \in Requests /\ limits \in Limits /\ mode \in Modes /\ stop = Unread
      /\ cursor \in Nat /\ name \in [start : Nat, end : Nat] /\ text \in Nat
      /\ value \in ValueSet(W) /\ nodes \in Seq(NodeSet(W)) /\ frames \in Seq(FrameSet)
      /\ checkpoints \in Seq(PathSet(W))
      /\ cursor <= Trusted(request) /\ cursor <= WindowEnd
      /\ WindowEnd \in Nat /\ Trusted(request) \in Nat
      /\ Len(nodes) \in Nat /\ Len(nodes) <= Len(W)
    BY <1>1, Unpacked
<1>3. /\ Wrote(T, W) /\ Family(W)
      /\ Indexes(W, nodes) /\ AllExact(W, nodes, CutAt) /\ Stack(W, frames, nodes)
      /\ Recalled(W, frames, checkpoints) /\ Inside(W, frames, cursor)
    BY <1>1, Unpacked
<1>4. /\ OpenOnly(frames, nodes, text)
      /\ Doomed(W) \/ Placed(T, W, Len(nodes) + 1)
    <2>1. mode \in Busy
        BY <1>1 DEF Busy
    <2> QED
        BY <1>1, <2>1, Unpacked
<1>5. Placed(T, W, Len(nodes) + 1)
    BY <1>1, <1>4 DEF Doomed
<1>6. CASE text = 0
    <2>1. PICK k \in Nat : k = Len(nodes) + 1
        BY <1>2
    <2>2. /\ frames # << >> /\ Due(W, frames, k)
          /\ InString(T, W[k].label.start, W[k].label.end, cursor, mode)
        BY <1>1, <1>5, <1>6, <2>1 DEF Placed
    <2>3. W[k].label.start \in Nat /\ W[k].label.end \in Nat
        BY <1>3, <2>2, NextChildIs
    <2> QED
        BY <1>6, <2>2, <2>3
<1>7. CASE text # 0
    <2>1. Len(nodes) + 1 - 1 = Len(nodes)
        BY <1>2
    <2>2. /\ Len(nodes) + 1 > 1 /\ text = Len(nodes)
          /\ ~nodes[Len(nodes)].complete
          /\ InString(T, W[Len(nodes)].start, W[Len(nodes)].end, cursor, mode)
        BY <1>1, <1>5, <1>7, <2>1 DEF Placed
    <2>3. text \in 1..Len(nodes) /\ text \in 1..Len(W)
        BY <1>2, <2>2
    <2>4. W[text].start \in Nat /\ W[text].end \in Nat
        BY <1>3, <2>3, NotASpace
    <2> QED
        BY <2>2, <2>3, <2>4 DEF Unfinished
<1> QED
    BY <1>6, <1>7

(* What its sender wrote in a string is admitted in it.                       *)
LEMMA StringGoesOn ==
    ASSUME ScanInv, mode \in {"text", "escape"}, ~Stuck
    PROVE  /\ Peek # "end"
           /\ mode = "text" => Peek \notin {"ctl", "bad"}
           /\ mode = "escape" => Peek \notin Unescapable
<1> PICK T, W : T = Source(request) /\ W = request.values
    OBVIOUS
<1>1. mode # "done" /\ mode \in {"text", "escape"} /\ mode \in Busy
    BY DEF Busy
<1>2. /\ request \in Requests /\ limits \in Limits /\ mode \in Modes /\ stop = Unread
      /\ cursor \in Nat /\ name \in [start : Nat, end : Nat] /\ text \in Nat
      /\ value \in ValueSet(W) /\ nodes \in Seq(NodeSet(W)) /\ frames \in Seq(FrameSet)
      /\ checkpoints \in Seq(PathSet(W))
      /\ cursor <= Trusted(request) /\ cursor <= WindowEnd
      /\ WindowEnd \in Nat /\ Trusted(request) \in Nat
      /\ Len(nodes) \in Nat /\ Len(nodes) <= Len(W)
    BY <1>1, Unpacked
<1>3. /\ Wrote(T, W) /\ Family(W)
      /\ Indexes(W, nodes) /\ AllExact(W, nodes, CutAt) /\ Stack(W, frames, nodes)
      /\ Recalled(W, frames, checkpoints) /\ Inside(W, frames, cursor)
    BY <1>1, Unpacked
<1>4. /\ OpenOnly(frames, nodes, text)
      /\ Doomed(W) \/ Placed(T, W, Len(nodes) + 1)
    <2>1. mode \in Busy
        BY <1>1 DEF Busy
    <2> QED
        BY <1>1, <2>1, Unpacked
<1>5. PICK s \in Nat, e \in Nat : InString(T, s, e, cursor, mode)
    BY StringIs
<1>6. PICK c \in Nat, m \in {"text", "escape"} : c = cursor /\ m = mode
    BY <1>1, <1>2
<1>7. InString(T, s, e, c, m)
    BY <1>5, <1>6
<1>8. /\ c < e /\ e <= Len(T)
      /\ m = "escape" => T[c + 1] \notin Unescapable
      /\ m = "text" => \/ T[c + 1] = Quote
                       \/ T[c + 1] = Escape
                       \/ T[c + 1] \notin {Quote, Escape, "ctl", "bad", "end"}
    BY <1>7, StringStep
<1>9. Len(T) \in Nat
    BY <1>3 DEF Wrote
<1>10. cursor < Len(T)
    BY <1>6, <1>8, <1>9
<1>11. Peek = T[cursor + 1]
    BY <1>2, <1>10, PeekIs
<1>12. "end" \in Unescapable
    BY DEF Unescapable
<1> QED
    BY <1>1, <1>6, <1>8, <1>11, <1>12 DEF Quote, Escape

LEMMA RefuseByteKeeps ==
    ASSUME ScanInv, RefuseByte
    PROVE  ScanInv'
<1> PICK T, W : T = Source(request) /\ W = request.values
    OBVIOUS
<1>1. mode # "done" /\ mode \in {"text", "escape"} /\ mode \in Busy
    BY DEF RefuseByte, Busy
<1>2. /\ request \in Requests /\ limits \in Limits /\ mode \in Modes /\ stop = Unread
      /\ cursor \in Nat /\ name \in [start : Nat, end : Nat] /\ text \in Nat
      /\ value \in ValueSet(W) /\ nodes \in Seq(NodeSet(W)) /\ frames \in Seq(FrameSet)
      /\ checkpoints \in Seq(PathSet(W))
      /\ cursor <= Trusted(request) /\ cursor <= WindowEnd
      /\ WindowEnd \in Nat /\ Trusted(request) \in Nat
      /\ Len(nodes) \in Nat /\ Len(nodes) <= Len(W)
    BY <1>1, Unpacked
<1>3. /\ Wrote(T, W) /\ Family(W)
      /\ Indexes(W, nodes) /\ AllExact(W, nodes, CutAt) /\ Stack(W, frames, nodes)
      /\ Recalled(W, frames, checkpoints) /\ Inside(W, frames, cursor)
    BY <1>1, Unpacked
<1>4. /\ OpenOnly(frames, nodes, text)
      /\ Doomed(W) \/ Placed(T, W, Len(nodes) + 1)
    <2>1. mode \in Busy
        BY <1>1 DEF Busy
    <2> QED
        BY <1>1, <2>1, Unpacked
<1>5. PICK ns \in {nodes, Grown} : End("syntax", cursor + 1, ns)
    BY DEF RefuseByte
<1>6. Peek # "end" /\ (mode = "text" => Peek \in {"ctl", "bad"}) /\ (mode = "escape" => Peek \in Unescapable)
    <2>1. "bad" \in Unescapable
        BY DEF Unescapable
    <2> QED
        BY <1>1, <2>1 DEF RefuseByte
<1>7. Stuck
    BY <1>1, <1>6, StringGoesOn
<1>8. request.damaged
    BY <1>2, <1>6, <1>7, PeekIs
<1>9. cursor + 1 <= WindowEnd /\ cursor + 1 \in Nat
    BY <1>2, <1>6 DEF Peek
<1>10. \A f \in 1..Len(frames) : cursor + 1 <= W[frames[f].node].end
    <2>1. \A f \in 1..Len(frames) : cursor < W[frames[f].node].end
        BY <1>2, <1>3, AllInside
    <2>2. ASSUME NEW f \in 1..Len(frames) PROVE W[frames[f].node].end \in Nat
        <3>1. frames[f].node \in 1..Len(nodes)
            BY <1>3 DEF Stack
        <3>2. frames[f].node \in 1..Len(W)
            <4>1. Len(nodes) \in Nat /\ Len(W) \in Nat /\ Len(nodes) <= Len(W)
                BY <1>2, <1>3 DEF Family
            <4> QED
                BY ONLY <3>1, <4>1
        <3> QED
            BY <1>3, <3>2 DEF Family, ValueType
    <2>3. ASSUME NEW e \in Nat, cursor < e PROVE cursor + 1 <= e
        BY <1>2, <2>3
    <2> QED
        BY <2>1, <2>2, <2>3
<1>11. /\ ns \in Seq(NodeSet(W)) /\ Indexes(W, ns) /\ AllExact(W, ns, CutAt)
       /\ Stack(W, frames, ns)
    <2>1. CASE ns = nodes
        BY <1>2, <1>3, <2>1
    <2>2. CASE ns # nodes
        <3>1. text # 0 /\ ns = [nodes EXCEPT ![text].end = cursor + 1]
            BY <1>5, <2>2 DEF Grown
        <3>2. PICK s \in Nat, e \in Nat : /\ InString(T, s, e, cursor, mode)
                                          /\ text \in 1..Len(nodes) /\ Unfinished(nodes, text)
                                          /\ e = W[text].end
            BY <1>1, <3>1, StringIs
        <3>3. cursor + 1 <= W[text].end
            <4>1. cursor < e
                BY <3>2 DEF InString
            <4> QED
                BY <1>2, <3>2, <4>1
        <3>4. PICK k \in 1..Len(nodes), c \in Nat : k = text /\ c = cursor + 1
            BY <1>9, <3>2
        <3>5. ns = [nodes EXCEPT ![k].end = c] /\ Unfinished(nodes, k) /\ c <= W[k].end
            BY <3>1, <3>2, <3>3, <3>4
        <3>6. ns \in Seq(NodeSet(W)) /\ Grew(nodes, ns, k, c)
            BY <1>2, <3>5, GrowsThus
        <3> QED
            BY <1>2, <1>3, <3>5, <3>6, MovedIndexes, GrownExact, GrownStack DEF Grew
    <2> QED
        BY <2>1, <2>2
<1> HIDE DEF ScanInv
<1>12. "syntax" \in {"none", "syntax", "unexpected_end"} \cup LimitStops
    OBVIOUS
<1> QED
    BY <1>1, <1>5, <1>8, <1>9, <1>10, <1>11, <1>12, EndKeeps

(* A cut literal is no literal, and its sender wrote a whole one.             *)
LEMMA RefuseLiteralKeeps ==
    ASSUME ScanInv, RefuseLiteral
    PROVE  ScanInv'
<1> PICK T, W : T = Source(request) /\ W = request.values
    OBVIOUS
<1>1. mode # "done" /\ mode = "value" /\ Peek = "tr"
    BY DEF RefuseLiteral
<1>2. /\ request \in Requests /\ limits \in Limits /\ mode \in Modes /\ stop = Unread
      /\ cursor \in Nat /\ name \in [start : Nat, end : Nat] /\ text \in Nat
      /\ value \in ValueSet(W) /\ nodes \in Seq(NodeSet(W)) /\ frames \in Seq(FrameSet)
      /\ checkpoints \in Seq(PathSet(W))
      /\ cursor <= Trusted(request) /\ cursor <= WindowEnd
      /\ WindowEnd \in Nat /\ Trusted(request) \in Nat
      /\ Len(nodes) \in Nat /\ Len(nodes) <= Len(W)
    BY <1>1, Unpacked
<1>3. /\ Wrote(T, W) /\ Family(W)
      /\ Indexes(W, nodes) /\ AllExact(W, nodes, CutAt) /\ Stack(W, frames, nodes)
      /\ Recalled(W, frames, checkpoints) /\ Inside(W, frames, cursor)
    BY <1>1, Unpacked
<1>4. /\ OpenOnly(frames, nodes, 0)
      /\ Doomed(W) \/ Placed(T, W, Len(nodes) + 1)
    <2>1. mode \notin Busy
        BY <1>1 DEF Busy
    <2> QED
        BY <1>1, <2>1, Unpacked
<1>5. /\ cursor < Trusted(request) /\ cursor < WindowEnd
      /\ Peek = T[cursor + 1] /\ cursor = W[Len(nodes) + 1].start
      /\ Len(nodes) + 1 \in 1..Len(W)
    BY <1>1, AtValue
<1>6. PICK i \in 1..Len(W) : i = Len(nodes) + 1
    BY <1>5
<1>7. W[i].kind = "literal"
    BY <1>1, <1>3, <1>5, <1>6, KindIs
<1>8. /\ W[i].end = W[i].start + 2 /\ T[W[i].end] = "ue" /\ W[i].end <= Len(T)
      /\ W[i].start \in Nat
    <2>1. SentAs(T, W) /\ Len(W) \in Nat /\ Len(T) \in Nat
        BY <1>3 DEF Wrote
    <2>2. W[i].start \in Nat
        BY <1>3, NotASpace
    <2> QED
        BY <1>7, <2>1, <2>2, FirstLetters
<1>9. cursor + 2 <= Len(T) /\ T[cursor + 2] = "ue"
    BY <1>5, <1>6, <1>8
<1>10. request.damaged \/ (Len(request.letters) = Len(T) /\ Trusted(request) = Len(T)
                           /\ request.letters[cursor + 2] = T[cursor + 2])
    <2>1. /\ ~request.damaged => /\ Trusted(request) = Len(T)
                                 /\ Len(request.letters) = Len(T)
          /\ \A p \in 1..Trusted(request) : request.letters[p] = T[p]
        BY <1>2, SourceFacts
    <2> QED
        BY <1>2, <1>9, <2>1
<1>11. Len(request.letters) \in Nat /\ limits.bytes \in Nat
    BY <1>2, SourceFacts, LimitsAssumption
<1>12. CASE cursor + 2 > WindowEnd /\ End("unexpected_end", cursor, nodes)
    <2>1. request.damaged \/ Truncated
        BY <1>2, <1>9, <1>10, <1>11, <1>12 DEF WindowEnd, Truncated
    <2> QED
        BY <1>1, <1>12, <2>1, StopKeeps
<1>13. CASE cursor + 2 <= WindowEnd /\ request.letters[cursor + 2] # "ue" /\ End("syntax", cursor, nodes)
    <2>1. request.damaged
        BY <1>9, <1>10, <1>13
    <2> QED
        BY <1>1, <1>13, <2>1, StopKeeps
<1> QED
    BY <1>12, <1>13 DEF RefuseLiteral

(* Mode by mode, what a sender's letters are where the scan looks.            *)
LEMMA ValueLetter ==
    ASSUME ScanInv, mode = "value", ~Stuck
    PROVE  Peek \in {"lbrace", "lbracket", Quote, "1", "tr"}
<1> PICK T, W : T = Source(request) /\ W = request.values
    OBVIOUS
<1>1. mode # "done" /\ mode = "value"
    BY DEF Busy
<1>2. /\ request \in Requests /\ limits \in Limits /\ mode \in Modes /\ stop = Unread
      /\ cursor \in Nat /\ name \in [start : Nat, end : Nat] /\ text \in Nat
      /\ value \in ValueSet(W) /\ nodes \in Seq(NodeSet(W)) /\ frames \in Seq(FrameSet)
      /\ checkpoints \in Seq(PathSet(W))
      /\ cursor <= Trusted(request) /\ cursor <= WindowEnd
      /\ WindowEnd \in Nat /\ Trusted(request) \in Nat
      /\ Len(nodes) \in Nat /\ Len(nodes) <= Len(W)
    BY <1>1, Unpacked
<1>3. /\ Wrote(T, W) /\ Family(W)
      /\ Indexes(W, nodes) /\ AllExact(W, nodes, CutAt) /\ Stack(W, frames, nodes)
      /\ Recalled(W, frames, checkpoints) /\ Inside(W, frames, cursor)
    BY <1>1, Unpacked
<1>4. /\ OpenOnly(frames, nodes, 0)
      /\ Doomed(W) \/ Placed(T, W, Len(nodes) + 1)
    <2>1. mode \notin Busy
        BY <1>1 DEF Busy
    <2> QED
        BY <1>1, <2>1, Unpacked
<1>5. PICK i \in Nat : i = Len(nodes) + 1
    BY <1>2
<1>6. cursor = W[i].start /\ i <= Len(W)
    BY <1>1, <1>4, <1>5 DEF Placed, Doomed, Knows, Due
<1>7. i \in 1..Len(W)
    BY <1>2, <1>5, <1>6
<1>8. W[i].start < Len(T)
    <2>1. SentAs(T, W) /\ Len(W) \in Nat /\ Len(T) \in Nat
        BY <1>3 DEF Wrote
    <2> QED
        BY <1>7, <2>1, FirstLetters
<1>9. T[cursor + 1] \in {"quote", "1", "tr", "lbrace", "lbracket"}
    BY <1>3, <1>6, <1>7, NotASpace
<1>10. Peek = T[cursor + 1]
    <2>1. cursor # Len(Source(request))
        <3>1. W[i].start \in Nat /\ Len(T) \in Nat
            BY <1>3, <1>7, NotASpace DEF Wrote
        <3> QED
            BY <1>6, <1>8, <3>1
    <2> QED
        BY <1>2, <2>1, PeekIs
<1> QED
    BY <1>9, <1>10 DEF Quote

(* Inside a container there is more to read.                                  *)
LEMMA MoreInside ==
    ASSUME ScanInv, mode # "done", frames # << >>, ~Stuck
    PROVE  LET T == Source(request)
           IN  cursor < Len(T) /\ Peek = T[cursor + 1]
<1> PICK T, W : T = Source(request) /\ W = request.values
    OBVIOUS
<1>1. /\ request \in Requests /\ limits \in Limits /\ cursor \in Nat
      /\ cursor <= Trusted(request) /\ cursor <= WindowEnd
      /\ nodes \in Seq(NodeSet(W)) /\ frames \in Seq(FrameSet)
      /\ Len(nodes) \in Nat /\ Len(nodes) <= Len(W)
    BY Unpacked
<1>2. Wrote(T, W) /\ Family(W) /\ Stack(W, frames, nodes) /\ Inside(W, frames, cursor)
    BY Unpacked
<1>3. PICK k : k = frames[Len(frames)].node
    OBVIOUS
<1>4. k \in 1..Len(W)
    BY <1>1, <1>2, <1>3, TopIs
<1>5. cursor < W[k].end
    BY <1>2, <1>3 DEF Inside
<1>6. W[k].end <= Len(T) /\ W[k].end \in Nat /\ Len(T) \in Nat
    <2>1. SentAs(T, W) /\ Len(W) \in Nat /\ Len(T) \in Nat
        BY <1>2 DEF Wrote
    <2>2. W[k].end \in Nat
        BY <1>2, <1>4, NotASpace
    <2> QED
        BY <1>4, <2>1, <2>2, FirstLetters
<1>7. cursor < Len(T)
    BY <1>1, <1>5, <1>6
<1> QED
    BY <1>1, <1>7, PeekIs

LEMMA FrameLetter ==
    ASSUME ScanInv, mode = "frame", ~Stuck
    PROVE  /\ Peek \in {"space", Closes[Top.kind], "comma", "quote", "1", "tr", "lbrace", "lbracket"}
           /\ Peek = "comma" => Top.children > 0
           /\ Peek \in {"quote", "1", "tr", "lbrace", "lbracket"} => Top.children = 0
           /\ Closes[Top.kind] \in {"rbrace", "rbracket"} /\ Top.children \in Nat
<1> PICK T, W : T = Source(request) /\ W = request.values
    OBVIOUS
<1>1. mode # "done" /\ mode = "frame"
    BY DEF Busy
<1>2. /\ request \in Requests /\ limits \in Limits /\ mode \in Modes /\ stop = Unread
      /\ cursor \in Nat /\ name \in [start : Nat, end : Nat] /\ text \in Nat
      /\ value \in ValueSet(W) /\ nodes \in Seq(NodeSet(W)) /\ frames \in Seq(FrameSet)
      /\ checkpoints \in Seq(PathSet(W))
      /\ cursor <= Trusted(request) /\ cursor <= WindowEnd
      /\ WindowEnd \in Nat /\ Trusted(request) \in Nat
      /\ Len(nodes) \in Nat /\ Len(nodes) <= Len(W)
    BY <1>1, Unpacked
<1>3. /\ Wrote(T, W) /\ Family(W)
      /\ Indexes(W, nodes) /\ AllExact(W, nodes, CutAt) /\ Stack(W, frames, nodes)
      /\ Recalled(W, frames, checkpoints) /\ Inside(W, frames, cursor)
    BY <1>1, Unpacked
<1>4. /\ OpenOnly(frames, nodes, 0)
      /\ Doomed(W) \/ Placed(T, W, Len(nodes) + 1)
    <2>1. mode \notin Busy
        BY <1>1 DEF Busy
    <2> QED
        BY <1>1, <2>1, Unpacked
<1>5. frames # << >> /\ Ahead(T, W, frames, Len(nodes), cursor)
    <2>1. Len(nodes) + 1 - 1 = Len(nodes)
        BY <1>2
    <2> QED
        BY <1>1, <1>4, <2>1 DEF Placed, Doomed, Stuck
<1> DEFINE top == frames[Len(frames)]
<1>6. /\ top.kind \in Containers /\ Closes[top.kind] \in {"rbrace", "rbracket"}
      /\ top.children \in Nat
    <2>1. top.kind \in Containers /\ top.children \in Nat
        BY <1>2, <1>5, FramesAre
    <2> QED
        BY <2>1 DEF Closes, Containers
<1>7. \/ T[cursor + 1] = "space"
      \/ T[cursor + 1] = Closes[top.kind]
      \/ top.children = 0 /\ T[cursor + 1] \in {"quote", "1", "tr", "lbrace", "lbracket"}
      \/ top.children > 0 /\ T[cursor + 1] = "comma"
    BY <1>2, <1>3, <1>5, AheadIs
<1>8. Peek = T[cursor + 1]
    BY <1>1, <1>5, MoreInside
<1> QED
    BY <1>6, <1>7, <1>8 DEF Top

LEMMA NextLetter ==
    ASSUME ScanInv, mode = "next", ~Stuck
    PROVE  /\ Peek \in {"space", "quote", "1", "tr", "lbrace", "lbracket"}
           /\ Peek # "space" /\ Top.kind = "object" => Peek = "quote"
<1> PICK T, W : T = Source(request) /\ W = request.values
    OBVIOUS
<1>1. mode # "done" /\ mode = "next"
    BY DEF Busy
<1>2. /\ request \in Requests /\ limits \in Limits /\ mode \in Modes /\ stop = Unread
      /\ cursor \in Nat /\ name \in [start : Nat, end : Nat] /\ text \in Nat
      /\ value \in ValueSet(W) /\ nodes \in Seq(NodeSet(W)) /\ frames \in Seq(FrameSet)
      /\ checkpoints \in Seq(PathSet(W))
      /\ cursor <= Trusted(request) /\ cursor <= WindowEnd
      /\ WindowEnd \in Nat /\ Trusted(request) \in Nat
      /\ Len(nodes) \in Nat /\ Len(nodes) <= Len(W)
    BY <1>1, Unpacked
<1>3. /\ Wrote(T, W) /\ Family(W)
      /\ Indexes(W, nodes) /\ AllExact(W, nodes, CutAt) /\ Stack(W, frames, nodes)
      /\ Recalled(W, frames, checkpoints) /\ Inside(W, frames, cursor)
    BY <1>1, Unpacked
<1>4. /\ OpenOnly(frames, nodes, 0)
      /\ Doomed(W) \/ Placed(T, W, Len(nodes) + 1)
    <2>1. mode \notin Busy
        BY <1>1 DEF Busy
    <2> QED
        BY <1>1, <2>1, Unpacked
<1>5. PICK i \in Nat : i = Len(nodes) + 1
    BY <1>2
<1>6. frames # << >> /\ Due(W, frames, i) /\ Blank(T, cursor, W[i].label.start)
    BY <1>1, <1>4, <1>5 DEF Placed, Doomed
<1>7. Peek = T[cursor + 1]
    BY <1>1, <1>6, MoreInside
<1>8. /\ i \in 2..Len(W) /\ W[i].parent = frames[Len(frames)].node
      /\ W[i].label.start \in Nat
      /\ T[W[i].label.start + 1] \in {"quote", "1", "tr", "lbrace", "lbracket"}
    <2>1. Wrote(T, W) /\ Family(W) /\ frames # << >> /\ Due(W, frames, i)
        BY <1>3, <1>6
    <2>2. i \in 2..Len(W) /\ W[i].parent = frames[Len(frames)].node
        BY <2>1 DEF Due, Wrote
    <2>3. W[i].label.start \in Nat
        BY <2>1, NextChildIs
    <2>4. T[W[i].label.start + 1] \in {"quote", "1", "tr", "lbrace", "lbracket"}
        BY <1>3, <2>2, ChildFacts
    <2> QED
        BY <2>2, <2>3, <2>4
<1>9. Top.kind = "object" => T[W[i].label.start + 1] = "quote"
    <2>1. frames[Len(frames)].kind = W[frames[Len(frames)].node].kind
        BY <1>2, <1>3, <1>6, TopIs
    <2>2. W[W[i].parent].kind = "object" => T[W[i].label.start + 1] = "quote"
        BY <1>3, <1>8, ChildFacts
    <2> QED
        BY <1>8, <2>1, <2>2 DEF Top
<1>10. PICK l \in Nat, c \in Nat : l = W[i].label.start /\ c = cursor
    BY <1>2, <1>8
<1>11. cursor = l \/ T[cursor + 1] = "space"
    <2>1. Blank(T, c, l)
        BY <1>6, <1>10
    <2>2. c <= l /\ (c < l => T[c + 1] = "space")
        BY <2>1, BlankStep
    <2> QED
        BY <1>10, <2>2
<1> QED
    BY <1>7, <1>8, <1>9, <1>10, <1>11

LEMMA ColonLetter ==
    ASSUME ScanInv, mode = "colon", ~Stuck
    PROVE  Peek \in {"space", ":"}
<1> PICK T, W : T = Source(request) /\ W = request.values
    OBVIOUS
<1>1. mode # "done" /\ mode = "colon"
    BY DEF Busy
<1>2. /\ request \in Requests /\ limits \in Limits /\ mode \in Modes /\ stop = Unread
      /\ cursor \in Nat /\ name \in [start : Nat, end : Nat] /\ text \in Nat
      /\ value \in ValueSet(W) /\ nodes \in Seq(NodeSet(W)) /\ frames \in Seq(FrameSet)
      /\ checkpoints \in Seq(PathSet(W))
      /\ cursor <= Trusted(request) /\ cursor <= WindowEnd
      /\ WindowEnd \in Nat /\ Trusted(request) \in Nat
      /\ Len(nodes) \in Nat /\ Len(nodes) <= Len(W)
    BY <1>1, Unpacked
<1>3. /\ Wrote(T, W) /\ Family(W)
      /\ Indexes(W, nodes) /\ AllExact(W, nodes, CutAt) /\ Stack(W, frames, nodes)
      /\ Recalled(W, frames, checkpoints) /\ Inside(W, frames, cursor)
    BY <1>1, Unpacked
<1>4. /\ OpenOnly(frames, nodes, 0)
      /\ Doomed(W) \/ Placed(T, W, Len(nodes) + 1)
    <2>1. mode \notin Busy
        BY <1>1 DEF Busy
    <2> QED
        BY <1>1, <2>1, Unpacked
<1>5. PICK i \in Nat : i = Len(nodes) + 1
    BY <1>2
<1>6. frames # << >> /\ Due(W, frames, i) /\ Mark(T, cursor, W[i].start, ":")
    BY <1>1, <1>4, <1>5 DEF Placed, Doomed
<1>7. Peek = T[cursor + 1]
    BY <1>1, <1>6, MoreInside
<1>8. PICK s \in Nat : s = W[i].start
    BY <1>3, <1>6, NextChildIs
<1>9. T[cursor + 1] \in {"space", ":"}
    BY <1>2, <1>6, <1>8, MarkStep
<1> QED
    BY <1>7, <1>9

LEMMA PointLetter ==
    ASSUME ScanInv, mode = "point", ~Stuck
    PROVE  Peek = "1"
<1> PICK T, W : T = Source(request) /\ W = request.values
    OBVIOUS
<1>1. mode # "done" /\ mode = "point"
    BY DEF Busy
<1>2. /\ request \in Requests /\ limits \in Limits /\ mode \in Modes /\ stop = Unread
      /\ cursor \in Nat /\ name \in [start : Nat, end : Nat] /\ text \in Nat
      /\ value \in ValueSet(W) /\ nodes \in Seq(NodeSet(W)) /\ frames \in Seq(FrameSet)
      /\ checkpoints \in Seq(PathSet(W))
      /\ cursor <= Trusted(request) /\ cursor <= WindowEnd
      /\ WindowEnd \in Nat /\ Trusted(request) \in Nat
      /\ Len(nodes) \in Nat /\ Len(nodes) <= Len(W)
    BY <1>1, Unpacked
<1>3. /\ Wrote(T, W) /\ Family(W)
      /\ Indexes(W, nodes) /\ AllExact(W, nodes, CutAt) /\ Stack(W, frames, nodes)
      /\ Recalled(W, frames, checkpoints) /\ Inside(W, frames, cursor)
    BY <1>1, Unpacked
<1>4. /\ OpenOnly(frames, nodes, 0)
      /\ Doomed(W) \/ Placed(T, W, Len(nodes) + 1)
    <2>1. mode \notin Busy
        BY <1>1 DEF Busy
    <2> QED
        BY <1>1, <2>1, Unpacked
<1>5. PICK i \in Nat : i = Len(nodes) + 1
    BY <1>2
<1>6. i \in 1..Len(W) /\ InNumber(T, W[i].start, W[i].end, cursor, "point")
    <2>1. i <= Len(W) /\ InNumber(T, W[i].start, W[i].end, cursor, "point")
        BY <1>1, <1>4, <1>5 DEF Placed, Doomed, Knows, Due, Numeric
    <2> QED
        BY <1>2, <1>5, <2>1
<1>7. PICK s \in Nat, e \in Nat : s = W[i].start /\ e = W[i].end
    BY <1>3, <1>6, NotASpace
<1>8. cursor < e /\ T[cursor + 1] = "1"
    <2>1. PICK c \in Nat, m \in Numeric : c = cursor /\ m = "point"
        BY <1>2 DEF Numeric
    <2>2. InNumber(T, s, e, c, m)
        BY <1>6, <1>7, <2>1
    <2>3. c < e /\ T[c + 1] = "1"
        BY <2>1, <2>2, NumberStep
    <2> QED
        BY <2>1, <2>3
<1>9. e <= Len(T) /\ Len(T) \in Nat
    <2>1. SentAs(T, W) /\ Len(W) \in Nat /\ Len(T) \in Nat
        BY <1>3 DEF Wrote
    <2> QED
        BY <1>6, <1>7, <2>1, FirstLetters
<1>10. Peek = T[cursor + 1]
    BY <1>2, <1>8, <1>9, PeekIs
<1> QED
    BY <1>8, <1>10

LEMMA TrailingLetter ==
    ASSUME ScanInv, mode = "trailing", ~Stuck
    PROVE  Peek \in {"space", "end"}
<1> PICK T, W : T = Source(request) /\ W = request.values
    OBVIOUS
<1>1. mode # "done" /\ mode = "trailing"
    BY DEF Busy
<1>2. /\ request \in Requests /\ limits \in Limits /\ mode \in Modes /\ stop = Unread
      /\ cursor \in Nat /\ name \in [start : Nat, end : Nat] /\ text \in Nat
      /\ value \in ValueSet(W) /\ nodes \in Seq(NodeSet(W)) /\ frames \in Seq(FrameSet)
      /\ checkpoints \in Seq(PathSet(W))
      /\ cursor <= Trusted(request) /\ cursor <= WindowEnd
      /\ WindowEnd \in Nat /\ Trusted(request) \in Nat
      /\ Len(nodes) \in Nat /\ Len(nodes) <= Len(W)
    BY <1>1, Unpacked
<1>3. /\ Wrote(T, W) /\ Family(W)
      /\ Indexes(W, nodes) /\ AllExact(W, nodes, CutAt) /\ Stack(W, frames, nodes)
      /\ Recalled(W, frames, checkpoints) /\ Inside(W, frames, cursor)
    BY <1>1, Unpacked
<1>4. /\ OpenOnly(frames, nodes, 0)
      /\ Doomed(W) \/ Placed(T, W, Len(nodes) + 1)
    <2>1. mode \notin Busy
        BY <1>1 DEF Busy
    <2> QED
        BY <1>1, <2>1, Unpacked
<1>5. Blank(T, cursor, Len(T)) /\ Len(T) \in Nat
    BY <1>1, <1>3, <1>4 DEF Placed, Doomed, Stuck, Wrote
<1>6. cursor < Len(T) => T[cursor + 1] = "space"
    BY <1>2, <1>5, BlankStep
<1> QED
    BY <1>2, <1>6, PeekIs

(* What may be refused is refused of what was damaged or cut.                 *)
LEMMA AdmittedIs ==
    /\ mode = "value" => Admitted = {"lbrace", "lbracket", Quote, "1", "tr"}
    /\ mode = "frame" => /\ Closes[Top.kind] \in Admitted
                         /\ Top.children > 0 => "comma" \in Admitted
                         /\ ~(Top.children > 0) => Peek \in Admitted
    /\ mode = "next" => /\ Top.kind = "object" => Quote \in Admitted
                        /\ Top.kind # "object" => Peek \in Admitted
    /\ mode = "colon" => ":" \in Admitted
    /\ mode = "point" => "1" \in Admitted
    /\ mode = "trailing" => "end" \in Admitted
    /\ mode \notin {"value", "frame", "next", "colon", "point", "trailing"} => Peek \in Admitted
<1>1. mode = "value" => Admitted = {"lbrace", "lbracket", Quote, "1", "tr"}
    BY DEF Admitted
<1>2. mode = "frame" => /\ Closes[Top.kind] \in Admitted
                        /\ Top.children > 0 => "comma" \in Admitted
                        /\ ~(Top.children > 0) => Peek \in Admitted
    BY DEF Admitted
<1>3. mode = "next" => /\ Top.kind = "object" => Quote \in Admitted
                       /\ Top.kind # "object" => Peek \in Admitted
    BY DEF Admitted
<1>4. /\ mode = "colon" => ":" \in Admitted
      /\ mode = "point" => "1" \in Admitted
      /\ mode = "trailing" => "end" \in Admitted
    BY DEF Admitted
<1>5. mode \notin {"value", "frame", "next", "colon", "point", "trailing"} => Peek \in Admitted
    BY DEF Admitted
<1> QED
    BY <1>1, <1>2, <1>3, <1>4, <1>5

LEMMA RefusedIsStuck ==
    ASSUME ScanInv, mode # "done", Refuse
    PROVE  Stuck
<1> SUFFICES ASSUME ~Stuck PROVE FALSE
    OBVIOUS
<1>1. /\ mode \notin SpaceModes \/ Peek # "space"
      /\ \/ Peek \notin Admitted
         \/ Peek = "end" /\ mode \in {"frame", "text", "escape"}
    BY DEF Refuse, Spaces
<1>2. CASE mode = "value"
    BY <1>1, <1>2, ValueLetter, AdmittedIs
<1>3. CASE mode = "frame"
    <2>1. Peek # "space"
        BY <1>1, <1>3 DEF SpaceModes
    <2> QED
        BY <1>1, <1>3, <2>1, FrameLetter, AdmittedIs
<1>4. CASE mode = "next"
    <2>1. Peek # "space"
        BY <1>1, <1>4 DEF SpaceModes
    <2> QED
        BY <1>1, <1>4, <2>1, NextLetter, AdmittedIs DEF Quote
<1>5. CASE mode = "colon"
    <2>1. Peek # "space"
        BY <1>1, <1>5 DEF SpaceModes
    <2> QED
        BY <1>1, <1>5, <2>1, ColonLetter, AdmittedIs
<1>6. CASE mode = "point"
    BY <1>1, <1>6, PointLetter, AdmittedIs
<1>7. CASE mode = "trailing"
    <2>1. Peek # "space"
        BY <1>1, <1>7 DEF SpaceModes
    <2> QED
        BY <1>1, <1>7, <2>1, TrailingLetter, AdmittedIs
<1>8. CASE mode \in {"text", "escape"}
    BY <1>1, <1>8, StringGoesOn, AdmittedIs
<1>9. CASE mode \notin {"value", "frame", "next", "colon", "point", "trailing", "text", "escape"}
    BY <1>1, <1>9, AdmittedIs
<1> QED
    BY <1>2, <1>3, <1>4, <1>5, <1>6, <1>7, <1>8, <1>9

LEMMA RefuseKeeps ==
    ASSUME ScanInv, Refuse
    PROVE  ScanInv'
<1>1. mode # "done"
    <2>1. ASSUME mode = "done" PROVE FALSE
        <3>1. Peek \in Admitted
            BY <2>1, AdmittedIs
        <3> QED
            BY <2>1, <3>1 DEF Refuse
    <2> QED
        BY <2>1
<1>2. Stuck
    BY <1>1, RefusedIsStuck
<1>3. request \in Requests /\ limits \in Limits /\ cursor \in Nat
      /\ cursor <= Trusted(request) /\ cursor <= WindowEnd
    BY <1>1, Unpacked
<1>4. request.damaged \/ (Truncated /\ Peek = "end")
    BY <1>2, <1>3, PeekIs
<1>5. CASE Peek = "end"
    <2>1. End("unexpected_end", cursor, nodes)
        BY <1>5 DEF Refuse
    <2> QED
        BY <1>1, <1>4, <2>1, StopKeeps
<1>6. CASE Peek # "end"
    <2>1. End("syntax", cursor, nodes)
        BY <1>6 DEF Refuse
    <2> QED
        BY <1>1, <1>4, <1>6, <2>1, StopKeeps
<1> QED
    BY <1>5, <1>6

-----------------------------------------------------------------------------
(***************************************************************************)
(* The whole scan.                                                         *)
(***************************************************************************)
LEMMA ScanStarts ==
    ASSUME Init
    PROVE  ScanInv
<1> PICK T, W : T = Source(request) /\ W = request.values
    OBVIOUS
<1>1. /\ request \in Requests /\ limits \in Limits /\ cursor = 0 /\ mode = "root" /\ value = Root
      /\ name = [start |-> 0, end |-> 0] /\ text = 0 /\ nodes = << >> /\ frames = << >>
      /\ path = << >> /\ checkpoints = << >> /\ stop = Unread
    BY DEF Init
<1>2. /\ SentAs(T, W) /\ Len(T) \in Nat /\ Len(W) \in Nat /\ Trusted(request) \in Nat
      /\ Len(request.letters) \in Nat
    BY <1>1, SourceFacts
<1>3. Family(W)
    BY <1>2, FamilyOf
<1>4. WindowEnd \in Nat
    BY <1>1, <1>2, LimitsAssumption DEF WindowEnd
<1>5. value \in ValueSet(W)
    <2>1. W[1].name = NoName /\ 1 \in 1..Len(W)
        BY <1>3 DEF Family
    <2>2. NoName \in {W[i].name : i \in 1..Len(W)}
        BY <2>1
    <2> QED
        BY <1>1, <2>2 DEF Root, ValueSet
<1>6. Blank(T, 0, W[1].start)
    BY <1>2 DEF SentAs
<1>7. Placed(T, W, Len(nodes) + 1)
    BY <1>1, <1>6 DEF Placed, Resting, Numeric
<1>8. /\ Indexes(W, nodes) /\ AllExact(W, nodes, CutAt) /\ Stack(W, frames, nodes)
      /\ OpenOnly(frames, nodes, IF mode \in Busy THEN text ELSE 0)
      /\ Recalled(W, frames, checkpoints) /\ Inside(W, frames, cursor)
    <2>1. Len(nodes) = 0 /\ Len(frames) = 0 /\ Len(checkpoints) = 0
        BY <1>1
    <2>2. Indexes(W, nodes)
        BY <1>2, <2>1 DEF Indexes
    <2>3. AllExact(W, nodes, CutAt)
        BY <2>1 DEF AllExact
    <2>4. Stack(W, frames, nodes)
        BY <1>1, <2>1 DEF Stack
    <2>5. OpenOnly(frames, nodes, IF mode \in Busy THEN text ELSE 0)
        BY <2>1 DEF OpenOnly
    <2>6. Recalled(W, frames, checkpoints) /\ Inside(W, frames, cursor)
        BY <1>1, <2>1 DEF Recalled, Inside
    <2> QED
        BY <2>2, <2>3, <2>4, <2>5, <2>6
<1>9. Scanning(T, W)
    BY <1>1, <1>2, <1>4, <1>7, <1>8 DEF Scanning
<1>10. mode \in Modes /\ mode # "done"
    BY <1>1 DEF Modes
<1>11. nodes \in Seq(NodeSet(W)) /\ frames \in Seq(FrameSet) /\ checkpoints \in Seq(PathSet(W))
    BY <1>1
<1>12. cursor \in Nat /\ name \in [start : Nat, end : Nat] /\ text \in Nat
    BY <1>1
<1> QED
    BY <1>1, <1>5, <1>9, <1>10, <1>11, <1>12 DEF ScanInv

LEMMA ScanRuns ==
    ASSUME Scan
    PROVE  mode # "done"
<1>1. Refuse => mode # "done"
    <2>1. mode = "done" => Peek \in Admitted
        BY AdmittedIs
    <2> QED
        BY <2>1 DEF Refuse
<1>2. SkipSpace => mode # "done"
    BY DEF SkipSpace, SpaceModes
<1>3. BeginRoot \/ CloseContainer \/ NextChild \/ BeginElement \/ BeginName \/ Colon \/ BeginMember
        => mode # "done"
    BY DEF BeginRoot, CloseContainer, NextChild, BeginElement, BeginName, Colon, BeginMember
<1>4. OpenContainer \/ PushContainer \/ PushString \/ OpenQuote \/ TextByte \/ EscapeByte
        \/ EscapedByte \/ CloseName \/ CloseString => mode # "done"
    BY DEF OpenContainer, PushContainer, PushString, OpenQuote, TextByte, EscapeByte,
           EscapedByte, CloseName, CloseString
<1>5. Literal \/ Number \/ PushScalar => mode # "done"
    BY DEF Literal, Number, PushScalar, ScalarEnds
<1>6. Whole \/ RefuseLiteral \/ RefuseByte \/ TooDeep \/ TooMany \/ Exhaust => mode # "done"
    BY DEF Whole, RefuseLiteral, RefuseByte, TooDeep, TooMany, Exhaust, ScalarEnds
<1> QED
    BY <1>1, <1>2, <1>3, <1>4, <1>5, <1>6 DEF Scan

LEMMA ScanKeeps ==
    ASSUME ScanInv, Scan
    PROVE  ScanInv'
<1>1. SkipSpace \/ BeginRoot \/ CloseContainer \/ NextChild \/ BeginElement => ScanInv'
    BY SkipSpaceKeeps, BeginRootKeeps, CloseContainerKeeps, NextChildKeeps, BeginElementKeeps
<1>2. BeginName \/ Colon \/ BeginMember \/ OpenContainer \/ PushContainer => ScanInv'
    BY BeginNameKeeps, ColonKeeps, BeginMemberKeeps, OpenContainerKeeps, PushContainerKeeps
<1>3. PushString \/ OpenQuote \/ TextByte \/ EscapeByte \/ EscapedByte => ScanInv'
    BY PushStringKeeps, OpenQuoteKeeps, TextByteKeeps, EscapeByteKeeps, EscapedByteKeeps
<1>4. CloseName \/ CloseString \/ Literal \/ Number \/ PushScalar => ScanInv'
    BY CloseNameKeeps, CloseStringKeeps, LiteralKeeps, NumberKeeps, PushScalarKeeps
<1>5. Whole \/ Refuse \/ RefuseLiteral \/ RefuseByte => ScanInv'
    BY WholeKeeps, RefuseKeeps, RefuseLiteralKeeps, RefuseByteKeeps
<1>6. TooDeep \/ TooMany \/ Exhaust => ScanInv'
    BY LimitsKeep
<1> QED
    BY <1>1, <1>2, <1>3, <1>4, <1>5, <1>6 DEF Scan

LEMMA ScanRests ==
    ASSUME ScanInv, UNCHANGED scanVars
    PROVE  ScanInv'
<1>1. /\ request' = request /\ limits' = limits /\ cursor' = cursor /\ mode' = mode
      /\ value' = value /\ name' = name /\ text' = text /\ nodes' = nodes /\ frames' = frames
      /\ path' = path /\ checkpoints' = checkpoints /\ stop' = stop
    BY DEF scanVars
<1>2. WindowEnd' = WindowEnd /\ (Truncated' <=> Truncated) /\ CutAt' = CutAt
    BY <1>1, Unmoved
<1> PICK T, W : T = Source(request) /\ W = request.values
    OBVIOUS
<1>3. CASE mode = "done"
    <2>1. Ended(W)'
        BY <1>1, <1>2, <1>3 DEF Ended, ScanInv
    <2> QED
        BY <1>1, <1>3, <2>1 DEF ScanInv
<1>4. CASE mode # "done"
    <2>1. Scanning(T, W)
        BY <1>4 DEF ScanInv
    <2>2. Placed(T, W, Len(nodes) + 1)' <=> Placed(T, W, Len(nodes) + 1)
        BY <1>1, <1>2 DEF Placed, Top
    <2>3. Doomed(W)' <=> Doomed(W)
        BY <1>1, <1>2 DEF Doomed, Stuck
    <2>4. Scanning(T, W)'
        BY <1>1, <1>2, <2>1, <2>2, <2>3 DEF Scanning
    <2> QED
        BY <1>1, <1>4, <2>4 DEF ScanInv
<1> QED
    BY <1>3, <1>4

(* After the scan the index stays, and a reason is a reason.                  *)
Reasons == LimitReasons \cup {"none", "Malformed", "InvalidKnownShape"}
AnalysisInv == /\ ScanInv
               /\ phase # "scan" => mode = "done"
               /\ reason \in Reasons

LEMMA AnalysisStarts ==
    ASSUME AnalysisInit
    PROVE  AnalysisInv
    BY ScanStarts DEF AnalysisInit, ExtractInit, AnalysisInv, Reasons

LEMMA ReasonStays ==
    ASSUME reason \in Reasons, Extract
    PROVE  reason' \in Reasons
<1>1. \A limit \in LimitReasons : Limited(reason, limit) \in Reasons
    BY DEF Limited, Reasons
<1>2. \A told \in Reasons, limit \in LimitReasons : Limited(told, limit) \in Reasons
    BY DEF Limited, Reasons
<1>3. {"Blocks", "Budget", "StringBytesInspected"} \subseteq LimitReasons
    BY DEF LimitReasons
<1>4. CASE Collect
    <2>1. reason' \in {"Malformed", "InvalidKnownShape", "none"}
        BY <1>4 DEF Collect
    <2> QED
        BY <2>1 DEF Reasons
<1>5. CASE BlocksFull \/ BudgetGone
    <2>1. reason' \in {Limited(reason, "Blocks"), Limited(reason, "Budget")}
        BY <1>5 DEF BlocksFull, BudgetGone
    <2> QED
        BY <1>1, <1>3, <2>1
<1>6. CASE EmitBlock
    <2>1. PICK told \in {reason, Limited(reason, "StringBytesInspected")} :
            reason' \in {told, Limited(told, "Budget")}
        BY <1>6 DEF EmitBlock
    <2>2. told \in Reasons
        BY <1>1, <1>3, <2>1
    <2> QED
        BY <1>2, <1>3, <2>1, <2>2
<1>7. CASE SkipCut \/ Extracted
    BY <1>7 DEF SkipCut, Extracted
<1> QED
    BY <1>4, <1>5, <1>6, <1>7 DEF Extract

LEMMA AnalysisKeeps ==
    ASSUME AnalysisInv, [Next]_vars
    PROVE  AnalysisInv'
<1>1. CASE Scan /\ UNCHANGED <<extractVars, evidence>>
    BY <1>1, ScanKeeps, ScanRuns DEF AnalysisInv, extractVars
<1>2. CASE Extract /\ UNCHANGED evidence
    <2>1. UNCHANGED scanVars
        BY <1>2 DEF Extract
    <2>2. ScanInv' /\ mode' = mode
        BY <2>1, ScanRests DEF AnalysisInv, scanVars
    <2>3. phase' # "scan" => mode = "done"
        BY <1>2 DEF Extract, Collect, BlocksFull, BudgetGone, SkipCut, EmitBlock, Extracted,
                    AnalysisInv
    <2> QED
        BY <1>2, <2>2, <2>3, ReasonStays DEF AnalysisInv
<1>3. CASE Finalize
    <2>1. UNCHANGED scanVars /\ reason' = reason /\ phase = "analysed"
        BY <1>3 DEF Finalize
    <2> QED
        BY <2>1, ScanRests DEF AnalysisInv, scanVars
<1>4. CASE UNCHANGED vars
    <2>1. UNCHANGED scanVars /\ reason' = reason /\ phase' = phase
        BY <1>4 DEF vars, extractVars
    <2> QED
        BY <2>1, ScanRests DEF AnalysisInv, scanVars
<1> QED
    BY <1>1, <1>2, <1>3, <1>4 DEF Next

LEMMA AnalysisAlways == Spec => []AnalysisInv
<1>1. AnalysisInit => AnalysisInv
    BY AnalysisStarts
<1>2. AnalysisInv /\ [Next]_vars => AnalysisInv'
    BY AnalysisKeeps
<1> QED
    BY <1>1, <1>2, PTL DEF Spec

(* However the scan of any request ends, under any bounds and wherever its    *)
(* letters were damaged, what it indexed is a prefix of the values its sender *)
(* wrote, and what it calls complete ends where the sender ended it           *)
(* (scan_string, scan_number, close_frame, rewind_path, finish).              *)
THEOREM IndexIsExact == Spec => []SpansAreExact
<1>1. AnalysisInv => SpansAreExact
    <2> SUFFICES ASSUME AnalysisInv, mode = "done" PROVE SpansAreExact
        BY DEF SpansAreExact
    <2> PICK W : W = Written
        OBVIOUS
    <2>1. Ended(W)
        BY DEF AnalysisInv, ScanInv, Written
    <2>2. /\ Len(nodes) <= Len(W)
          /\ \A i \in 1..Len(nodes) : /\ Alike(nodes[i], W[i]) /\ nodes[i].end <= W[i].end
                                      /\ nodes[i].complete => nodes[i].end = W[i].end
        BY <2>1 DEF Ended, Indexes
    <2> QED
        BY <2>2 DEF SpansAreExact, Alike
<1> QED
    BY <1>1, AnalysisAlways, PTL

-----------------------------------------------------------------------------
(***************************************************************************)
(* What the status says.                                                   *)
(***************************************************************************)
Stops == {"none", "syntax", "unexpected_end"} \cup LimitStops

LEMMA LimitReachedIs ==
    ASSUME stop \in Stops
    PROVE  /\ LimitReached = "none" => stop \notin LimitStops
           /\ LimitReached = "none" /\ stop \in {"unexpected_end", "none"} => ~Truncated
           /\ LimitReached # "none" => LimitReached \in LimitReasons
           /\ stop = "unexpected_end" /\ Truncated => LimitReached = "AnalyzedBytes"
           /\ stop = "none" /\ ~Truncated => LimitReached = "none"
<1>1. stop \in LimitStops => LimitReached = stop
    BY DEF LimitReached, LimitStops
<1>2. stop \in {"unexpected_end", "none"} /\ Truncated => LimitReached = "AnalyzedBytes"
    BY DEF LimitReached, LimitStops
<1>3. ~(stop \in LimitStops) /\ ~(stop \in {"unexpected_end", "none"} /\ Truncated)
        => LimitReached = "none"
    BY DEF LimitReached
<1>4. "none" \notin LimitStops /\ "AnalyzedBytes" # "none"
    BY DEF LimitStops
<1>5. LimitStops \subseteq LimitReasons /\ "AnalyzedBytes" \in LimitReasons
    BY DEF LimitStops, LimitReasons
<1> QED
    BY <1>1, <1>2, <1>3, <1>4, <1>5

(* What the index alone says.                                                 *)
LEMMA IndexStatusIs ==
    ASSUME stop \in Stops
    PROVE  /\ IndexStatus \in {"Malformed", "ResourceLimit", "Partial", "Complete"}
           /\ IndexStatus = "Malformed" =>
                 stop = "syntax" \/ (stop = "unexpected_end" /\ ~Truncated)
           /\ IndexStatus = "ResourceLimit" => LimitReached # "none"
           /\ IndexStatus = "Partial" => DuplicateKey
           /\ IndexStatus = "Complete" =>
                 stop = "none" /\ ~Truncated /\ ~DuplicateKey /\ LimitReached = "none"
           /\ stop = "syntax" \/ (stop = "unexpected_end" /\ ~Truncated) => IndexStatus = "Malformed"
<1>1. stop = "unexpected_end" /\ Truncated => IndexStatus = "ResourceLimit"
    BY DEF IndexStatus
<1>2. stop = "syntax" \/ (stop = "unexpected_end" /\ ~Truncated) => IndexStatus = "Malformed"
    BY DEF IndexStatus
<1>3. stop \notin {"syntax", "unexpected_end"} /\ LimitReached # "none"
        => IndexStatus = "ResourceLimit"
    <2>1. stop = "none" /\ ~Truncated => LimitReached = "none"
        BY LimitReachedIs
    <2> QED
        BY <2>1 DEF IndexStatus
<1>4. stop \notin {"syntax", "unexpected_end"} /\ LimitReached = "none"
        => stop = "none" /\ ~Truncated
    BY LimitReachedIs DEF Stops
<1>5. stop = "none" /\ ~Truncated /\ LimitReached = "none" /\ DuplicateKey
        => IndexStatus = "Partial"
    BY DEF IndexStatus
<1>6. stop = "none" /\ ~Truncated /\ LimitReached = "none" /\ ~DuplicateKey
        => IndexStatus = "Complete"
    BY DEF IndexStatus
<1>7. stop = "unexpected_end" /\ Truncated => LimitReached # "none"
    BY LimitReachedIs
<1> QED
    BY <1>1, <1>2, <1>3, <1>4, <1>5, <1>6, <1>7

(* The status and its reason, told together.                                  *)
LEMMA StatusIs ==
    ASSUME stop \in Stops, reason \in Reasons
    PROVE  /\ Status = "Malformed" <=> IndexStatus = "Malformed"
           /\ Status = "ResourceLimit" => AnalysisReason \in LimitReasons
           /\ Status = "Complete" <=> IndexStatus = "Complete" /\ reason = "none"
           /\ Status = "Complete" <=> AnalysisReason = "none"
<1>1. IndexStatus = "Malformed" => Status = "Malformed"
    BY DEF Status
<1>2. IndexStatus # "Malformed" /\ reason \in LimitReasons => Status = "ResourceLimit"
    BY DEF Status
<1>3. IndexStatus = "Complete" /\ reason \notin LimitReasons \cup {"none"} => Status = "Partial"
    BY DEF Status
<1>4. IndexStatus # "Malformed" /\ reason \notin LimitReasons
         /\ ~(IndexStatus = "Complete" /\ reason \notin LimitReasons \cup {"none"})
        => Status = IndexStatus
    BY DEF Status
<1>5. "none" \notin LimitReasons
    BY DEF LimitReasons
<1>6. /\ Status = "Malformed" <=> IndexStatus = "Malformed"
      /\ Status = "Complete" <=> IndexStatus = "Complete" /\ reason = "none"
      /\ Status = "ResourceLimit" => reason \in LimitReasons \/ IndexStatus = "ResourceLimit"
      /\ Status = "Partial" => IndexStatus = "Partial" \/ reason # "none"
      /\ Status \in {"Malformed", "ResourceLimit", "Partial", "Complete"}
    BY <1>1, <1>2, <1>3, <1>4, <1>5, IndexStatusIs
<1>7. Status = "Malformed" => AnalysisReason = "Malformed"
    BY DEF AnalysisReason
<1>8. Status # "Malformed" /\ LimitReached # "none" => AnalysisReason = LimitReached
    BY DEF AnalysisReason
<1>9. Status # "Malformed" /\ LimitReached = "none" /\ DuplicateKey /\ reason = "none"
        => AnalysisReason = "DuplicateKey"
    BY DEF AnalysisReason
<1>10. Status # "Malformed" /\ LimitReached = "none" /\ ~(DuplicateKey /\ reason = "none")
        => AnalysisReason = reason
    BY DEF AnalysisReason
<1>11. Status = "ResourceLimit" => AnalysisReason \in LimitReasons
    <2>1. LimitReached # "none" => LimitReached \in LimitReasons
        BY LimitReachedIs
    <2>2. IndexStatus = "ResourceLimit" => LimitReached # "none"
        BY IndexStatusIs
    <2> QED
        BY <1>5, <1>6, <1>8, <1>10, <2>1, <2>2
<1>12. Status = "Complete" => AnalysisReason = "none"
    <2>1. IndexStatus = "Complete" => ~DuplicateKey /\ LimitReached = "none"
        BY IndexStatusIs
    <2> QED
        BY <1>6, <1>10, <2>1
<1>13. AnalysisReason = "none" => Status = "Complete"
    <2> SUFFICES ASSUME AnalysisReason = "none" PROVE Status = "Complete"
        OBVIOUS
    <2>1. Status # "Malformed" /\ LimitReached = "none" /\ reason = "none" /\ ~DuplicateKey
        BY <1>7, <1>8, <1>9, <1>10
    <2>2. IndexStatus # "Partial" /\ IndexStatus # "ResourceLimit" /\ IndexStatus # "Malformed"
        BY <1>6, <2>1, IndexStatusIs
    <2>3. IndexStatus = "Complete"
        BY <2>2, IndexStatusIs
    <2> QED
        BY <1>6, <2>1, <2>3
<1> QED
    BY <1>6, <1>11, <1>12, <1>13

(* Two members of one name: the later one knows of the earlier.               *)
LEMMA NamesakeCounted ==
    ASSUME NEW W, Family(W), NEW k \in 1..Len(W), NEW i \in 1..(k - 1),
           W[i].name = W[k].name, W[i].name # NoName, W[i].parent = W[k].parent
    PROVE  W[k].occurrence # 0
<1>1. Len(W) \in Nat /\ W[1].name = NoName
    BY DEF Family
<1>2. k \in 2..Len(W) /\ i \in 1..Len(W)
    BY <1>1
<1> DEFINE earlier == {j \in 1..(k - 1) : W[j].parent = W[k].parent /\ W[j].name = W[k].name}
<1>3. /\ W[W[k].parent].kind \in Containers
      /\ W[W[k].parent].kind = "array" => W[k].name = NoName
      /\ W[W[k].parent].kind = "object" => W[k].occurrence = Cardinality(earlier)
    BY <1>2 DEF Family
<1>4. W[k].occurrence = Cardinality(earlier)
    BY <1>3 DEF Containers
<1>5. IsFiniteSet(earlier)
    <2>1. IsFiniteSet(1..(k - 1))
        BY <1>1, <1>2, FS_Interval
    <2>2. earlier \subseteq 1..(k - 1)
        OBVIOUS
    <2> QED
        BY <2>1, <2>2, FS_Subset
<1>6. i \in earlier
    OBVIOUS
<1>7. Cardinality(earlier) # 0
    BY <1>5, <1>6, FS_EmptySet
<1> QED
    BY <1>4, <1>7

(* What the end of the scan tells of a status.                                *)
LEMMA CompletelyIndexed ==
    ASSUME AnalysisInv, mode = "done", Status = "Complete"
    PROVE  /\ Len(nodes) = Len(Written) /\ cursor = Len(request.letters) /\ ~request.damaged
           /\ \A i \in 1..Len(nodes) : nodes[i].complete
           /\ ~DuplicateKey
<1>1. stop \in Stops /\ reason \in Reasons /\ Ended(Written)
    BY DEF AnalysisInv, ScanInv, Stops, Written
<1>2. IndexStatus = "Complete"
    BY <1>1, StatusIs
<1>3. stop = "none" /\ ~Truncated /\ ~DuplicateKey
    BY <1>1, <1>2, IndexStatusIs
<1> QED
    BY <1>1, <1>3 DEF Ended

(* Nothing of a Complete analysis was doubled.                                *)
LEMMA NothingDoubled ==
    ASSUME AnalysisInv, phase = "analysed", Status = "Complete"
    PROVE  \A i, k \in 1..Len(Written) :
              i # k /\ Written[i].name # NoName /\ Written[i].parent = Written[k].parent
                  => Written[i].name # Written[k].name
<1>1. mode = "done" /\ Ended(Written)
    BY DEF AnalysisInv, ScanInv, Written
<1>2. Family(Written) /\ Len(Written) \in Nat /\ Written[1].occurrence = 0
    <2>1. request \in Requests
        BY DEF AnalysisInv, ScanInv
    <2>2. Family(Written)
        BY <2>1, SourceFacts, FamilyOf DEF Written
    <2> QED
        BY <2>2 DEF Family
<1>3. Len(nodes) = Len(Written) /\ ~DuplicateKey
    BY <1>1, CompletelyIndexed
<1>4. ASSUME NEW g \in 1..Len(Written), NEW h \in 1..(g - 1),
             Written[h].name = Written[g].name, Written[h].name # NoName,
             Written[h].parent = Written[g].parent
      PROVE  FALSE
    <2>1. Written[g].occurrence # 0
        BY <1>2, <1>4, NamesakeCounted
    <2>2. g \in 2..Len(Written)
        BY <1>2, <2>1
    <2>3. Written[g].parent \in 1..(g - 1)
        BY <1>2, <2>2 DEF Family
    <2>4. nodes[Written[g].parent].duplicate /\ Written[g].parent \in 1..Len(nodes)
        BY <1>1, <1>2, <1>3, <2>1, <2>3 DEF Ended, Indexes
    <2>5. DuplicateKey
        BY <2>4 DEF DuplicateKey
    <2> QED
        BY <1>3, <2>5
<1>5. ASSUME NEW i \in 1..Len(Written), NEW k \in 1..Len(Written), i # k,
             Written[i].name # NoName, Written[i].parent = Written[k].parent,
             Written[i].name = Written[k].name
      PROVE  FALSE
    <2>1. CASE i < k
        BY <1>2, <1>4, <1>5, <2>1
    <2>2. CASE k < i
        BY <1>2, <1>4, <1>5, <2>2
    <2> QED
        BY <1>2, <1>5, <2>1, <2>2
<1> QED
    BY <1>5

(* A status is never better than the work behind it, and comes with its       *)
(* reason, whatever the request and the bounds (extract_indexed, finish).     *)
THEOREM StatusHonest == Spec => []StatusIsHonest
<1>1. AnalysisInv => StatusIsHonest
    <2> SUFFICES ASSUME AnalysisInv, phase = "analysed" PROVE StatusIsHonest
        BY DEF StatusIsHonest, Finished
    <2>1. mode = "done" /\ stop \in Stops /\ reason \in Reasons /\ Ended(Written)
        BY DEF AnalysisInv, ScanInv, Stops, Written
    <2>2. request \in Requests /\ Family(Written) /\ Len(request.letters) \in Nat
        <3>1. request \in Requests
            BY DEF AnalysisInv, ScanInv
        <3> QED
            BY <3>1, SourceFacts, FamilyOf DEF Written
    <2>3. ASSUME Status = "Complete"
          PROVE  /\ Len(nodes) = Len(Written) /\ Skipped = 0
                 /\ \A i \in 1..Len(nodes) : nodes[i].complete
        BY <2>1, <2>2, <2>3, CompletelyIndexed DEF Skipped
    <2>4. ASSUME Status = "Complete"
          PROVE  \A i, k \in 1..Len(Written) :
                    i # k /\ Written[i].name # NoName /\ Written[i].parent = Written[k].parent
                        => Written[i].name # Written[k].name
        BY <2>4, NothingDoubled
    <2>5. ~request.damaged => Status # "Malformed"
        BY <2>1, StatusIs, IndexStatusIs DEF Ended
    <2>6. /\ Status = "Complete" <=> AnalysisReason = "none"
          /\ Status = "ResourceLimit" => AnalysisReason \in LimitReasons
        BY <2>1, StatusIs
    <2> QED
        BY <2>3, <2>4, <2>5, <2>6 DEF StatusIsHonest
<1> QED
    BY <1>1, AnalysisAlways, PTL

-----------------------------------------------------------------------------
(***************************************************************************)
(* A complete index, read as the extractor reads it.                       *)
(***************************************************************************)
Words == {"message", "text", "trigger", "item_reference", "prompt", "reasoning", "image", "file"}

(* The index has every value to its end, and no object has a name twice.      *)
Mirrored(W) ==
    /\ Len(nodes) = Len(W)
    /\ \A i \in 1..Len(W) : /\ Alike(nodes[i], W[i]) /\ nodes[i].end = W[i].end
                            /\ nodes[i].complete
Singular(W) ==
    \A i, k \in 1..Len(W) : i # k /\ W[i].name # NoName /\ W[i].parent = W[k].parent
                                => W[i].name # W[k].name
Perfect == /\ request \in Requests /\ limits \in Limits /\ ~request.damaged
           /\ Mirrored(Written) /\ Singular(Written)

LEMMA ChildrenAre ==
    ASSUME Perfect
    PROVE  /\ \A i : ChildrenOf(i) = WrittenChildren(i)
           /\ \A i, word : i # 0 => Named(i, word) = WrittenNamed(i, word)
           /\ \A i, word : WrittenNamed(i, word) \subseteq 1..Len(Written)
<1>1. \A i : ChildrenOf(i) = WrittenChildren(i)
    BY DEF Perfect, Mirrored, Alike, ChildrenOf, WrittenChildren
<1>2. \A i, word : i # 0 => Named(i, word) = WrittenNamed(i, word)
    <2>1. \A i : \A c \in WrittenChildren(i) : nodes[c].name = Written[c].name
        BY DEF Perfect, Mirrored, Alike, WrittenChildren
    <2> QED
        BY <1>1, <2>1 DEF Named, WrittenNamed
<1>3. \A i, word : WrittenNamed(i, word) \subseteq 1..Len(Written)
    BY DEF WrittenNamed, WrittenChildren
<1> QED
    BY <1>1, <1>2, <1>3

(* A name is that of one member at most.                                      *)
LEMMA FirstIs ==
    ASSUME Perfect, NEW i, i # 0, NEW word, <<word>> # NoName
    PROVE  /\ First(i, <<word>>) # 0 => First(i, <<word>>) \in WrittenNamed(i, word)
           /\ \A c \in WrittenNamed(i, word) : First(i, <<word>>) = c
<1> DEFINE found == {k \in 1..Len(<<word>>) : Named(i, <<word>>[k]) # {}}
<1>1. /\ Named(i, word) = WrittenNamed(i, word)
      /\ WrittenNamed(i, word) \subseteq 1..Len(Written)
    BY ChildrenAre
<1>2. Len(<<word>>) = 1 /\ <<word>>[1] = word
    OBVIOUS
<1>3. First(i, <<word>>) = IF found = {} THEN 0 ELSE Min(Named(i, <<word>>[Min(found)]))
    BY DEF First
<1>4. Len(Written) \in Nat
    BY SourceFacts DEF Perfect, Written
<1>5. CASE WrittenNamed(i, word) = {}
    <2>1. found = {}
        BY <1>1, <1>2, <1>5
    <2> QED
        BY <1>3, <1>5, <2>1
<1>6. ASSUME NEW c \in WrittenNamed(i, word) PROVE First(i, <<word>>) = c
    <2>1. found = {1}
        BY <1>1, <1>2, <1>6
    <2>2. Min(found) = 1
        BY <2>1 DEF Min
    <2>3. WrittenNamed(i, word) = {c}
        <3>1. ASSUME NEW d \in WrittenNamed(i, word), d # c PROVE FALSE
            <4>1. /\ c \in 1..Len(Written) /\ d \in 1..Len(Written)
                  /\ Written[c].parent = i /\ Written[d].parent = i
                  /\ Written[c].name = <<word>> /\ Written[d].name = <<word>>
                BY <1>6, <3>1 DEF WrittenNamed, WrittenChildren
            <4> QED
                BY <3>1, <4>1 DEF Perfect, Singular
        <3> QED
            BY <1>6, <3>1
    <2>4. c \in Nat
        BY <1>1, <1>4, <1>6
    <2>5. Min({c}) = c
        BY <2>4 DEF Min
    <2>6. First(i, <<word>>) = Min(Named(i, word))
        BY <1>2, <1>3, <2>1, <2>2
    <2> QED
        BY <1>1, <2>3, <2>5, <2>6
<1> QED
    BY <1>5, <1>6

LEMMA FirstLetterOf ==
    ASSUME NEW T, NEW S, T \in Seq(S), NEW s \in Nat, NEW e \in Nat, s < e, e <= Len(T)
    PROVE  SubSeq(T, s + 1, e)[1] = T[s + 1]
    BY SubSeqProperties

(* A value that spells a word is a string, and is decoded as what was written.*)
LEMMA WordIs ==
    ASSUME Perfect, NEW c \in 1..Len(Written), NEW word \in Words
    PROVE  Written[c].units = <<word>> <=> WordOf(c) = word
<1> DEFINE units == Written[c].units
<1>1. /\ nodes[c].kind = Written[c].kind /\ nodes[c].start = Written[c].start
      /\ nodes[c].end = Written[c].end /\ nodes[c].complete /\ c \in Nat /\ c # 0
    <2>1. Len(Written) \in Nat
        BY SourceFacts DEF Perfect, Written
    <2> QED
        BY <2>1 DEF Perfect, Mirrored, Alike
<1>2. /\ SentAs(request.letters, Written) /\ Len(request.letters) \in Nat
      /\ request.letters \in Seq(ToSet(request.letters)) /\ units \in Seq(ToSet(units))
    BY RequestsAssumption, SourceFacts DEF Perfect, Written, WellWritten, Source
<1>3. /\ Shape(request.letters, Written, c) /\ ValueType(Written[c], Len(Written))
      /\ Written[c].end <= Len(request.letters)
    BY <1>2 DEF SentAs
<1>4. limits.text \in Nat \ {0}
    BY LimitsAssumption DEF Perfect
<1>5. word \notin {"1", ".", "tr", "ue", "half", "none", "other", "long", "undecodable"}
    BY DEF Words
<1>6. Written[c].kind = "string" => Units(nodes[c].start, nodes[c].end) = units
    <2> SUFFICES ASSUME Written[c].kind = "string"
                 PROVE  Units(nodes[c].start, nodes[c].end) = units
        OBVIOUS
    <2>1. PICK s \in Nat, e \in Nat : s = Written[c].start /\ e = Written[c].end
        BY <1>3 DEF ValueType
    <2>2. Letters(s + 1, e - 1) = SubSeq(request.letters, s + 2, e - 1)
        <3>1. (s + 1) + 1 = s + 2
            BY <2>1
        <3> QED
            BY <3>1 DEF Letters
    <2>3. units = Decode(SubSeq(request.letters, s + 2, e - 1))
        BY <1>3, <2>1 DEF Shape
    <2> QED
        BY <1>1, <2>1, <2>2, <2>3 DEF Units
<1>7. ASSUME units = <<word>> PROVE Written[c].kind = "string"
    <2>1. Len(units) = 1 /\ units[1] = word
        BY <1>7
    <2>2. PICK s \in Nat, e \in Nat : s = Written[c].start /\ e = Written[c].end /\ s < e
        BY <1>3 DEF ValueType
    <2>3. SubSeq(request.letters, s + 1, e)[1] = request.letters[s + 1]
        <3>1. request.letters \in Seq(ToSet(request.letters)) /\ s < e /\ e <= Len(request.letters)
            BY <1>2, <1>3, <2>2
        <3> QED
            BY ONLY <3>1, <2>2, FirstLetterOf
    <2>4. Written[c].kind # "number"
        <3> SUFFICES ASSUME Written[c].kind = "number" PROVE FALSE
            OBVIOUS
        <3>1. units = SubSeq(request.letters, s + 1, e) /\ NumberAt(request.letters, s, e)
            BY <1>3, <2>2 DEF Shape
        <3>2. units[1] = request.letters[s + 1]
            BY <2>3, <3>1
        <3>3. request.letters[s + 1] \in {"1", "."}
            <4>1. s + 1 \in (s + 1)..e
                BY <2>2
            <4> QED
                BY <3>1, <4>1 DEF NumberAt
        <3> QED
            BY <1>5, <2>1, <3>2, <3>3
    <2>5. Written[c].kind # "literal"
        <3> SUFFICES ASSUME Written[c].kind = "literal" PROVE FALSE
            OBVIOUS
        <3>1. units = SubSeq(request.letters, s + 1, e) /\ request.letters[s + 1] = "tr"
            BY <1>3, <2>2 DEF Shape
        <3>2. units[1] = request.letters[s + 1]
            BY <2>3, <3>1
        <3> QED
            BY <1>5, <2>1, <3>1, <3>2
    <2>6. Written[c].kind \notin Containers
        BY <1>3, <2>1 DEF Shape
    <2> QED
        BY <1>3, <2>4, <2>5, <2>6 DEF ValueType
<1>8. ASSUME units = <<word>> PROVE WordOf(c) = word
    <2>1. nodes[c].kind = "string" /\ Units(nodes[c].start, nodes[c].end) = <<word>>
        BY <1>1, <1>6, <1>7, <1>8
    <2>2. Decoded(c) = <<word>>
        <3>1. Len(<<word>>) = 1 /\ <<word>>[1] # "half" /\ ~(1 > limits.text)
            BY <1>4, <1>5
        <3> QED
            BY <1>1, <2>1, <3>1 DEF Decoded
    <2>3. <<word>> # Undecodable /\ <<word>> # TooLong
        BY <1>5 DEF Undecodable, TooLong
    <2> QED
        BY <2>2, <2>3 DEF WordOf
<1>9. ASSUME WordOf(c) = word PROVE units = <<word>>
    <2>1. Decoded(c) \notin {Undecodable, TooLong} /\ Len(Decoded(c)) = 1 /\ Decoded(c)[1] = word
        BY <1>5, <1>9 DEF WordOf
    <2>2. nodes[c].kind = "string" /\ Decoded(c) = Units(nodes[c].start, nodes[c].end)
        BY <1>1, <2>1 DEF Decoded
    <2>3. Decoded(c) = units
        BY <1>1, <1>6, <2>2
    <2> QED
        BY <1>2, <2>1, <2>3
<1> QED
    BY <1>8, <1>9

(* Only the members of an object have names.                                  *)
LEMMA NamedInObject ==
    ASSUME Perfect, NEW c \in 1..Len(Written), NEW i \in 1..Len(Written), Written[c].parent = i,
           Written[c].name # NoName
    PROVE  Written[i].kind = "object"
<1>1. Family(Written) /\ Len(Written) \in Nat
    <2>1. request \in Requests
        BY DEF Perfect
    <2> QED
        BY <2>1, SourceFacts, FamilyOf DEF Written
<1>2. c \in 2..Len(Written)
    <2>1. c # 1
        BY <1>1 DEF Family
    <2> QED
        BY <1>1, <2>1
<1>3. /\ Written[i].kind \in Containers
      /\ Written[i].kind = "array" => Written[c].name = NoName
    BY <1>1, <1>2 DEF Family
<1> QED
    BY <1>3 DEF Containers

(* A type is read as it was written.                                          *)
LEMMA TypeIs ==
    ASSUME Perfect, NEW i \in 1..Len(Written), NEW word \in Words
    PROVE  /\ HasType(i, word) <=> TypeOf(i) = word
           /\ HasType(i, word) => nodes[i].kind = "object"
<1>1. <<"type">> # NoName /\ i # 0 /\ word # "none"
    BY SourceFacts DEF NoName, Perfect, Written, Words
<1>2. TypeOf(i) = WordOf(First(i, <<"type">>))
    BY DEF TypeOf
<1>3. ASSUME HasType(i, word) PROVE TypeOf(i) = word /\ nodes[i].kind = "object"
    <2>1. PICK c \in WrittenNamed(i, "type") : Written[c].units = <<word>>
        BY <1>3 DEF HasType
    <2>2. c \in 1..Len(Written) /\ First(i, <<"type">>) = c
        BY <1>1, <2>1, ChildrenAre, FirstIs
    <2>3. WordOf(c) = word
        BY <2>1, <2>2, WordIs
    <2>4. Written[c].parent = i /\ Written[c].name = <<"type">>
        BY <2>1 DEF WrittenNamed, WrittenChildren
    <2>5. Written[i].kind = "object"
        BY <1>1, <2>2, <2>4, NamedInObject
    <2>6. nodes[i].kind = "object"
        BY <2>5 DEF Perfect, Mirrored, Alike
    <2> QED
        BY <1>2, <2>2, <2>3, <2>6
<1>4. ASSUME TypeOf(i) = word PROVE HasType(i, word)
    <2>1. First(i, <<"type">>) # 0
        BY <1>1, <1>2, <1>4 DEF WordOf, Decoded
    <2>2. PICK c \in WrittenNamed(i, "type") : First(i, <<"type">>) = c
        BY <1>1, <2>1, FirstIs
    <2>3. c \in 1..Len(Written)
        BY <2>2, ChildrenAre
    <2>4. Written[c].units = <<word>>
        BY <1>2, <1>4, <2>2, <2>3, WordIs
    <2> QED
        BY <2>2, <2>4 DEF HasType
<1> QED
    BY <1>3, <1>4

-----------------------------------------------------------------------------
(***************************************************************************)
(* Where candidates come from.                                             *)
(***************************************************************************)
IsCandidate(c) ==
    \E s, d, p, k, r, o, w, l, t :
        c = [source |-> s, payload |-> d, parent |-> p, kind |-> k, role |-> r, origin |-> o,
             owner |-> w, call |-> l, tool |-> t]

LEMMA CandidateIs ==
    ASSUME NEW s, NEW d, NEW p, NEW k, NEW r, NEW o
    PROVE  IsCandidate(Candidate(s, d, p, k, r, o)) /\ Candidate(s, d, p, k, r, o).source = s
    BY DEF IsCandidate, Candidate

LEMMA CandidateRevised ==
    ASSUME NEW c, IsCandidate(c), NEW x, NEW d,
           \/ d = [c EXCEPT !.owner = x]
           \/ d = [c EXCEPT !.tool = x]
           \/ d = [c EXCEPT !.call = x]
    PROVE  IsCandidate(d) /\ d.source = c.source
<1>1. PICK s, e, p, k, r, o, w, l, t :
        c = [source |-> s, payload |-> e, parent |-> p, kind |-> k, role |-> r, origin |-> o,
             owner |-> w, call |-> l, tool |-> t]
    BY DEF IsCandidate
<1>2. CASE d = [c EXCEPT !.owner = x]
    <2>1. d = [source |-> s, payload |-> e, parent |-> p, kind |-> k, role |-> r,
               origin |-> o, owner |-> x, call |-> l, tool |-> t]
        BY <1>1, <1>2
    <2> QED
        BY <1>1, <2>1 DEF IsCandidate
<1>3. CASE d = [c EXCEPT !.tool = x]
    <2>1. d = [source |-> s, payload |-> e, parent |-> p, kind |-> k, role |-> r,
               origin |-> o, owner |-> w, call |-> l, tool |-> x]
        BY <1>1, <1>3
    <2> QED
        BY <1>1, <2>1 DEF IsCandidate
<1>4. CASE d = [c EXCEPT !.call = x]
    <2>1. d = [source |-> s, payload |-> e, parent |-> p, kind |-> k, role |-> r,
               origin |-> o, owner |-> w, call |-> x, tool |-> t]
        BY <1>1, <1>4
    <2> QED
        BY <1>1, <2>1 DEF IsCandidate
<1> QED
    BY <1>2, <1>3, <1>4

(* Naming a tool result by its call leaves its source alone.                  *)
LEMMA NamedByCallKeeps ==
    ASSUME NEW c, IsCandidate(c)
    PROVE  NamedByCall(c).source = c.source
<1>1. \E x : NamedByCall(c) \in {c, [c EXCEPT !.tool = x]}
    BY DEF NamedByCall
<1> QED
    BY <1>1, CandidateRevised

(* What stands for a value: itself, or its text if it is called text.         *)
StandsFor(c, i) ==
    /\ IsCandidate(c)
    /\ c.source = i \/ (First(i, <<"text">>) # 0 /\ c.source = First(i, <<"text">>))

LEMMA TextPartIs ==
    ASSUME NEW i, NEW m, NEW r, NEW o
    PROVE  StandsFor(TextPart(i, m, r, o), i)
<1> DEFINE body == First(i, <<"text">>)
<1>1. CASE body = 0
    <2>1. TextPart(i, m, r, o) = Candidate(i, i, m, "Unknown", r, "Unknown")
        BY <1>1 DEF TextPart
    <2> QED
        BY <2>1, CandidateIs DEF StandsFor
<1>2. CASE body # 0
    <2>1. PICK c, d : c = Candidate(body, body, m, "Text", r, o) /\ d = [c EXCEPT !.owner = i]
        OBVIOUS
    <2>2. TextPart(i, m, r, o) = d
        BY <1>2, <2>1 DEF TextPart
    <2>3. IsCandidate(c) /\ c.source = body
        BY <2>1, CandidateIs
    <2>4. IsCandidate(d) /\ d.source = body
        BY <2>1, <2>3, CandidateRevised
    <2> QED
        BY <1>2, <2>2, <2>4 DEF StandsFor
<1> QED
    BY <1>1, <1>2

LEMMA ItemCandidateIs ==
    ASSUME NEW i
    PROVE  /\ IsCandidate(ItemCandidate(i))
           /\ \/ ItemCandidate(i).source = i
              \/ TypeOf(i) = "text" /\ StandsFor(ItemCandidate(i), i)
<1>1. \A k, r, o : IsCandidate(Simple(i, k, r, o)) /\ Simple(i, k, r, o).source = i
    BY CandidateIs DEF Simple
<1>2. \A p, k, o : IsCandidate(ToolCandidate(i, p, k, o)) /\ ToolCandidate(i, p, k, o).source = i
    <2> SUFFICES ASSUME NEW p, NEW k, NEW o
                 PROVE  /\ IsCandidate(ToolCandidate(i, p, k, o))
                        /\ ToolCandidate(i, p, k, o).source = i
        OBVIOUS
    <2>1. PICK c : c = Candidate(i, Or0(First(i, p), i), 0, k, "Tool", o)
        OBVIOUS
    <2>2. IsCandidate(c) /\ c.source = i
        BY <2>1, CandidateIs
    <2>3. PICK x, y, b, d : /\ b = [c EXCEPT !.call = x] /\ d = [b EXCEPT !.tool = y]
                            /\ ToolCandidate(i, p, k, o) = d
        BY <2>1 DEF ToolCandidate
    <2>4. b = [c EXCEPT !.call = x]
        BY <2>3
    <2>5. d = [b EXCEPT !.tool = y]
        BY <2>3
    <2>6. IsCandidate(b) /\ b.source = i
        BY ONLY <2>2, <2>4, CandidateRevised
    <2>7. IsCandidate(d) /\ d.source = i
        BY ONLY <2>5, <2>6, CandidateRevised
    <2> QED
        BY <2>3, <2>7
<1>3. \A r, o : StandsFor(TextPart(i, 0, r, o), i) /\ IsCandidate(TextPart(i, 0, r, o))
    BY TextPartIs DEF StandsFor
<1>4. \/ \E k, r, o : ItemCandidate(i) = Simple(i, k, r, o)
      \/ \E p, k, o : ItemCandidate(i) = ToolCandidate(i, p, k, o)
      \/ TypeOf(i) = "text" /\ \E r, o : ItemCandidate(i) = TextPart(i, 0, r, o)
    <2> HIDE DEF Simple, ToolCandidate, TextPart
    <2> QED
        BY DEF ItemCandidate
<1> QED
    BY <1>1, <1>2, <1>3, <1>4

LEMMA PartCandidateIs ==
    ASSUME NEW p, NEW m
    PROVE  StandsFor(PartCandidate(p, m), p)
<1>1. \A k, r, o : StandsFor(Candidate(p, p, m, k, r, o), p)
    BY CandidateIs DEF StandsFor
<1>2. \A r, o : StandsFor(TextPart(p, m, r, o), p)
    BY TextPartIs
<1>3. \/ \E k, r, o : PartCandidate(p, m) = Candidate(p, p, m, k, r, o)
      \/ \E r, o : PartCandidate(p, m) = TextPart(p, m, r, o)
    BY DEF PartCandidate
<1> QED
    BY <1>1, <1>2, <1>3

-----------------------------------------------------------------------------
(* What the sender put into the input is what the extractor looks at.         *)
LEMMA RootIs ==
    ASSUME Perfect, NEW word, <<word>> # NoName
    PROVE  /\ WrittenNamed(1, word) # {} => HasObjectRoot
           /\ HasObjectRoot => RootNamed(word) = WrittenNamed(1, word)
<1>1. Len(Written) \in Nat /\ 1 # 0
    BY SourceFacts DEF Perfect, Written
<1>2. ASSUME NEW c \in WrittenNamed(1, word) PROVE HasObjectRoot
    <2>1. c \in 1..Len(Written) /\ Written[c].parent = 1 /\ Written[c].name = <<word>>
        BY <1>2 DEF WrittenNamed, WrittenChildren
    <2>2. 1 \in 1..Len(Written)
        BY <1>1, <2>1
    <2>3. Written[1].kind = "object"
        BY <2>1, <2>2, NamedInObject
    <2>4. nodes[1].kind = "object" /\ Len(nodes) # 0
        BY <1>1, <2>2, <2>3 DEF Perfect, Mirrored, Alike
    <2>5. nodes # << >>
        BY <2>4
    <2> QED
        BY <2>4, <2>5 DEF HasObjectRoot
<1>3. Named(1, word) = WrittenNamed(1, word)
    BY <1>1, ChildrenAre
<1> QED
    BY <1>2, <1>3 DEF RootNamed

LEMMA ItemsAre ==
    ASSUME Perfect
    PROVE  /\ WrittenItems \subseteq Items
           /\ \A i \in WrittenItems : HasObjectRoot /\ i \in 1..Len(Written)
<1>1. <<"input">> # NoName
    BY DEF NoName
<1>2. ASSUME NEW i \in WrittenItems
      PROVE  i \in Items /\ HasObjectRoot /\ i \in 1..Len(Written)
    <2>1. PICK c \in WrittenNamed(1, "input") : Written[c].kind = "array" /\ i \in WrittenChildren(c)
        BY <1>2 DEF WrittenItems
    <2>2. HasObjectRoot /\ c \in RootNamed("input")
        BY <1>1, <2>1, RootIs
    <2>3. nodes[c].kind = "array" /\ i \in ChildrenOf(c)
        <3>1. c \in 1..Len(Written)
            BY <2>1, ChildrenAre
        <3> QED
            BY <2>1, <3>1, ChildrenAre DEF Perfect, Mirrored, Alike
    <2>4. i \in 1..Len(Written)
        BY <2>1 DEF WrittenChildren
    <2> QED
        BY <2>2, <2>3, <2>4 DEF Items, Elements
<1> QED
    BY <1>2

LEMMA MessageIs ==
    ASSUME Perfect, NEW m \in WrittenMessages
    PROVE  m \in Messages /\ m \in WrittenItems
<1>1. m \in WrittenItems /\ HasType(m, "message")
    BY DEF WrittenMessages
<1>2. m \in Items /\ m \in 1..Len(Written)
    BY <1>1, ItemsAre
<1>3. TypeOf(m) = "message" /\ nodes[m].kind = "object"
    <2>1. "message" \in Words
        BY DEF Words
    <2> QED
        BY <1>1, <1>2, <2>1, TypeIs
<1> QED
    BY <1>1, <1>2, <1>3 DEF Messages, IsMessage

LEMMA PartsAre ==
    ASSUME Perfect, NEW p \in WrittenParts
    PROVE  /\ \E m \in Messages : p \in Parts(m)
           /\ HasObjectRoot /\ p \in 1..Len(Written)
<1>1. PICK c \in 1..Len(Written) :
        /\ Written[c].kind = "array" /\ Written[c].name = <<"content">>
        /\ Written[c].parent \in WrittenMessages /\ p \in WrittenChildren(c)
    BY DEF WrittenParts
<1>2. PICK m : m = Written[c].parent /\ m \in Messages /\ m \in WrittenItems
    BY <1>1, MessageIs
<1>3. HasObjectRoot /\ m \in 1..Len(Written) /\ m # 0
    BY <1>2, ItemsAre
<1>4. c \in Contents(m)
    <2>1. c \in WrittenNamed(m, "content")
        BY <1>1, <1>2 DEF WrittenNamed, WrittenChildren
    <2> QED
        BY <1>3, <2>1, ChildrenAre DEF Contents
<1>5. nodes[c].kind = "array" /\ p \in ChildrenOf(c)
    BY <1>1, ChildrenAre DEF Perfect, Mirrored, Alike
<1>6. p \in Parts(m)
    BY <1>4, <1>5 DEF Parts, Containers
<1>7. p \in 1..Len(Written)
    BY <1>1 DEF WrittenChildren
<1> QED
    BY <1>2, <1>3, <1>6, <1>7

-----------------------------------------------------------------------------
(***************************************************************************)
(* What a candidate is charged for.                                        *)
(***************************************************************************)
Charged == {"call", "tool", "poll", "decode", "detect", "estimate", "features", "semantic", "after"}
Has(charges, charge) == \E k \in 1..Len(charges) : charges[k] = charge
When(condition, charge) == IF condition THEN <<charge>> ELSE << >>

LEMMA WhenIs ==
    ASSUME NEW condition, NEW charge \in Charged
    PROVE  When(condition, charge) \in Seq(Charged) /\ (condition => Has(When(condition, charge), charge))
<1>1. ASSUME condition PROVE When(condition, charge) = <<charge>>
    BY <1>1, Zenon DEF When
<1>2. ASSUME ~condition PROVE When(condition, charge) = << >>
    BY <1>2, Zenon DEF When
<1>3. <<charge>> \in Seq(Charged) /\ << >> \in Seq(Charged)
    OBVIOUS
<1>4. Has(<<charge>>, charge)
    <2>1. Len(<<charge>>) = 1 /\ <<charge>>[1] = charge /\ 1 \in 1..1
        OBVIOUS
    <2> QED
        BY <2>1 DEF Has
<1>5. When(condition, charge) = <<charge>> \/ When(condition, charge) = << >>
    BY <1>1, <1>2, Zenon
<1>6. When(condition, charge) \in Seq(Charged)
    BY <1>3, <1>5, Zenon
<1>7. ASSUME condition PROVE Has(When(condition, charge), charge)
    BY <1>1, <1>4, <1>7, Zenon
<1> QED
    BY <1>6, <1>7, Zenon

LEMMA HasEither ==
    ASSUME NEW a \in Seq(Charged), NEW b \in Seq(Charged)
    PROVE  /\ a \o b \in Seq(Charged)
           /\ \A charge : Has(a, charge) \/ Has(b, charge) => Has(a \o b, charge)
<1> SUFFICES ASSUME NEW charge, Has(a, charge) \/ Has(b, charge)
             PROVE  Has(a \o b, charge)
    OBVIOUS
<1>1. CASE Has(a, charge)
    <2>1. PICK k \in 1..Len(a) : a[k] = charge
        BY <1>1 DEF Has
    <2>2. k \in 1..Len(a \o b) /\ (a \o b)[k] = charge
        BY <2>1
    <2> QED
        BY <2>2 DEF Has
<1>2. CASE Has(b, charge)
    <2>1. PICK k \in 1..Len(b) : b[k] = charge
        BY <1>2 DEF Has
    <2>2. k + Len(a) \in 1..Len(a \o b) /\ (a \o b)[k + Len(a)] = charge
        BY <2>1
    <2> QED
        BY <2>2 DEF Has
<1> QED
    BY <1>1, <1>2

(* What can be read is measured, if every charge is granted, and a string is  *)
(* charged before it is found to be unreadable.                               *)
LEMMA ChargesAre ==
    ASSUME NEW c, Applicability(c) = "Eligible"
    PROVE  /\ Len(Charges(c)) \in Nat
           /\ Readable(c) => Has(Charges(c), "detect") /\ Has(Charges(c), "features")
           /\ ~Readable(c) => Has(Charges(c), "decode")
<1> DEFINE content == Readable(c)
           prose == content /\ IsString(c) /\ c.kind \in {"Text", "ToolResult"}
<1>1. Charges(c) = When(CallNode(c) # 0, "call") \o When(ToolNode(c) # 0, "tool") \o <<"poll">>
                   \o When(IsString(c), "decode") \o When(content, "detect")
                   \o When(content, "estimate") \o When(content, "features")
                   \o When(prose, "semantic") \o <<"after">>
    BY DEF Charges, When
<1>2. \A charge \in Charged : <<charge>> \in Seq(Charged)
    OBVIOUS
<1>3. {"call", "tool", "poll", "decode", "detect", "estimate", "features", "semantic", "after"}
        \subseteq Charged
    BY DEF Charged
<1> HIDE DEF Charged
<1>4. PICK w1, w2 : /\ w1 = When(CallNode(c) # 0, "call") /\ w1 \in Seq(Charged)
                    /\ w2 = When(ToolNode(c) # 0, "tool") /\ w2 \in Seq(Charged)
    BY <1>3, WhenIs
<1>5. PICK w4 : w4 = When(IsString(c), "decode") /\ w4 \in Seq(Charged)
                    /\ (~Readable(c) => Has(w4, "decode"))
    BY <1>3, WhenIs DEF Readable
<1>6. PICK w5 : w5 = When(content, "detect") /\ w5 \in Seq(Charged)
                    /\ (Readable(c) => Has(w5, "detect"))
    BY <1>3, WhenIs
<1>7. PICK w6 : w6 = When(content, "estimate") /\ w6 \in Seq(Charged)
    BY <1>3, WhenIs
<1>8. PICK w7 : w7 = When(content, "features") /\ w7 \in Seq(Charged)
                    /\ (Readable(c) => Has(w7, "features"))
    BY <1>3, WhenIs
<1>9. PICK w8 : w8 = When(prose, "semantic") /\ w8 \in Seq(Charged)
    BY <1>3, WhenIs
<1>10. PICK w3, w9 : w3 = <<"poll">> /\ w3 \in Seq(Charged) /\ w9 = <<"after">> /\ w9 \in Seq(Charged)
    BY <1>2, <1>3
<1>11. Charges(c) = w1 \o w2 \o w3 \o w4 \o w5 \o w6 \o w7 \o w8 \o w9
    BY <1>1, <1>4, <1>5, <1>6, <1>7, <1>8, <1>9, <1>10
<1>12. PICK x2 \in Seq(Charged) : x2 = w1 \o w2
    BY <1>4, HasEither
<1>13. PICK x3 \in Seq(Charged) : x3 = x2 \o w3
    BY <1>10, HasEither
<1>14. PICK x4 \in Seq(Charged) : x4 = x3 \o w4 /\ (Has(w4, "decode") => Has(x4, "decode"))
    BY <1>5, HasEither
<1>15. PICK x5 \in Seq(Charged) : /\ x5 = x4 \o w5 /\ (Has(w5, "detect") => Has(x5, "detect"))
                                  /\ Has(x4, "decode") => Has(x5, "decode")
    BY <1>6, HasEither
<1>16. PICK x6 \in Seq(Charged) : x6 = x5 \o w6 /\ \A charge : Has(x5, charge) => Has(x6, charge)
    BY <1>7, HasEither
<1>17. PICK x7 \in Seq(Charged) : /\ x7 = x6 \o w7 /\ (Has(w7, "features") => Has(x7, "features"))
                                  /\ \A charge : Has(x6, charge) => Has(x7, charge)
    BY <1>8, HasEither
<1>18. PICK x8 \in Seq(Charged) : x8 = x7 \o w8 /\ \A charge : Has(x7, charge) => Has(x8, charge)
    BY <1>9, HasEither
<1>19. PICK x9 \in Seq(Charged) : x9 = x8 \o w9 /\ \A charge : Has(x8, charge) => Has(x9, charge)
    BY <1>10, HasEither
<1>20. Charges(c) = x9
    BY ONLY <1>11, <1>12, <1>13, <1>14, <1>15, <1>16, <1>17, <1>18, <1>19, Zenon
<1>21. Len(x9) \in Nat
    OBVIOUS
<1>22. /\ Readable(c) => Has(x9, "detect") /\ Has(x9, "features")
       /\ ~Readable(c) => Has(x9, "decode")
    BY ONLY <1>5, <1>6, <1>8, <1>14, <1>15, <1>16, <1>17, <1>18, <1>19, Zenon
<1> QED
    BY <1>20, <1>21, <1>22

(* A block that was drafted with no charge refused and no bound met.          *)
Measured(b) == b.applicability = "Eligible" => b.detected /\ b.features

LEMMA DraftIs ==
    ASSUME NEW c, NEW refused, refused = Len(Charges(c)) + 1, ~BoundMet(c, refused)
    PROVE  /\ Measured(Draft(c, refused))
           /\ Draft(c, refused).start = nodes[c.source].start
           /\ Draft(c, refused).end = nodes[c.source].end
<1> DEFINE b == Draft(c, refused)
           unreadable == /\ \E k \in 1..(refused - 1) : Charges(c)[k] = "decode"
                         /\ Decoded(c.payload) = Undecodable
<1>1. /\ b.start = nodes[c.source].start /\ b.end = nodes[c.source].end
      /\ b.applicability = IF unreadable THEN "Unavailable" ELSE Applicability(c)
      /\ b.detected = \E k \in 1..(refused - 1) : Charges(c)[k] = "detect"
      /\ b.features = \E k \in 1..(refused - 1) : Charges(c)[k] = "features"
    BY DEF Draft
<1>2. ASSUME b.applicability = "Eligible" PROVE b.detected /\ b.features
    <2>1. Applicability(c) = "Eligible" /\ ~unreadable
        BY <1>1, <1>2
    <2>2. /\ Len(Charges(c)) \in Nat
          /\ Readable(c) => Has(Charges(c), "detect") /\ Has(Charges(c), "features")
          /\ ~Readable(c) => Has(Charges(c), "decode")
        BY <2>1, ChargesAre
    <2>3. refused - 1 = Len(Charges(c))
        BY <2>2
    <2>4. ASSUME Has(Charges(c), "decode")
          PROVE  Decoded(c.payload) \notin {Undecodable, TooLong}
        BY <2>1, <2>3, <2>4 DEF BoundMet, Has
    <2>5. Readable(c)
        BY <2>2, <2>4 DEF Readable
    <2> QED
        BY <1>1, <2>2, <2>3, <2>5 DEF Has
<1> QED
    BY <1>1, <1>2 DEF Measured

-----------------------------------------------------------------------------
(***************************************************************************)
(* From the input to the blocks.                                           *)
(***************************************************************************)
(* A value is still to be looked at, or has its block.                        *)
Sought(i) == (\E c \in queue : c.source = i) \/ BlockAt(i)

ItemSought(i) == \/ HasType(i, "trigger") \/ Sought(i)
                 \/ HasType(i, "text") /\ \E t \in WrittenNamed(i, "text") : Sought(t)
PartSought(p) == Sought(p) \/ \E t \in WrittenNamed(p, "text") : Sought(t)

(* While no reason is noted, nothing of the input is lost.                    *)
NothingLost ==
    /\ phase # "measure" => queue = {}
    /\ \A i \in WrittenItems : ItemSought(i)
    /\ \A p \in WrittenParts : PartSought(p)
    /\ \A b \in 1..Len(blocks) : Measured(blocks[b])
SoughtInv ==
    /\ \E S : blocks \in Seq(S)
    /\ phase = "scan" => blocks = << >>
    /\ phase # "scan" /\ reason = "none" /\ Perfect => NothingLost

LEMMA WrittenRests ==
    ASSUME UNCHANGED scanVars
    PROVE  /\ Written' = Written /\ nodes' = nodes /\ limits' = limits /\ request' = request
           /\ Perfect' <=> Perfect
           /\ WrittenItems' = WrittenItems /\ WrittenParts' = WrittenParts
           /\ \A i, word : WrittenNamed(i, word)' = WrittenNamed(i, word)
           /\ \A i, word : HasType(i, word)' <=> HasType(i, word)
<1>1. request' = request /\ nodes' = nodes /\ limits' = limits
    BY DEF scanVars
<1>2. Written' = Written
    BY <1>1 DEF Written
<1>3. Perfect' <=> Perfect
    BY <1>1, <1>2 DEF Perfect, Mirrored, Singular, Alike
<1>4. \A i : WrittenChildren(i)' = WrittenChildren(i)
    BY <1>2 DEF WrittenChildren
<1>5. \A i, word : WrittenNamed(i, word)' = WrittenNamed(i, word)
    BY <1>2, <1>4 DEF WrittenNamed
<1>6. \A i, word : HasType(i, word)' <=> HasType(i, word)
    BY <1>2, <1>5 DEF HasType
<1>7. WrittenItems' = WrittenItems
    BY <1>2, <1>4, <1>5 DEF WrittenItems
<1>8. WrittenMessages' = WrittenMessages
    BY <1>6, <1>7 DEF WrittenMessages
<1>9. WrittenParts' = WrittenParts
    BY <1>2, <1>4, <1>8 DEF WrittenParts
<1> QED
    BY <1>1, <1>2, <1>3, <1>5, <1>6, <1>7, <1>9

(* What is collected: a candidate for each item and each part.                *)
LEMMA CollectFinds ==
    ASSUME Perfect, Collect, UNCHANGED scanVars
    PROVE  /\ \A i \in WrittenItems : ItemSought(i)'
           /\ \A p \in WrittenParts : PartSought(p)'
<1>1. queue' = Candidates
    BY DEF Collect
<1>2. <<"text">> # NoName /\ "text" \in Words /\ "trigger" \in Words
    BY DEF NoName, Words
<1>3. ASSUME NEW c \in Collected, IsCandidate(c) PROVE \E d \in queue' : d.source = c.source
    <2>1. NamedByCall(c) \in queue'
        BY <1>1, <1>3 DEF Candidates
    <2> QED
        BY <1>3, <2>1, NamedByCallKeeps
<1>4. ASSUME NEW c \in queue' PROVE Sought(c.source)'
    BY <1>4 DEF Sought
<1>5. ASSUME NEW i \in 1..Len(Written), First(i, <<"text">>) # 0
      PROVE  First(i, <<"text">>) \in WrittenNamed(i, "text")
    <2>1. i # 0
        BY SourceFacts DEF Perfect, Written
    <2> QED
        BY <1>2, <1>5, <2>1, FirstIs
<1>6. ASSUME NEW i \in WrittenItems PROVE ItemSought(i)'
    <2>1. i \in Items /\ HasObjectRoot /\ i \in 1..Len(Written)
        BY <1>6, ItemsAre
    <2> SUFFICES ASSUME ~HasType(i, "trigger") PROVE ItemSought(i)'
        BY WrittenRests DEF ItemSought
    <2>2. i \notin Triggers
        BY <1>2, <2>1, TypeIs DEF Triggers
    <2>3. PICK c : c = ItemCandidate(i) /\ c \in Collected
        BY <2>1, <2>2 DEF Collected, InputCandidates
    <2>4. IsCandidate(c) /\ (c.source = i \/ (TypeOf(i) = "text" /\ StandsFor(c, i)))
        BY <2>3, ItemCandidateIs
    <2>5. Sought(c.source)'
        BY <1>3, <1>4, <2>3, <2>4
    <2>6. CASE c.source = i
        BY <2>5, <2>6 DEF ItemSought
    <2>7. CASE c.source # i
        <3>1. TypeOf(i) = "text" /\ First(i, <<"text">>) # 0 /\ c.source = First(i, <<"text">>)
            BY <2>4, <2>7 DEF StandsFor
        <3>2. HasType(i, "text") /\ c.source \in WrittenNamed(i, "text")
            BY <1>2, <1>5, <2>1, <3>1, TypeIs
        <3>3. HasType(i, "text")' /\ c.source \in WrittenNamed(i, "text")'
            BY <3>2, WrittenRests
        <3> QED
            BY <2>5, <3>3 DEF ItemSought
    <2> QED
        BY <2>6, <2>7
<1>7. ASSUME NEW p \in WrittenParts PROVE PartSought(p)'
    <2>1. PICK m \in Messages : p \in Parts(m)
        BY <1>7, PartsAre
    <2>2. HasObjectRoot /\ p \in 1..Len(Written)
        BY <1>7, PartsAre
    <2>3. PICK c : c = PartCandidate(p, m) /\ c \in Collected
        <3>1. PartCandidate(p, m) \in ContentCandidates(m)
            BY <2>1 DEF ContentCandidates
        <3> QED
            BY <2>1, <2>2, <3>1 DEF Collected, InputCandidates
    <2>4. StandsFor(c, p)
        BY <2>3, PartCandidateIs
    <2>5. Sought(c.source)'
        BY <1>3, <1>4, <2>3, <2>4 DEF StandsFor
    <2>6. CASE c.source = p
        BY <2>5, <2>6 DEF PartSought
    <2>7. CASE c.source # p
        <3>1. c.source \in WrittenNamed(p, "text")
            BY <1>5, <2>2, <2>4, <2>7 DEF StandsFor
        <3>2. c.source \in WrittenNamed(p, "text")'
            BY <3>1, WrittenRests
        <3> QED
            BY <2>5, <3>2 DEF PartSought
    <2> QED
        BY <2>6, <2>7
<1> QED
    BY <1>6, <1>7

(* A step that keeps what is sought keeps what is sought for.                 *)
LEMMA SoughtAll ==
    ASSUME Perfect, UNCHANGED scanVars, \A i \in 1..Len(Written) : Sought(i) => Sought(i)'
    PROVE  /\ (\A i \in WrittenItems : ItemSought(i)) => (\A i \in WrittenItems : ItemSought(i))'
           /\ (\A p \in WrittenParts : PartSought(p)) => (\A p \in WrittenParts : PartSought(p))'
<1>1. \A i, word : WrittenNamed(i, word) \subseteq 1..Len(Written)
    BY ChildrenAre
<1>2. ASSUME NEW i \in WrittenItems, ItemSought(i) PROVE ItemSought(i)'
    <2>1. i \in 1..Len(Written)
        BY <1>2, ItemsAre
    <2>2. CASE HasType(i, "trigger") \/ Sought(i)
        BY <2>1, <2>2, WrittenRests DEF ItemSought
    <2>3. CASE HasType(i, "text") /\ \E t \in WrittenNamed(i, "text") : Sought(t)
        <3>1. PICK t \in WrittenNamed(i, "text") : Sought(t)
            BY <2>3
        <3>2. HasType(i, "text")' /\ t \in WrittenNamed(i, "text")'
            BY <2>3, WrittenRests
        <3>3. Sought(t)'
            BY <1>1, <3>1
        <3> QED
            BY <3>2, <3>3 DEF ItemSought
    <2> QED
        BY <1>2, <2>2, <2>3 DEF ItemSought
<1>3. ASSUME NEW p \in WrittenParts, PartSought(p) PROVE PartSought(p)'
    <2>1. p \in 1..Len(Written)
        BY <1>3, PartsAre
    <2>2. CASE Sought(p)
        BY <2>1, <2>2 DEF PartSought
    <2>3. CASE \E t \in WrittenNamed(p, "text") : Sought(t)
        <3>1. PICK t \in WrittenNamed(p, "text") : Sought(t)
            BY <2>3
        <3>2. t \in WrittenNamed(p, "text")'
            BY WrittenRests
        <3>3. Sought(t)'
            BY <1>1, <3>1
        <3> QED
            BY <3>2, <3>3 DEF PartSought
    <2> QED
        BY <1>3, <2>2, <2>3 DEF PartSought
<1>4. WrittenItems' = WrittenItems /\ WrittenParts' = WrittenParts
    BY WrittenRests
<1> QED
    BY <1>2, <1>3, <1>4

(* Skipping a candidate whose value was cut loses nothing of a whole index.   *)
LEMMA SkipCutKeeps ==
    ASSUME Perfect, SkipCut, UNCHANGED scanVars, NEW i \in 1..Len(Written), Sought(i)
    PROVE  Sought(i)'
<1>1. queue' = queue \ {Earliest} /\ blocks' = blocks /\ ~nodes[Earliest.source].complete
    BY DEF SkipCut
<1>2. CASE BlockAt(i)
    <2>1. BlockAt(i)'
        BY <1>1, <1>2, WrittenRests DEF BlockAt
    <2> QED
        BY <2>1 DEF Sought
<1>3. CASE \E c \in queue : c.source = i
    <2>1. PICK c \in queue : c.source = i
        BY <1>3
    <2>2. nodes[i].complete
        BY DEF Perfect, Mirrored
    <2>3. c # Earliest
        BY <1>1, <2>1, <2>2
    <2>4. c \in queue'
        BY <1>1, <2>1, <2>3
    <2> QED
        BY <2>1, <2>4 DEF Sought
<1> QED
    BY <1>2, <1>3 DEF Sought

(* A block that was granted everything stands for its candidate's value.      *)
LEMMA EmitBlockKeeps ==
    ASSUME Perfect, EmitBlock, UNCHANGED scanVars, reason' = "none", NEW S, blocks \in Seq(S),
           \A b \in 1..Len(blocks) : Measured(blocks[b])
    PROVE  /\ reason = "none" /\ phase' = "measure"
           /\ \A b \in 1..Len(blocks') : Measured(blocks'[b])
           /\ \A i \in 1..Len(Written) : Sought(i) => Sought(i)'
<1> PICK e : e = Earliest
    OBVIOUS
<1>0. PICK refused \in 1..(Len(Charges(e)) + 1) : \E told :
        /\ told = IF BoundMet(e, refused) THEN Limited(reason, "StringBytesInspected") ELSE reason
        /\ blocks' = Append(blocks, Draft(e, refused))
        /\ reason' = IF refused <= Len(Charges(e)) THEN Limited(told, "Budget") ELSE told
        /\ phase' = IF refused <= Len(Charges(e)) THEN "analysed" ELSE "measure"
    BY DEF EmitBlock
<1>1. PICK told :
        /\ told = IF BoundMet(e, refused) THEN Limited(reason, "StringBytesInspected") ELSE reason
        /\ blocks' = Append(blocks, Draft(e, refused))
        /\ reason' = IF refused <= Len(Charges(e)) THEN Limited(told, "Budget") ELSE told
        /\ phase' = IF refused <= Len(Charges(e)) THEN "analysed" ELSE "measure"
    BY <1>0
<1>2. queue' = queue \ {e}
    BY DEF EmitBlock
<1>3. \A old : Limited(old, "Budget") # "none" /\ Limited(old, "StringBytesInspected") # "none"
    BY DEF Limited, LimitReasons
<1>4. ~(refused <= Len(Charges(e))) /\ told = "none" /\ phase' = "measure"
    BY <1>1, <1>3
<1>5. ~BoundMet(e, refused) /\ reason = "none"
    BY <1>1, <1>3, <1>4
<1>6. Applicability(e) = "Eligible" => Len(Charges(e)) \in Nat
    BY ChargesAre
<1> PICK d : d = Draft(e, refused)
    OBVIOUS
<1>7. Measured(d) /\ d.start = nodes[e.source].start /\ d.end = nodes[e.source].end
    BY <1>1, <1>4, <1>5, <1>6, DraftIs
<1>8. blocks' = Append(blocks, d) /\ Len(blocks) \in Nat
    BY <1>1
<1>9. /\ Len(blocks') = Len(blocks) + 1 /\ blocks'[Len(blocks) + 1] = d
      /\ \A b \in 1..Len(blocks) : blocks'[b] = blocks[b]
    BY <1>8
<1>10. \A b \in 1..Len(blocks') : Measured(blocks'[b])
    <2>1. \A b \in 1..Len(blocks') : b \in 1..Len(blocks) \/ b = Len(blocks) + 1
        BY <1>8, <1>9
    <2> QED
        BY <1>7, <1>9, <2>1
<1>11. ASSUME NEW i \in 1..Len(Written), Sought(i) PROVE Sought(i)'
    <2>1. Written' = Written /\ nodes[i].start = Written[i].start /\ nodes[i].end = Written[i].end
        BY WrittenRests DEF Perfect, Mirrored, Alike
    <2>2. CASE BlockAt(i)
        <3>1. PICK b \in 1..Len(blocks) : /\ blocks[b].start = Written[i].start
                                          /\ blocks[b].end = Written[i].end
            BY <2>2 DEF BlockAt
        <3>2. b \in 1..Len(blocks') /\ blocks'[b] = blocks[b]
            BY <1>8, <1>9
        <3>3. BlockAt(i)'
            BY <2>1, <3>1, <3>2 DEF BlockAt
        <3> QED
            BY <3>3 DEF Sought
    <2>3. CASE \E c \in queue : c.source = i
        <3>1. PICK c \in queue : c.source = i
            BY <2>3
        <3>2. CASE c = e
            <4>1. Len(blocks) + 1 \in 1..Len(blocks')
                BY <1>8, <1>9
            <4>2. BlockAt(i)'
                BY <1>7, <1>9, <2>1, <3>1, <3>2, <4>1 DEF BlockAt
            <4> QED
                BY <4>2 DEF Sought
        <3>3. CASE c # e
            <4>1. c \in queue'
                BY <1>2, <3>1, <3>3
            <4> QED
                BY <3>1, <4>1 DEF Sought
        <3> QED
            BY <3>2, <3>3
    <2> QED
        BY <1>11, <2>2, <2>3 DEF Sought
<1> QED
    BY <1>4, <1>5, <1>10, <1>11

LEMMA BlocksStay ==
    ASSUME NEW S, blocks \in Seq(S), Extract
    PROVE  \E U : blocks' \in Seq(U)
<1>1. CASE UNCHANGED blocks
    BY <1>1
<1>2. CASE EmitBlock
    <2>1. PICK d : blocks' = Append(blocks, d)
        BY <1>2 DEF EmitBlock
    <2>2. blocks \in Seq(S \cup {d}) /\ d \in S \cup {d}
        OBVIOUS
    <2>3. blocks' \in Seq(S \cup {d})
        BY <2>1, <2>2
    <2> QED
        BY <2>3
<1> QED
    BY <1>1, <1>2 DEF Extract, Collect, BlocksFull, BudgetGone, SkipCut, Extracted

LEMMA SoughtKeeps ==
    ASSUME SoughtInv, Extract
    PROVE  SoughtInv'
<1>1. UNCHANGED scanVars
    BY DEF Extract
<1>2. PICK S : blocks \in Seq(S)
    BY DEF SoughtInv
<1>3. \E U : blocks' \in Seq(U)
    BY <1>2, BlocksStay
<1>4. phase' # "scan"
    BY DEF Extract, Collect, BlocksFull, BudgetGone, SkipCut, EmitBlock, Extracted
<1>5. ASSUME reason' = "none", Perfect' PROVE NothingLost'
    <2>1. Perfect
        BY <1>1, <1>5, WrittenRests
    <2>2. \A old : Limited(old, "Budget") # "none" /\ Limited(old, "Blocks") # "none"
        BY DEF Limited, LimitReasons
    <2>3. CASE Collect
        <3>1. blocks' = << >> /\ phase' = "measure"
            BY <2>3 DEF Collect, SoughtInv
        <3>2. \A b \in 1..Len(blocks') : Measured(blocks'[b])
            BY <3>1
        <3>3. /\ \A i \in WrittenItems : ItemSought(i)'
              /\ \A p \in WrittenParts : PartSought(p)'
            BY <1>1, <2>1, <2>3, CollectFinds
        <3>4. WrittenItems' = WrittenItems /\ WrittenParts' = WrittenParts
            BY <1>1, WrittenRests
        <3> QED
            BY <3>1, <3>2, <3>3, <3>4 DEF NothingLost, Measured
    <2>4. CASE BlocksFull \/ BudgetGone
        BY <1>5, <2>2, <2>4 DEF BlocksFull, BudgetGone
    <2>5. CASE SkipCut
        <3>1. reason = "none" /\ phase = "measure" /\ phase' = "measure" /\ blocks' = blocks
            BY <1>5, <2>5 DEF SkipCut
        <3>2. NothingLost
            BY <2>1, <3>1 DEF SoughtInv
        <3>3. \A i \in 1..Len(Written) : Sought(i) => Sought(i)'
            BY <1>1, <2>1, <2>5, SkipCutKeeps
        <3>4. (\A i \in WrittenItems : ItemSought(i))' /\ (\A p \in WrittenParts : PartSought(p))'
            BY <1>1, <2>1, <3>2, <3>3, SoughtAll DEF NothingLost
        <3>5. (\A b \in 1..Len(blocks) : Measured(blocks[b]))'
            BY <3>1, <3>2 DEF NothingLost, Measured
        <3> QED
            BY <3>1, <3>4, <3>5 DEF NothingLost
    <2>6. CASE EmitBlock
        <3>1. phase = "measure"
            BY <2>6 DEF EmitBlock
        <3>2. reason = "none"
            <4>1. \A old : /\ Limited(old, "Budget") # "none"
                           /\ Limited(old, "StringBytesInspected") # "none"
                BY DEF Limited, LimitReasons
            <4> QED
                BY <1>5, <2>6, <4>1 DEF EmitBlock
        <3>3. NothingLost
            BY <2>1, <3>1, <3>2 DEF SoughtInv
        <3>4. \A b \in 1..Len(blocks) : Measured(blocks[b])
            BY <3>3 DEF NothingLost
        <3>5. /\ phase' = "measure" /\ \A b \in 1..Len(blocks') : Measured(blocks'[b])
              /\ \A i \in 1..Len(Written) : Sought(i) => Sought(i)'
            BY <1>1, <1>2, <1>5, <2>1, <2>6, <3>4, EmitBlockKeeps
        <3>6. (\A i \in WrittenItems : ItemSought(i))' /\ (\A p \in WrittenParts : PartSought(p))'
            BY <1>1, <2>1, <3>3, <3>5, SoughtAll DEF NothingLost
        <3>7. (\A b \in 1..Len(blocks) : Measured(blocks[b]))'
            BY <3>5 DEF Measured
        <3> QED
            BY <3>5, <3>6, <3>7 DEF NothingLost
    <2>7. CASE Extracted
        <3>1. /\ reason = "none" /\ phase = "measure" /\ queue' = {} /\ queue = {}
              /\ blocks' = blocks
            BY <1>5, <2>7 DEF Extracted
        <3>2. NothingLost
            BY <2>1, <3>1 DEF SoughtInv
        <3>3. \A i : Sought(i) => Sought(i)'
            BY <1>1, <3>1, WrittenRests DEF Sought, BlockAt
        <3>4. (\A i \in WrittenItems : ItemSought(i))' /\ (\A p \in WrittenParts : PartSought(p))'
            BY <1>1, <2>1, <3>2, <3>3, SoughtAll DEF NothingLost
        <3>5. (\A b \in 1..Len(blocks) : Measured(blocks[b]))'
            BY <3>1, <3>2 DEF NothingLost, Measured
        <3> QED
            BY <3>1, <3>4, <3>5 DEF NothingLost
    <2> QED
        BY <2>3, <2>4, <2>5, <2>6, <2>7 DEF Extract
<1> QED
    BY <1>3, <1>4, <1>5 DEF SoughtInv

LEMMA SoughtAlways == Spec => []SoughtInv
<1>1. AnalysisInit => SoughtInv
    <2> SUFFICES ASSUME AnalysisInit PROVE SoughtInv
        OBVIOUS
    <2>1. blocks = << >> /\ phase = "scan"
        BY DEF AnalysisInit, ExtractInit
    <2> QED
        BY <2>1 DEF SoughtInv
<1>2. AnalysisInv /\ SoughtInv /\ [Next]_vars => SoughtInv'
    <2> SUFFICES ASSUME AnalysisInv, SoughtInv, [Next]_vars PROVE SoughtInv'
        OBVIOUS
    <2>1. CASE Scan /\ UNCHANGED <<extractVars, evidence>>
        <3>1. phase' = phase /\ blocks' = blocks
            BY <2>1 DEF extractVars
        <3>2. phase = "scan"
            BY <2>1, ScanRuns DEF AnalysisInv
        <3> QED
            BY <3>1, <3>2 DEF SoughtInv
    <2>2. CASE Extract /\ UNCHANGED evidence
        BY <2>2, SoughtKeeps
    <2>3. CASE Finalize \/ UNCHANGED vars
        <3>1. /\ UNCHANGED scanVars /\ blocks' = blocks /\ reason' = reason /\ queue' = queue
              /\ phase' = phase \/ (phase = "analysed" /\ phase' = "finalized")
            BY <2>3 DEF Finalize, vars, extractVars
        <3>2. \A i : Sought(i)' <=> Sought(i)
            BY <3>1, WrittenRests DEF Sought, BlockAt
        <3>3. \A i : ItemSought(i)' <=> ItemSought(i)
            BY <3>1, <3>2, WrittenRests DEF ItemSought
        <3>4. \A p : PartSought(p)' <=> PartSought(p)
            BY <3>1, <3>2, WrittenRests DEF PartSought
        <3>5. NothingLost /\ (phase' # "measure" => queue' = {}) => NothingLost'
            BY <3>1, <3>3, <3>4, WrittenRests DEF NothingLost, Measured
        <3>6. NothingLost => (phase' # "measure" => queue' = {})
            BY <3>1 DEF NothingLost
        <3>7. Perfect' <=> Perfect
            BY <3>1, WrittenRests
        <3> QED
            BY <3>1, <3>5, <3>6, <3>7 DEF SoughtInv
    <2> QED
        BY <2>1, <2>2, <2>3 DEF Next
<1> QED
    BY <1>1, <1>2, AnalysisAlways, PTL DEF Spec

(* A Complete analysis read everything the sender wrote.                      *)
LEMMA CompleteIsPerfect ==
    ASSUME AnalysisInv, phase = "analysed", Status = "Complete"
    PROVE  Perfect /\ reason = "none"
<1>1. /\ mode = "done" /\ request \in Requests /\ limits \in Limits /\ Ended(Written)
      /\ stop \in Stops /\ reason \in Reasons
    BY DEF AnalysisInv, ScanInv, Stops, Written
<1>2. reason = "none"
    BY <1>1, StatusIs
<1>3. /\ Len(nodes) = Len(Written) /\ ~request.damaged /\ \A i \in 1..Len(nodes) : nodes[i].complete
    BY <1>1, CompletelyIndexed
<1>4. Mirrored(Written)
    BY <1>1, <1>3 DEF Mirrored, Ended, Indexes
<1>5. Singular(Written)
    BY NothingDoubled DEF Singular
<1> QED
    BY <1>1, <1>2, <1>3, <1>4, <1>5 DEF Perfect

(* A Complete analysis left nothing of the input out, whatever the request    *)
(* and its bounds: every item and every content part has its block, and every *)
(* block that could be measured was (collect_item, collect_content_part,      *)
(* measure_candidate).                                                        *)
THEOREM NothingLeftOut == Spec => []CompleteMeansDecomposed
<1>1. AnalysisInv /\ SoughtInv => CompleteMeansDecomposed
    <2> SUFFICES ASSUME AnalysisInv, SoughtInv, phase = "analysed", Status = "Complete"
                 PROVE  CompleteMeansDecomposed
        BY DEF CompleteMeansDecomposed, Finished
    <2>1. NothingLost /\ queue = {}
        BY CompleteIsPerfect DEF SoughtInv, NothingLost
    <2>2. \A i : Sought(i) => BlockAt(i)
        BY <2>1 DEF Sought
    <2> QED
        BY <2>1, <2>2 DEF NothingLost, CompleteMeansDecomposed, ItemSought, PartSought, Measured
<1> QED
    BY <1>1, AnalysisAlways, SoughtAlways, PTL

-----------------------------------------------------------------------------
(***************************************************************************)
(* What stands outside the request.                                        *)
(***************************************************************************)
Managed == {"previous", "conversation", "item", "prompt", "opaque"}
Outside == {"file", "image"}
Referring == {"item_reference", "prompt", "reasoning"}

LEMMA ReferenceSignals ==
    /\ DOMAIN ReferenceRules = Referring
    /\ \A w \in Referring : ReferenceRules[w].signal \in Managed
<1>1. DOMAIN ReferenceRules = Referring
    BY DEF ReferenceRules, Referring
<1>2. /\ ReferenceRules["item_reference"].signal = "item"
      /\ ReferenceRules["prompt"].signal = "prompt"
      /\ ReferenceRules["reasoning"].signal = "opaque"
    BY DEF ReferenceRules, Rule
<1> QED
    BY <1>1, <1>2 DEF Referring, Managed

LEMMA PartSignals ==
    /\ DOMAIN PartRules = Referring \cup {"image", "file"}
    /\ \A w \in Referring : PartRules[w].signal \in Managed
    /\ \A w \in {"image", "file"} : PartRules[w].signal \in Outside
<1>1. DOMAIN PartRules = Referring \cup {"image", "file"}
    BY DEF PartRules, Referring
<1>2. /\ PartRules["item_reference"] = ReferenceRules["item_reference"]
      /\ PartRules["prompt"] = ReferenceRules["prompt"]
      /\ PartRules["reasoning"] = ReferenceRules["reasoning"]
    BY DEF PartRules
<1>3. PartRules["image"].signal = "image" /\ PartRules["file"].signal = "file"
    BY DEF PartRules, Rule
<1> QED
    BY <1>1, <1>2, <1>3, ReferenceSignals DEF Referring, Outside

LEMMA RootSignals ==
    \A w \in DOMAIN RootRules \ {"instructions"} : RootRules[w].signal \in Managed \cup Outside
<1>1. DOMAIN RootRules = {"instructions", "previous_response_id", "conversation", "prompt",
                          "item_reference", "file_id", "image_url"}
    BY DEF RootRules
<1>2. \A r, role, shapes, always : RootRule(r, role, shapes, always).signal = r.signal
    BY DEF RootRule
<1>3. \A k, o, s : Rule(k, o, s).signal = s
    BY DEF Rule
<1>4. \E role, shapes, always :
         RootRules["previous_response_id"] =
             RootRule(Rule("ProviderStateReference", "ProviderManaged", "previous"),
                      role, shapes, always)
    BY DEF RootRules
<1>5. \E role, shapes, always :
         RootRules["conversation"] =
             RootRule(Rule("ProviderStateReference", "ProviderManaged", "conversation"),
                      role, shapes, always)
    BY DEF RootRules
<1>6. \E role, shapes, always :
         RootRules["prompt"] = RootRule(ReferenceRules["prompt"], role, shapes, always)
    BY DEF RootRules
<1>7. \E role, shapes, always :
         RootRules["item_reference"] =
             RootRule(ReferenceRules["item_reference"], role, shapes, always)
    BY DEF RootRules
<1>8. \E role, shapes, always :
         RootRules["file_id"] = RootRule(PartRules["file"], role, shapes, always)
    BY DEF RootRules
<1>9. \E role, shapes, always :
         RootRules["image_url"] = RootRule(PartRules["image"], role, shapes, always)
    BY DEF RootRules
<1>10. /\ RootRules["previous_response_id"].signal = "previous"
       /\ RootRules["conversation"].signal = "conversation"
       /\ RootRules["prompt"].signal = ReferenceRules["prompt"].signal
       /\ RootRules["item_reference"].signal = ReferenceRules["item_reference"].signal
       /\ RootRules["file_id"].signal = PartRules["file"].signal
       /\ RootRules["image_url"].signal = PartRules["image"].signal
    BY <1>2, <1>3, <1>4, <1>5, <1>6, <1>7, <1>8, <1>9
<1> QED
    BY <1>1, <1>10, ReferenceSignals, PartSignals
       DEF Referring, Managed, Outside

(* Whatever refers outside the request is counted.                            *)
LEMMA CountedIs ==
    ASSUME ~ProviderManaged, ~External
    PROVE  \A s \in Managed \cup Outside : References(s) = {}
    BY DEF ProviderManaged, External, Managed, Outside

ReferringRoots(signal) ==
    UNION {IF RootRules[w].signal = signal THEN RootTargets(w) ELSE {} : w \in DOMAIN RootRules}
ReferringItems(signal) ==
    {i \in Items \ Messages :
        /\ nodes[i].kind = "object" /\ TypeOf(i) \in DOMAIN ReferenceRules
        /\ ReferenceRules[TypeOf(i)].signal = signal}
ReferringParts(signal) ==
    {p \in UNION {Parts(m) : m \in Messages} :
        /\ nodes[p].kind = "object" /\ TypeOf(p) \in DOMAIN PartRules
        /\ PartRules[TypeOf(p)].signal = signal}

LEMMA ReferencesAre ==
    ASSUME NEW s
    PROVE  ReferringItems(s) \subseteq References(s) /\ ReferringParts(s) \subseteq References(s)
<1>1. References(s) = ReferringRoots(s) \cup ReferringItems(s) \cup ReferringParts(s)
    BY DEF References, ReferringRoots, ReferringItems, ReferringParts
<1> QED
    BY <1>1

LEMMA ItemCounted ==
    ASSUME Perfect, NEW i \in WrittenItems, NEW w \in Referring, HasType(i, w)
    PROVE  \E s \in Managed : References(s) # {}
<1>1. i \in Items /\ i \in 1..Len(Written)
    BY ItemsAre
<1>2. w \in Words /\ w \notin {"message", "history", "none"}
    BY DEF Referring, Words
<1>3. TypeOf(i) = w /\ nodes[i].kind = "object"
    BY <1>1, <1>2, TypeIs
<1>4. i \notin Messages
    BY <1>2, <1>3 DEF Messages, IsMessage
<1>5. w \in DOMAIN ReferenceRules /\ ReferenceRules[w].signal \in Managed
    BY ReferenceSignals
<1>6. PICK s \in Managed : s = ReferenceRules[w].signal
    BY <1>5
<1>7. i \in ReferringItems(s)
    BY <1>1, <1>3, <1>4, <1>5, <1>6 DEF ReferringItems
<1>8. i \in References(s)
    BY <1>7, ReferencesAre
<1> QED
    BY <1>6, <1>8

LEMMA PartCounted ==
    ASSUME Perfect, NEW p \in WrittenParts, NEW w \in Referring \cup {"image", "file"}, HasType(p, w)
    PROVE  \E s \in Managed \cup Outside : References(s) # {}
<1>1. (\E m \in Messages : p \in Parts(m)) /\ p \in 1..Len(Written)
    BY PartsAre
<1>2. w \in Words
    BY DEF Referring, Words
<1>3. TypeOf(p) = w /\ nodes[p].kind = "object"
    BY <1>1, <1>2, TypeIs
<1>4. w \in DOMAIN PartRules /\ PartRules[w].signal \in Managed \cup Outside
    BY PartSignals
<1>5. PICK s \in Managed \cup Outside : s = PartRules[w].signal
    BY <1>4
<1>6. p \in ReferringParts(s)
    BY <1>1, <1>3, <1>4, <1>5 DEF ReferringParts
<1>7. p \in References(s)
    BY <1>6, ReferencesAre
<1> QED
    BY <1>5, <1>7

LEMMA RootCounted ==
    ASSUME Perfect, NEW w \in DOMAIN RootRules \ {"instructions"}, NEW c \in WrittenNamed(1, w),
           ~(w = "item_reference" /\ EmptyList(c))
    PROVE  \E s \in Managed \cup Outside : References(s) # {}
<1>1. <<w>> # NoName
    <2>1. w # "unnamed"
        BY DEF RootRules
    <2> QED
        BY <2>1 DEF NoName
<1>2. c \in RootNamed(w)
    BY <1>1, RootIs
<1>3. nodes[c].kind = Written[c].kind /\ ChildrenOf(c) = WrittenChildren(c)
    BY ChildrenAre DEF Perfect, Mirrored, Alike
<1>4. RootTargets(w) # {}
    <2>1. CASE w = "item_reference" /\ nodes[c].kind = "array"
        <3>1. PICK t : t \in ChildrenOf(c)
            BY <1>3, <2>1 DEF EmptyList
        <3>2. t \in RootTargets(w)
            BY <1>2, <2>1, <3>1 DEF RootTargets
        <3> QED
            BY <3>2
    <2>2. CASE ~(w = "item_reference" /\ nodes[c].kind = "array")
        <3>1. c \in RootTargets(w)
            BY <1>2, <2>2 DEF RootTargets
        <3> QED
            BY <3>1
    <2> QED
        BY <2>1, <2>2
<1>5. RootRules[w].signal \in Managed \cup Outside
    BY RootSignals
<1>6. PICK t : t \in RootTargets(w)
    BY <1>4
<1>7. t \in References(RootRules[w].signal)
    BY <1>6 DEF References
<1> QED
    BY <1>5, <1>7

(* An analysis that claims to have seen the whole logical context hides no    *)
(* reference, whatever the request and its bounds (derive_visibility,         *)
(* collect_root, collect_item, collect_content_part).                         *)
THEOREM NothingHidden == Spec => []ExplicitOnlyHidesNothing
<1>1. AnalysisInv => ExplicitOnlyHidesNothing
    <2> SUFFICES ASSUME AnalysisInv, phase = "analysed", LogicalStatus = "ExplicitOnly"
                 PROVE  ExplicitOnlyHidesNothing
        BY DEF ExplicitOnlyHidesNothing, Finished
    <2>1. ~ProviderManaged /\ ~External /\ Status = "Complete"
        BY DEF LogicalStatus, ExplicitComplete
    <2>2. \A s \in Managed \cup Outside : References(s) = {}
        BY <2>1, CountedIs
    <2>3. Perfect
        BY <2>1, CompleteIsPerfect
    <2>4. ASSUME NEW i \in WrittenItems \cup WrittenParts, NEW w \in Referring
          PROVE  ~HasType(i, w)
        BY <2>2, <2>3, ItemCounted, PartCounted
    <2>5. ASSUME NEW p \in WrittenParts PROVE ~HasType(p, "image") /\ ~HasType(p, "file")
        BY <2>2, <2>3, PartCounted
    <2>6. ASSUME NEW w \in DOMAIN RootRules \ {"instructions"}, NEW c \in WrittenNamed(1, w)
          PROVE  w = "item_reference" /\ EmptyList(c)
        BY <2>2, <2>3, RootCounted
    <2> QED
        BY <2>4, <2>5, <2>6 DEF ExplicitOnlyHidesNothing, Referring
<1> QED
    BY <1>1, AnalysisAlways, PTL
=============================================================================
