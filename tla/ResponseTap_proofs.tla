------------------------- MODULE ResponseTap_proofs -------------------------
(***************************************************************************)
(* What module TapProperties promises of an observed response, for every   *)
(* exchange, every fragmentation of its body and every bound.              *)
(***************************************************************************)
EXTENDS TapProperties, SequenceTheorems, WellFoundedInduction, TLAPS

-----------------------------------------------------------------------------
(***************************************************************************)
(* Induction over the naturals, for the members of a set.                  *)
(***************************************************************************)
LEMMA NatSetInduction ==
    ASSUME NEW S, 0 \in S, \A n \in Nat : n \in S => n + 1 \in S
    PROVE  Nat \subseteq S
<1> SUFFICES ASSUME ~(Nat \subseteq S) PROVE FALSE
    OBVIOUS
<1> DEFINE T == Nat \ S
<1>1. T # {} /\ T \subseteq Nat
    OBVIOUS
<1>2. IsWellFoundedOn(OpToRel(<, Nat), Nat)
    BY NatLessThanWellFounded
<1>3. PICK x \in T : \A y \in T : <<y, x>> \notin OpToRel(<, Nat)
    BY <1>1, <1>2, WFMin
<1>4. x \in Nat /\ x \notin S /\ x # 0
    BY <1>3
<1>5. x - 1 \in Nat /\ x - 1 < x
    BY <1>4
<1>6. x - 1 \in S
    <2>1. <<x - 1, x>> \in OpToRel(<, Nat)
        BY <1>4, <1>5 DEF OpToRel
    <2>2. x - 1 \notin T
        BY <1>3, <2>1
    <2> QED
        BY <1>5, <2>2
<1>7. (x - 1) + 1 \in S
    BY <1>4, <1>6
<1> QED
    BY <1>4, <1>7

-----------------------------------------------------------------------------
(***************************************************************************)
(* Frame: the framings of a prefix are one function of its length.         *)
(***************************************************************************)
FramedTo(f, m, framer, bytes) ==
    f = [n \in 0..m |-> IF n = 0 THEN [framer |-> framer, events |-> <<>>]
                        ELSE FrameByte(f[n - 1], bytes[n])]

LEMMA FrameIs ==
    ASSUME NEW framer, NEW bytes
    PROVE  Frame(framer, bytes)
               = (CHOOSE f : FramedTo(f, Len(bytes), framer, bytes))[Len(bytes)]
    BY DEF Frame, FramedTo

LEMMA FramedExists ==
    ASSUME NEW framer, NEW bytes
    PROVE  \A m \in Nat : \E f : FramedTo(f, m, framer, bytes)
<1> DEFINE S == {m \in Nat : \E f : FramedTo(f, m, framer, bytes)}
<1>1. 0 \in S
    <2> DEFINE f == [n \in 0..0 |-> [framer |-> framer, events |-> <<>>]]
    <2>1. FramedTo(f, 0, framer, bytes)
        BY DEF FramedTo
    <2> QED
        BY <2>1
<1>2. ASSUME NEW m \in Nat, m \in S PROVE m + 1 \in S
    <2>1. PICK f : FramedTo(f, m, framer, bytes)
        BY <1>2
    <2> DEFINE g == [n \in 0..(m + 1) |-> IF n = m + 1 THEN FrameByte(f[m], bytes[m + 1]) ELSE f[n]]
    <2> DEFINE h(n) == IF n = 0 THEN [framer |-> framer, events |-> <<>>]
                       ELSE FrameByte(g[n - 1], bytes[n])
    <2>2. \A n \in 0..(m + 1) : g[n] = h(n)
        <3> SUFFICES ASSUME NEW n \in 0..(m + 1) PROVE g[n] = h(n)
            OBVIOUS
        <3>1. CASE n = m + 1
            BY <3>1
        <3>2. CASE n # m + 1
            <4>1. n \in 0..m /\ g[n] = f[n]
                BY <3>2
            <4>2. f[n] = IF n = 0 THEN [framer |-> framer, events |-> <<>>]
                         ELSE FrameByte(f[n - 1], bytes[n])
                BY <2>1, <4>1 DEF FramedTo
            <4>3. n # 0 => g[n - 1] = f[n - 1]
                BY <4>1
            <4> QED
                BY <4>1, <4>2, <4>3
        <3> QED
            BY <3>1, <3>2
    <2>3. g = [n \in 0..(m + 1) |-> h(n)]
        BY <2>2
    <2>4. FramedTo(g, m + 1, framer, bytes)
        BY <2>3 DEF FramedTo
    <2> HIDE DEF g
    <2> QED
        BY <2>4
<1> HIDE DEF S
<1>3. Nat \subseteq S
    BY <1>1, <1>2, NatSetInduction
<1> QED
    BY <1>3 DEF S

LEMMA FramedToStep ==
    ASSUME NEW f, NEW m \in Nat, NEW framer, NEW bytes, FramedTo(f, m, framer, bytes)
    PROVE  /\ f[0] = [framer |-> framer, events |-> <<>>]
           /\ \A n \in 1..m : f[n] = FrameByte(f[n - 1], bytes[n])
<1> DEFINE h(n) == IF n = 0 THEN [framer |-> framer, events |-> <<>>]
                   ELSE FrameByte(f[n - 1], bytes[n])
<1>1. f = [n \in 0..m |-> h(n)]
    BY DEF FramedTo
<1>2. \A n \in 0..m : f[n] = h(n)
    BY <1>1
<1> QED
    BY <1>2

LEMMA FramedLast ==
    ASSUME NEW f, NEW m \in Nat, m # 0, NEW framer, NEW bytes, FramedTo(f, m, framer, bytes)
    PROVE  f[m] = FrameByte(f[m - 1], bytes[m])
<1>1. /\ f[0] = [framer |-> framer, events |-> <<>>]
      /\ \A n \in 1..m : f[n] = FrameByte(f[n - 1], bytes[n])
    BY FramedToStep
<1>2. m \in 1..m
    OBVIOUS
<1> QED
    BY <1>1, <1>2

\* Two framings agree as far as both go and their bytes agree.
LEMMA FramedUnique ==
    ASSUME NEW framer, NEW a, NEW b, NEW k \in Nat, NEW m \in Nat, k <= m,
           \A n \in 1..k : a[n] = b[n],
           NEW f, FramedTo(f, k, framer, a), NEW g, FramedTo(g, m, framer, b)
    PROVE  f[k] = g[k]
<1> DEFINE S == {n \in Nat : n <= k => f[n] = g[n]}
<1>1. /\ f[0] = [framer |-> framer, events |-> <<>>]
      /\ \A n \in 1..k : f[n] = FrameByte(f[n - 1], a[n])
    BY FramedToStep
<1>2. /\ g[0] = [framer |-> framer, events |-> <<>>]
      /\ \A n \in 1..m : g[n] = FrameByte(g[n - 1], b[n])
    BY FramedToStep
<1>3. 0 \in S
    BY <1>1, <1>2
<1>4. ASSUME NEW n \in Nat, n \in S PROVE n + 1 \in S
    <2> SUFFICES ASSUME n + 1 <= k PROVE f[n + 1] = g[n + 1]
        OBVIOUS
    <2>1. n + 1 \in 1..k /\ n + 1 \in 1..m /\ (n + 1) - 1 = n /\ n <= k
        OBVIOUS
    <2>2. f[n] = g[n] /\ a[n + 1] = b[n + 1]
        BY <1>4, <2>1
    <2>3. f[n + 1] = FrameByte(f[n], a[n + 1])
        BY <1>1, <2>1
    <2>4. g[n + 1] = FrameByte(g[n], b[n + 1])
        BY <1>2, <2>1
    <2> QED
        BY <2>2, <2>3, <2>4
<1> HIDE DEF S
<1>5. Nat \subseteq S
    BY <1>3, <1>4, NatSetInduction
<1> QED
    BY <1>5 DEF S

LEMMA FrameNothing ==
    ASSUME NEW framer
    PROVE  Frame(framer, <<>>) = [framer |-> framer, events |-> <<>>]
<1> DEFINE f == CHOOSE f : FramedTo(f, 0, framer, <<>>)
<1>1. FramedTo(f, 0, framer, <<>>)
    BY FramedExists
<1>2. Frame(framer, <<>>) = f[0]
    BY FrameIs
<1> HIDE DEF f
<1> QED
    BY <1>1, <1>2, FramedToStep

LEMMA FrameAnother ==
    ASSUME NEW framer, NEW C, NEW bytes \in Seq(C), NEW byte \in C
    PROVE  Frame(framer, Append(bytes, byte)) = FrameByte(Frame(framer, bytes), byte)
<1> DEFINE k == Len(bytes)
           longer == Append(bytes, byte)
           f == CHOOSE h : FramedTo(h, Len(bytes), framer, bytes)
           g == CHOOSE h : FramedTo(h, Len(longer), framer, longer)
<1>1. k \in Nat /\ Len(longer) = k + 1 /\ longer[k + 1] = byte
      /\ \A n \in 1..k : bytes[n] = longer[n]
    OBVIOUS
<1>2. FramedTo(f, k, framer, bytes)
    BY <1>1, FramedExists
<1>3. FramedTo(g, k + 1, framer, longer)
    BY <1>1, FramedExists
<1>4. Frame(framer, bytes) = f[k] /\ Frame(framer, longer) = g[k + 1]
    BY <1>1, FrameIs
<1> HIDE DEF f, g, k, longer
<1>5. f[k] = g[k]
    BY <1>1, <1>2, <1>3, FramedUnique
<1>6. g[k + 1] = FrameByte(g[(k + 1) - 1], longer[k + 1])
    <2>1. k + 1 \in Nat /\ k + 1 \in 1..(k + 1)
        BY <1>1
    <2>2. PICK m \in Nat : m = k + 1
        BY <2>1
    <2>3. FramedTo(g, m, framer, longer)
        BY <1>3, <2>2
    <2>4. g[m] = FrameByte(g[m - 1], longer[m])
        BY <2>1, <2>2, <2>3, FramedLast
    <2> QED
        BY <2>1, <2>2, <2>4
<1>7. (k + 1) - 1 = k
    BY <1>1
<1> QED
    BY <1>1, <1>4, <1>5, <1>6, <1>7 DEF longer

-----------------------------------------------------------------------------
(***************************************************************************)
(* What a framing may hold, over a set C of cells, and a framing that      *)
(* already held the events of an earlier one.                              *)
(***************************************************************************)
Framers(C) ==
    [line : Seq(C), named : BOOLEAN, name : Seq(C), data : Seq(C \cup {"NL"}), size : Nat,
     count : Nat, cr : BOOLEAN, failed : BOOLEAN]
FramedEvents(C) == [name : Seq(C), data : Seq(C \cup {"NL"})]
Framings(C) == [framer : Framers(C), events : Seq(FramedEvents(C))]
After(events, f) == [framer |-> f.framer, events |-> events \o f.events]

\* Another framer for the same events.
WithFramer(f, g) == [f EXCEPT !.framer = g]

LEMMA Reframed ==
    ASSUME NEW C, NEW f \in Framings(C), NEW g
    PROVE  /\ WithFramer(f, g) = [framer |-> g, events |-> f.events]
           /\ \A e : WithFramer(After(e, f), g) = [framer |-> g, events |-> e \o f.events]
           /\ g \in Framers(C) =>
                 /\ WithFramer(f, g) \in Framings(C)
                 /\ \A e \in Seq(FramedEvents(C)) :
                       WithFramer(After(e, f), g) = After(e, WithFramer(f, g))
<1>1. [f EXCEPT !.framer = g] = [framer |-> g, events |-> f.events]
    BY DEF Framings
<1>2. \A e : [After(e, f) EXCEPT !.framer = g] = [framer |-> g, events |-> e \o f.events]
    <2> SUFFICES ASSUME NEW e
                 PROVE [After(e, f) EXCEPT !.framer = g] = [framer |-> g, events |-> e \o f.events]
        OBVIOUS
    <2> DEFINE both == e \o f.events
               old == f.framer
    <2>1. After(e, f) = [framer |-> old, events |-> both]
        BY DEF After
    <2> HIDE DEF both, old
    <2>2. [[framer |-> old, events |-> both] EXCEPT !.framer = g] = [framer |-> g, events |-> both]
        OBVIOUS
    <2> QED
        BY <2>1, <2>2 DEF both
<1>3. f.events \in Seq(FramedEvents(C))
    BY DEF Framings
<1> QED
    BY <1>1, <1>2, <1>3 DEF After, Framings, WithFramer

LEMMA AfterTyped ==
    ASSUME NEW C, NEW f \in Framings(C), NEW e \in Seq(FramedEvents(C))
    PROVE  After(e, f) \in Framings(C)
    BY DEF After, Framings

LEMMA CrossesTyped ==
    ASSUME NEW C, NEW f \in Framings(C)
    PROVE  /\ Crosses(f) \in Framings(C)
           /\ Crosses(f).framer.failed
           /\ Crosses(f).events = f.events
           /\ \A e \in Seq(FramedEvents(C)) : Crosses(After(e, f)) = After(e, Crosses(f))
<1> DEFINE g == [f.framer EXCEPT !.failed = TRUE]
<1>1. Crosses(f) = WithFramer(f, g)
    BY DEF Crosses, WithFramer
<1>2. \A e : Crosses(After(e, f)) = WithFramer(After(e, f), g)
    BY DEF Crosses, After, WithFramer
<1>3. g \in Framers(C) /\ g.failed
    BY DEF Framers, Framings
<1> HIDE DEF g
<1> QED
    BY <1>1, <1>2, <1>3, Reframed

LEMMA EmitEventTyped ==
    ASSUME NEW C, NEW f \in Framings(C)
    PROVE  /\ EmitEvent(f) \in Framings(C)
           /\ \A e \in Seq(FramedEvents(C)) : EmitEvent(After(e, f)) = After(e, EmitEvent(f))
<1> DEFINE event == [name |-> f.framer.name, data |-> f.framer.data]
           reset == [f.framer EXCEPT !.count = @ + 1, !.named = FALSE, !.name = <<>>,
                                     !.data = <<>>, !.size = 0]
           emitted(es) == [framer |-> reset, events |-> Append(es, event)]
<1>1. event \in FramedEvents(C) /\ f.events \in Seq(FramedEvents(C)) /\ f.framer \in Framers(C)
    BY DEF Framings, Framers, FramedEvents
<1>2. reset \in Framers(C)
    <2>1. <<>> \in Seq(C) /\ <<>> \in Seq(C \cup {"NL"})
        OBVIOUS
    <2>2. f.framer.count + 1 \in Nat
        BY <1>1 DEF Framers
    <2> QED
        BY <1>1, <2>1, <2>2 DEF Framers
<1>3. CASE f.framer.count + 1 > MaxEvents
    <2>1. EmitEvent(f) = Crosses(f)
        BY <1>3 DEF EmitEvent
    <2>2. \A e \in Seq(FramedEvents(C)) : EmitEvent(After(e, f)) = Crosses(After(e, f))
        BY <1>3 DEF EmitEvent, After
    <2> QED
        BY <2>1, <2>2, CrossesTyped
<1>4. CASE ~(f.framer.count + 1 > MaxEvents)
    <2>1. EmitEvent(f) = emitted(f.events)
        BY <1>4 DEF EmitEvent
    <2>2. \A e \in Seq(FramedEvents(C)) : EmitEvent(After(e, f)) = emitted(e \o f.events)
        BY <1>4 DEF EmitEvent, After
    <2> HIDE DEF event, reset
    <2>3. \A e \in Seq(FramedEvents(C)) : Append(e \o f.events, event) = e \o Append(f.events, event)
        BY <1>1
    <2>4. emitted(f.events) \in Framings(C)
        BY <1>1, <1>2 DEF Framings
    <2>5. \A e \in Seq(FramedEvents(C)) : After(e, emitted(f.events)) = emitted(e \o f.events)
        BY <2>3 DEF After
    <2> QED
        BY <2>1, <2>2, <2>4, <2>5
<1> QED
    BY <1>3, <1>4

LEMMA FieldValueTyped ==
    ASSUME NEW C, NEW line \in Seq(C), line # <<>>
    PROVE  FieldValue(line) \in Seq(C)
<1>1. Tail(line) \in Seq(C)
    OBVIOUS
<1>2. Len(line) > 1 => SubSeq(line, 3, Len(line)) \in Seq(C)
    BY SubSeqProperties
<1> QED
    BY <1>1, <1>2 DEF FieldValue

LEMMA FinishLineTyped ==
    ASSUME NEW C, NEW f \in Framings(C)
    PROVE  /\ FinishLine(f) \in Framings(C)
           /\ \A e \in Seq(FramedEvents(C)) : FinishLine(After(e, f)) = After(e, FinishLine(f))
<1> DEFINE line == f.framer.line
           value == FieldValue(line)
           cleared(g) == [g EXCEPT !.framer.line = <<>>]
           joined == IF f.framer.data = <<>> THEN value ELSE Append(f.framer.data, "NL") \o value
           named(g) == [g EXCEPT !.framer.named = TRUE, !.framer.name = value]
           filled(g) == [g EXCEPT !.framer.data = joined]
<1>1. f.framer \in Framers(C) /\ line \in Seq(C) /\ f.framer.data \in Seq(C \cup {"NL"})
    BY DEF Framings, Framers
<1>2. line # <<>> => value \in Seq(C)
    BY <1>1, FieldValueTyped
<1>3. line # <<>> => joined \in Seq(C \cup {"NL"})
    <2> SUFFICES ASSUME line # <<>> PROVE joined \in Seq(C \cup {"NL"})
        OBVIOUS
    <2>1. value \in Seq(C \cup {"NL"})
        BY <1>2
    <2>2. Append(f.framer.data, "NL") \in Seq(C \cup {"NL"})
        BY <1>1
    <2> HIDE DEF value
    <2> QED
        BY <1>1, <2>1, <2>2
<1>4. cleared(f) \in Framings(C)
      /\ \A e \in Seq(FramedEvents(C)) : cleared(After(e, f)) = After(e, cleared(f))
    <2> DEFINE g == [f.framer EXCEPT !.line = <<>>]
    <2>1. cleared(f) = WithFramer(f, g)
        BY DEF WithFramer
    <2>2. \A e : cleared(After(e, f)) = WithFramer(After(e, f), g)
        BY DEF After, WithFramer
    <2>3. g \in Framers(C)
        <3>1. <<>> \in Seq(C)
            OBVIOUS
        <3> QED
            BY <1>1, <3>1 DEF Framers
    <2> HIDE DEF g, cleared
    <2> QED
        BY <2>1, <2>2, <2>3, Reframed
<1>5. \A e \in Seq(FramedEvents(C)) :
          /\ After(e, f).framer = f.framer
          /\ cleared(After(e, f)) = After(e, cleared(f))
    BY <1>4 DEF After
<1>6. CASE line = <<>>
    <2>1. HasEvent(f.framer) => FinishLine(f) = EmitEvent(cleared(f))
          /\ \A e \in Seq(FramedEvents(C)) : FinishLine(After(e, f)) = EmitEvent(After(e, cleared(f)))
        BY <1>5, <1>6 DEF FinishLine
    <2>2. ~HasEvent(f.framer) => FinishLine(f) = cleared(f)
          /\ \A e \in Seq(FramedEvents(C)) : FinishLine(After(e, f)) = After(e, cleared(f))
        BY <1>5, <1>6 DEF FinishLine
    <2> QED
        BY <2>1, <2>2, <1>4, EmitEventTyped
<1>7. CASE line # <<>> /\ line[1] = "event:"
    <2>1. FinishLine(f) = IF Len(value) <= MaxNameBytes THEN named(cleared(f)) ELSE cleared(f)
        BY <1>7 DEF FinishLine
    <2>2. \A e \in Seq(FramedEvents(C)) : FinishLine(After(e, f)) =
              IF Len(value) <= MaxNameBytes THEN named(After(e, cleared(f)))
              ELSE After(e, cleared(f))
        BY <1>5, <1>7 DEF FinishLine
    <2> HIDE DEF value
    <2> DEFINE g == [cleared(f).framer EXCEPT !.named = TRUE, !.name = value]
    <2>3. cleared(f).framer \in Framers(C) /\ cleared(f).events \in Seq(FramedEvents(C))
        BY <1>4 DEF Framings
    <2>4. g \in Framers(C)
        BY <1>2, <1>7, <2>3 DEF Framers
    <2>5. named(cleared(f)) = WithFramer(cleared(f), g)
        BY DEF WithFramer
    <2>6. \A e : named(After(e, cleared(f))) = WithFramer(After(e, cleared(f)), g)
        <3> HIDE DEF cleared
        <3> QED
            BY DEF After, WithFramer
    <2> HIDE DEF g, cleared, named
    <2>7. named(cleared(f)) \in Framings(C)
          /\ \A e \in Seq(FramedEvents(C)) :
                 named(After(e, cleared(f))) = After(e, named(cleared(f)))
        BY <1>4, <2>4, <2>5, <2>6, Reframed
    <2> QED
        BY <2>1, <2>2, <2>7, <1>4
<1>8. CASE line # <<>> /\ line[1] = "data:"
    <2>1. FinishLine(f) = IF Len(joined) > MaxEventBytes THEN Crosses(cleared(f))
                          ELSE filled(cleared(f))
        BY <1>8 DEF FinishLine
    <2>2. \A e \in Seq(FramedEvents(C)) : FinishLine(After(e, f)) =
              IF Len(joined) > MaxEventBytes THEN Crosses(After(e, cleared(f)))
              ELSE filled(After(e, cleared(f)))
        BY <1>5, <1>8 DEF FinishLine
    <2> HIDE DEF value, joined
    <2> DEFINE g == [cleared(f).framer EXCEPT !.data = joined]
    <2>3. cleared(f).framer \in Framers(C) /\ cleared(f).events \in Seq(FramedEvents(C))
        BY <1>4 DEF Framings
    <2>4. g \in Framers(C)
        BY <1>3, <1>8, <2>3 DEF Framers
    <2>5. filled(cleared(f)) = WithFramer(cleared(f), g)
        BY DEF WithFramer
    <2>6. \A e : filled(After(e, cleared(f))) = WithFramer(After(e, cleared(f)), g)
        <3> HIDE DEF cleared
        <3> QED
            BY DEF After, WithFramer
    <2> HIDE DEF g, cleared, filled
    <2>7. filled(cleared(f)) \in Framings(C)
          /\ \A e \in Seq(FramedEvents(C)) :
                 filled(After(e, cleared(f))) = After(e, filled(cleared(f)))
        BY <1>4, <2>4, <2>5, <2>6, Reframed
    <2> QED
        BY <2>1, <2>2, <2>7, <1>4, CrossesTyped
<1>9. CASE line # <<>> /\ line[1] \notin {"event:", "data:"}
    <2>1. FinishLine(f) = cleared(f)
        BY <1>9 DEF FinishLine
    <2>2. \A e \in Seq(FramedEvents(C)) : FinishLine(After(e, f)) = After(e, cleared(f))
        BY <1>5, <1>9 DEF FinishLine
    <2> QED
        BY <2>1, <2>2, <1>4
<1> QED
    BY <1>6, <1>7, <1>8, <1>9

Uncr(f) == [f EXCEPT !.framer.cr = FALSE]
Marked(f) == [f EXCEPT !.framer.cr = TRUE]
Written(f, byte) == [f EXCEPT !.framer.size = @ + 1, !.framer.line = Append(@, byte)]

LEMMA CrTyped ==
    ASSUME NEW C, NEW f \in Framings(C)
    PROVE  /\ Uncr(f) \in Framings(C) /\ Marked(f) \in Framings(C)
           /\ \A e \in Seq(FramedEvents(C)) :
                 Uncr(After(e, f)) = After(e, Uncr(f)) /\ Marked(After(e, f)) = After(e, Marked(f))
<1> DEFINE u == [f.framer EXCEPT !.cr = FALSE]
           m == [f.framer EXCEPT !.cr = TRUE]
<1>1. /\ Uncr(f) = WithFramer(f, u)
      /\ \A e : Uncr(After(e, f)) = WithFramer(After(e, f), u)
    BY DEF Uncr, WithFramer, After
<1>2. /\ Marked(f) = WithFramer(f, m)
      /\ \A e : Marked(After(e, f)) = WithFramer(After(e, f), m)
    BY DEF Marked, WithFramer, After
<1>3. u \in Framers(C) /\ m \in Framers(C)
    BY DEF Framings, Framers
<1> HIDE DEF u, m
<1>4. Uncr(f) \in Framings(C)
      /\ \A e \in Seq(FramedEvents(C)) : Uncr(After(e, f)) = After(e, Uncr(f))
    BY <1>1, <1>3, Reframed
<1>5. Marked(f) \in Framings(C)
      /\ \A e \in Seq(FramedEvents(C)) : Marked(After(e, f)) = After(e, Marked(f))
    BY <1>2, <1>3, Reframed
<1> QED
    BY <1>4, <1>5

LEMMA WrittenTyped ==
    ASSUME NEW C, NEW f \in Framings(C), NEW byte \in C
    PROVE  /\ Written(f, byte) \in Framings(C)
           /\ \A e \in Seq(FramedEvents(C)) : Written(After(e, f), byte) = After(e, Written(f, byte))
<1> DEFINE w == [f.framer EXCEPT !.size = @ + 1, !.line = Append(@, byte)]
<1>1. /\ Written(f, byte) = WithFramer(f, w)
      /\ \A e : Written(After(e, f), byte) = WithFramer(After(e, f), w)
    BY DEF Written, WithFramer, After
<1>2. f.framer \in Framers(C) /\ f.framer.size + 1 \in Nat /\ Append(f.framer.line, byte) \in Seq(C)
    BY DEF Framings, Framers
<1>3. w \in Framers(C)
    BY <1>2 DEF Framers
<1> HIDE DEF w
<1> QED
    BY <1>1, <1>3, Reframed

\* What a CR that is still pending leaves.
Unpended(f) == IF f.framer.cr THEN FinishLine(Uncr(f)) ELSE f

LEMMA FrameByteIs ==
    ASSUME NEW f, NEW byte
    PROVE  FrameByte(f, byte) =
               IF f.framer.failed THEN f
               ELSE IF Unpended(f).framer.failed THEN Unpended(f)
               ELSE IF byte = "CR" THEN Marked(Unpended(f))
               ELSE IF byte = "LF"
                    THEN IF f.framer.cr THEN Unpended(f) ELSE FinishLine(Unpended(f))
               ELSE IF Unpended(f).framer.size + 1 > MaxEventBytes THEN Crosses(Unpended(f))
               ELSE Written(Unpended(f), byte)
    BY DEF FrameByte, Unpended, Uncr, Marked, Written

LEMMA UnpendedTyped ==
    ASSUME NEW C, NEW f \in Framings(C)
    PROVE  /\ Unpended(f) \in Framings(C)
           /\ \A e \in Seq(FramedEvents(C)) : Unpended(After(e, f)) = After(e, Unpended(f))
<1>1. Uncr(f) \in Framings(C)
      /\ \A e \in Seq(FramedEvents(C)) : Uncr(After(e, f)) = After(e, Uncr(f))
    BY CrTyped
<1>2. \A e : After(e, f).framer = f.framer
    BY DEF After
<1> QED
    BY <1>1, <1>2, FinishLineTyped DEF Unpended

LEMMA FrameByteTyped ==
    ASSUME NEW C, NEW f \in Framings(C), NEW byte \in C
    PROVE  /\ FrameByte(f, byte) \in Framings(C)
           /\ \A e \in Seq(FramedEvents(C)) : FrameByte(After(e, f), byte) = After(e, FrameByte(f, byte))
           /\ f.framer.failed => FrameByte(f, byte) = f
<1> DEFINE u == Unpended(f)
<1>1. u \in Framings(C) /\ FinishLine(u) \in Framings(C) /\ Crosses(u) \in Framings(C)
      /\ Marked(u) \in Framings(C) /\ Written(u, byte) \in Framings(C)
    BY UnpendedTyped, FinishLineTyped, CrossesTyped, CrTyped, WrittenTyped
<1>2. FrameByte(f, byte) \in Framings(C) /\ (f.framer.failed => FrameByte(f, byte) = f)
    <2> HIDE DEF u
    <2>1. FrameByte(f, byte) \in {f, u, FinishLine(u), Crosses(u), Marked(u), Written(u, byte)}
        BY FrameByteIs DEF u
    <2>2. f.framer.failed => FrameByte(f, byte) = f
        BY FrameByteIs
    <2> QED
        BY <1>1, <2>1, <2>2
<1>3. ASSUME NEW e \in Seq(FramedEvents(C))
      PROVE  FrameByte(After(e, f), byte) = After(e, FrameByte(f, byte))
    <2> DEFINE v == Unpended(After(e, f))
    <2>1. v = After(e, u)
        BY UnpendedTyped
    <2>2. /\ FinishLine(v) = After(e, FinishLine(u)) /\ Crosses(v) = After(e, Crosses(u))
          /\ Marked(v) = After(e, Marked(u)) /\ Written(v, byte) = After(e, Written(u, byte))
        BY <1>1, <2>1, FinishLineTyped, CrossesTyped, CrTyped, WrittenTyped
    <2>3. v.framer = u.framer /\ After(e, f).framer = f.framer
        BY <2>1 DEF After
    <2> HIDE DEF u, v
    <2>4. FrameByte(After(e, f), byte) =
              IF f.framer.failed THEN After(e, f)
              ELSE IF u.framer.failed THEN v
              ELSE IF byte = "CR" THEN Marked(v)
              ELSE IF byte = "LF" THEN IF f.framer.cr THEN v ELSE FinishLine(v)
              ELSE IF u.framer.size + 1 > MaxEventBytes THEN Crosses(v)
              ELSE Written(v, byte)
        BY <2>3, FrameByteIs DEF v
    <2>5. FrameByte(f, byte) =
              IF f.framer.failed THEN f
              ELSE IF u.framer.failed THEN u
              ELSE IF byte = "CR" THEN Marked(u)
              ELSE IF byte = "LF" THEN IF f.framer.cr THEN u ELSE FinishLine(u)
              ELSE IF u.framer.size + 1 > MaxEventBytes THEN Crosses(u)
              ELSE Written(u, byte)
        BY FrameByteIs DEF u
    <2> QED
        BY <2>1, <2>2, <2>4, <2>5
<1> QED
    BY <1>2, <1>3

-----------------------------------------------------------------------------
(***************************************************************************)
(* Framing one fragment after another frames the two as one.               *)
(***************************************************************************)
LEMMA SeqSetInduction ==
    ASSUME NEW C, NEW S, <<>> \in S,
           \A b \in Seq(C) : \A x \in C : b \in S => Append(b, x) \in S
    PROVE  Seq(C) \subseteq S
<1> DEFINE T == {n \in Nat : \A b \in Seq(C) : Len(b) = n => b \in S}
<1>1. 0 \in T
    <2>1. \A b \in Seq(C) : Len(b) = 0 => b = <<>>
        OBVIOUS
    <2> QED
        BY <2>1
<1>2. ASSUME NEW n \in Nat, n \in T PROVE n + 1 \in T
    <2> SUFFICES ASSUME NEW b \in Seq(C), Len(b) = n + 1 PROVE b \in S
        OBVIOUS
    <2> DEFINE a == SubSeq(b, 1, n)
    <2>1. a \in Seq(C) /\ Len(a) = n /\ \A i \in 1..n : a[i] = b[i]
        BY SubSeqProperties
    <2>2. b[n + 1] \in C
        OBVIOUS
    <2> HIDE DEF a
    <2>3. b = Append(a, b[n + 1])
        BY <2>1, <2>2
    <2>4. a \in S
        BY <1>2, <2>1
    <2> QED
        BY <2>1, <2>2, <2>3, <2>4
<1> HIDE DEF T
<1>3. Nat \subseteq T
    BY <1>1, <1>2, NatSetInduction
<1>4. \A b \in Seq(C) : Len(b) \in Nat
    OBVIOUS
<1> QED
    BY <1>3, <1>4 DEF T

LEMMA FrameTyped ==
    ASSUME NEW C, NEW framer \in Framers(C)
    PROVE  \A bytes \in Seq(C) : Frame(framer, bytes) \in Framings(C)
<1> DEFINE S == {b \in Seq(C) : Frame(framer, b) \in Framings(C)}
<1>1. <<>> \in S
    <2>1. <<>> \in Seq(C) /\ <<>> \in Seq(FramedEvents(C))
        OBVIOUS
    <2>2. [framer |-> framer, events |-> <<>>] \in Framings(C)
        BY <2>1 DEF Framings
    <2>3. Frame(framer, <<>>) \in Framings(C)
        BY <2>2, FrameNothing
    <2> QED
        BY <2>1, <2>3
<1>2. \A b \in Seq(C) : \A x \in C : b \in S => Append(b, x) \in S
    <2> SUFFICES ASSUME NEW b \in Seq(C), NEW x \in C, b \in S PROVE Append(b, x) \in S
        OBVIOUS
    <2>1. Append(b, x) \in Seq(C)
        OBVIOUS
    <2>2. Frame(framer, b) \in Framings(C)
        OBVIOUS
    <2>3. FrameByte(Frame(framer, b), x) \in Framings(C)
        BY <2>2, FrameByteTyped
    <2> QED
        BY <2>1, <2>3, FrameAnother
<1> HIDE DEF S
<1>3. Seq(C) \subseteq S
    BY <1>1, <1>2, SeqSetInduction
<1> QED
    BY <1>3 DEF S

LEMMA FrameConcat ==
    ASSUME NEW C, NEW framer \in Framers(C), NEW a \in Seq(C)
    PROVE  \A b \in Seq(C) :
               Frame(framer, a \o b) = After(Frame(framer, a).events, Frame(Frame(framer, a).framer, b))
<1> DEFINE F == Frame(framer, a)
           S == {b \in Seq(C) : Frame(framer, a \o b) = After(F.events, Frame(F.framer, b))}
<1>0. F \in Framings(C)
    BY FrameTyped
<1>a. F.framer \in Framers(C) /\ F.events \in Seq(FramedEvents(C))
    BY <1>0 DEF Framings
<1>1. <<>> \in S
    <2>1. <<>> \in Seq(C) /\ a \o <<>> = a
        OBVIOUS
    <2>2. F = [framer |-> F.framer, events |-> F.events]
        BY <1>0 DEF Framings
    <2> HIDE DEF F
    <2>3. F.events \o <<>> = F.events
        BY <1>a
    <2>4. After(F.events, [framer |-> F.framer, events |-> <<>>]) = F
        BY <2>2, <2>3 DEF After
    <2>5. Frame(framer, a \o <<>>) = F
        BY <2>1 DEF F
    <2> QED
        BY <2>1, <2>4, <2>5, FrameNothing
<1>2. \A b \in Seq(C) : \A x \in C : b \in S => Append(b, x) \in S
    <2> SUFFICES ASSUME NEW b \in Seq(C), NEW x \in C, b \in S PROVE Append(b, x) \in S
        OBVIOUS
    <2> DEFINE G == Frame(F.framer, b)
    <2>1. Append(b, x) \in Seq(C) /\ a \o b \in Seq(C) /\ a \o Append(b, x) = Append(a \o b, x)
        OBVIOUS
    <2>2. Frame(framer, a \o b) = After(F.events, G)
        OBVIOUS
    <2>3. Frame(framer, Append(a \o b, x)) = FrameByte(Frame(framer, a \o b), x)
        BY <2>1, FrameAnother
    <2>4. Frame(F.framer, Append(b, x)) = FrameByte(G, x)
        BY FrameAnother
    <2>5. G \in Framings(C)
        BY <1>a, FrameTyped
    <2> HIDE DEF F, G
    <2>6. FrameByte(After(F.events, G), x) = After(F.events, FrameByte(G, x))
        BY <1>a, <2>5, FrameByteTyped
    <2>7. Frame(framer, a \o Append(b, x)) = After(F.events, Frame(F.framer, Append(b, x)))
        BY <2>1, <2>2, <2>3, <2>4, <2>6
    <2> QED
        BY <2>1, <2>7
<1> HIDE DEF S
<1>3. Seq(C) \subseteq S
    BY <1>1, <1>2, SeqSetInduction
<1> QED
    BY <1>3 DEF S

\* A framer past a bound takes nothing more.
LEMMA FrameFailed ==
    ASSUME NEW C, NEW framer \in Framers(C), framer.failed
    PROVE  \A b \in Seq(C) : Frame(framer, b) = [framer |-> framer, events |-> <<>>]
<1> DEFINE start == [framer |-> framer, events |-> <<>>]
           S == {b \in Seq(C) : Frame(framer, b) = start}
<1>1. <<>> \in S
    <2>1. <<>> \in Seq(C)
        OBVIOUS
    <2> QED
        BY <2>1, FrameNothing
<1>2. \A b \in Seq(C) : \A x \in C : b \in S => Append(b, x) \in S
    <2> SUFFICES ASSUME NEW b \in Seq(C), NEW x \in C, b \in S PROVE Append(b, x) \in S
        OBVIOUS
    <2>1. Append(b, x) \in Seq(C) /\ Frame(framer, b) = start
        OBVIOUS
    <2>2. start \in Framings(C) /\ start.framer.failed
        <3>1. <<>> \in Seq(FramedEvents(C))
            OBVIOUS
        <3> QED
            BY <3>1 DEF Framings
    <2>3. FrameByte(start, x) = start
        BY <2>2, FrameByteTyped
    <2> HIDE DEF start
    <2>4. Frame(framer, Append(b, x)) = start
        BY <2>1, <2>3, FrameAnother
    <2> QED
        BY <2>1, <2>4
<1> HIDE DEF S
<1>3. Seq(C) \subseteq S
    BY <1>1, <1>2, SeqSetInduction
<1> QED
    BY <1>3 DEF S

-----------------------------------------------------------------------------
(***************************************************************************)
(* ObserveEvents likewise.                                                 *)
(***************************************************************************)
ObservedTo(f, m, o, events) ==
    f = [n \in 0..m |-> IF n = 0 THEN o
                        ELSE ObserveEvent(f[n - 1], events[n])]

LEMMA ObserveEventsIs ==
    ASSUME NEW o, NEW events
    PROVE  ObserveEvents(o, events)
               = (CHOOSE f : ObservedTo(f, Len(events), o, events))[Len(events)]
    BY DEF ObserveEvents, ObservedTo

LEMMA ObservedExists ==
    ASSUME NEW o, NEW events
    PROVE  \A m \in Nat : \E f : ObservedTo(f, m, o, events)
<1> DEFINE S == {m \in Nat : \E f : ObservedTo(f, m, o, events)}
<1>1. 0 \in S
    <2> DEFINE f == [n \in 0..0 |-> o]
    <2>1. ObservedTo(f, 0, o, events)
        BY DEF ObservedTo
    <2> QED
        BY <2>1
<1>2. ASSUME NEW m \in Nat, m \in S PROVE m + 1 \in S
    <2>1. PICK f : ObservedTo(f, m, o, events)
        BY <1>2
    <2> DEFINE g == [n \in 0..(m + 1) |-> IF n = m + 1 THEN ObserveEvent(f[m], events[m + 1]) ELSE f[n]]
    <2> DEFINE h(n) == IF n = 0 THEN o
                       ELSE ObserveEvent(g[n - 1], events[n])
    <2>2. \A n \in 0..(m + 1) : g[n] = h(n)
        <3> SUFFICES ASSUME NEW n \in 0..(m + 1) PROVE g[n] = h(n)
            OBVIOUS
        <3>1. CASE n = m + 1
            BY <3>1
        <3>2. CASE n # m + 1
            <4>1. n \in 0..m /\ g[n] = f[n]
                BY <3>2
            <4>2. f[n] = IF n = 0 THEN o
                         ELSE ObserveEvent(f[n - 1], events[n])
                BY <2>1, <4>1 DEF ObservedTo
            <4>3. n # 0 => g[n - 1] = f[n - 1]
                BY <4>1
            <4> QED
                BY <4>1, <4>2, <4>3
        <3> QED
            BY <3>1, <3>2
    <2>3. g = [n \in 0..(m + 1) |-> h(n)]
        BY <2>2
    <2>4. ObservedTo(g, m + 1, o, events)
        BY <2>3 DEF ObservedTo
    <2> HIDE DEF g
    <2> QED
        BY <2>4
<1> HIDE DEF S
<1>3. Nat \subseteq S
    BY <1>1, <1>2, NatSetInduction
<1> QED
    BY <1>3 DEF S

LEMMA ObservedToStep ==
    ASSUME NEW f, NEW m \in Nat, NEW o, NEW events, ObservedTo(f, m, o, events)
    PROVE  /\ f[0] = o
           /\ \A n \in 1..m : f[n] = ObserveEvent(f[n - 1], events[n])
<1> DEFINE h(n) == IF n = 0 THEN o
                   ELSE ObserveEvent(f[n - 1], events[n])
<1>1. f = [n \in 0..m |-> h(n)]
    BY DEF ObservedTo
<1>2. \A n \in 0..m : f[n] = h(n)
    BY <1>1
<1> QED
    BY <1>2

LEMMA ObservedLast ==
    ASSUME NEW f, NEW m \in Nat, m # 0, NEW o, NEW events, ObservedTo(f, m, o, events)
    PROVE  f[m] = ObserveEvent(f[m - 1], events[m])
<1>1. /\ f[0] = o
      /\ \A n \in 1..m : f[n] = ObserveEvent(f[n - 1], events[n])
    BY ObservedToStep
<1>2. m \in 1..m
    OBVIOUS
<1> QED
    BY <1>1, <1>2

\* Two observations agree as far as both go and their events agree.
LEMMA ObservedUnique ==
    ASSUME NEW o, NEW a, NEW b, NEW k \in Nat, NEW m \in Nat, k <= m,
           \A n \in 1..k : a[n] = b[n],
           NEW f, ObservedTo(f, k, o, a), NEW g, ObservedTo(g, m, o, b)
    PROVE  f[k] = g[k]
<1> DEFINE S == {n \in Nat : n <= k => f[n] = g[n]}
<1>1. /\ f[0] = o
      /\ \A n \in 1..k : f[n] = ObserveEvent(f[n - 1], a[n])
    BY ObservedToStep
<1>2. /\ g[0] = o
      /\ \A n \in 1..m : g[n] = ObserveEvent(g[n - 1], b[n])
    BY ObservedToStep
<1>3. 0 \in S
    BY <1>1, <1>2
<1>4. ASSUME NEW n \in Nat, n \in S PROVE n + 1 \in S
    <2> SUFFICES ASSUME n + 1 <= k PROVE f[n + 1] = g[n + 1]
        OBVIOUS
    <2>1. n + 1 \in 1..k /\ n + 1 \in 1..m /\ (n + 1) - 1 = n /\ n <= k
        OBVIOUS
    <2>2. f[n] = g[n] /\ a[n + 1] = b[n + 1]
        BY <1>4, <2>1
    <2>3. f[n + 1] = ObserveEvent(f[n], a[n + 1])
        BY <1>1, <2>1
    <2>4. g[n + 1] = ObserveEvent(g[n], b[n + 1])
        BY <1>2, <2>1
    <2> QED
        BY <2>2, <2>3, <2>4
<1> HIDE DEF S
<1>5. Nat \subseteq S
    BY <1>3, <1>4, NatSetInduction
<1> QED
    BY <1>5 DEF S

LEMMA ObserveNothing ==
    ASSUME NEW o
    PROVE  ObserveEvents(o, <<>>) = o
<1> DEFINE f == CHOOSE f : ObservedTo(f, 0, o, <<>>)
<1>1. ObservedTo(f, 0, o, <<>>)
    BY ObservedExists
<1>2. ObserveEvents(o, <<>>) = f[0]
    BY ObserveEventsIs
<1> HIDE DEF f
<1> QED
    BY <1>1, <1>2, ObservedToStep

LEMMA ObserveAnother ==
    ASSUME NEW o, NEW C, NEW events \in Seq(C), NEW event \in C
    PROVE  ObserveEvents(o, Append(events, event)) = ObserveEvent(ObserveEvents(o, events), event)
<1> DEFINE k == Len(events)
           longer == Append(events, event)
           f == CHOOSE h : ObservedTo(h, Len(events), o, events)
           g == CHOOSE h : ObservedTo(h, Len(longer), o, longer)
<1>1. k \in Nat /\ Len(longer) = k + 1 /\ longer[k + 1] = event
      /\ \A n \in 1..k : events[n] = longer[n]
    OBVIOUS
<1>2. ObservedTo(f, k, o, events)
    BY <1>1, ObservedExists
<1>3. ObservedTo(g, k + 1, o, longer)
    BY <1>1, ObservedExists
<1>4. ObserveEvents(o, events) = f[k] /\ ObserveEvents(o, longer) = g[k + 1]
    BY <1>1, ObserveEventsIs
<1> HIDE DEF f, g, k, longer
<1>5. f[k] = g[k]
    BY <1>1, <1>2, <1>3, ObservedUnique
<1>6. g[k + 1] = ObserveEvent(g[(k + 1) - 1], longer[k + 1])
    <2>1. k + 1 \in Nat /\ k + 1 \in 1..(k + 1)
        BY <1>1
    <2>2. PICK m \in Nat : m = k + 1
        BY <2>1
    <2>3. ObservedTo(g, m, o, longer)
        BY <1>3, <2>2
    <2>4. g[m] = ObserveEvent(g[m - 1], longer[m])
        BY <2>1, <2>2, <2>3, ObservedLast
    <2> QED
        BY <2>1, <2>2, <2>4
<1>7. (k + 1) - 1 = k
    BY <1>1
<1> QED
    BY <1>1, <1>4, <1>5, <1>6, <1>7 DEF longer

-----------------------------------------------------------------------------
(***************************************************************************)
(* Observers that differ only in their framer and their counts.            *)
(***************************************************************************)
ResponseFields ==
    {"status", "id", "model", "state", "reason", "code", "usage", "usageStatus", "compaction",
     "chunks", "bytes"}
ObserverFields ==
    {"framer", "status", "response", "evidence", "usageEvidence", "settled", "terminal"}
IsObserver(o) ==
    /\ DOMAIN o = ObserverFields /\ DOMAIN o.response = ResponseFields
    /\ o.settled \in BOOLEAN /\ o.terminal \in BOOLEAN

\* The fields of a response that an event may set, and those of an observer besides it.
AlikeResponses(r, s) ==
    /\ r.status = s.status /\ r.id = s.id /\ r.model = s.model /\ r.state = s.state
    /\ r.reason = s.reason /\ r.code = s.code /\ r.usage = s.usage
    /\ r.usageStatus = s.usageStatus /\ r.compaction = s.compaction
Alike(o, p) ==
    /\ o.status = p.status /\ o.evidence = p.evidence /\ o.usageEvidence = p.usageEvidence
    /\ o.settled = p.settled /\ o.terminal = p.terminal
    /\ AlikeResponses(o.response, p.response)

\* What no event touches.
SameCounts(o, p) ==
    /\ p.framer = o.framer /\ p.settled = o.settled
    /\ p.response.chunks = o.response.chunks /\ p.response.bytes = o.response.bytes

LEMMA DegradeFields ==
    ASSUME NEW o, IsObserver(o), NEW status
    PROVE  /\ IsObserver(Degrade(o, status)) /\ SameCounts(o, Degrade(o, status))
           /\ Degrade(o, status).response = o.response
           /\ Degrade(o, status).evidence = o.evidence
           /\ Degrade(o, status).usageEvidence = o.usageEvidence
           /\ Degrade(o, status).terminal = o.terminal
           /\ Degrade(o, status).status
                 = IF Severity(status) > Severity(o.status) THEN status ELSE o.status
    BY DEF Degrade, IsObserver, ObserverFields, SameCounts

LEMMA DegradeIfFields ==
    ASSUME NEW o, IsObserver(o), NEW condition, NEW status
    PROVE  /\ IsObserver(DegradeIf(o, condition, status))
           /\ SameCounts(o, DegradeIf(o, condition, status))
           /\ DegradeIf(o, condition, status).response = o.response
           /\ DegradeIf(o, condition, status).evidence = o.evidence
           /\ DegradeIf(o, condition, status).usageEvidence = o.usageEvidence
           /\ DegradeIf(o, condition, status).terminal = o.terminal
           /\ DegradeIf(o, condition, status).status
                 = IF condition /\ Severity(status) > Severity(o.status) THEN status ELSE o.status
    BY DegradeFields DEF DegradeIf, SameCounts

LEMMA ReadFieldsFields ==
    ASSUME NEW o, IsObserver(o), NEW object, NEW evidence
    PROVE  LET p == ReadFields(o, object, evidence)
               retained == evidence.outcome = "Retained"
           IN  /\ IsObserver(p) /\ SameCounts(o, p)
               /\ p.status = o.status /\ p.evidence = o.evidence /\ p.terminal = o.terminal
               /\ p.usageEvidence = IF retained THEN evidence.status ELSE o.usageEvidence
               /\ p.response.id = FirstOf(o.response.id, Extract(object, "id"))
               /\ p.response.model = FirstOf(o.response.model, Extract(object, "model"))
               /\ p.response.reason = Detail(object, o.response.reason, "incomplete_details", "reason")
               /\ p.response.code = Detail(object, o.response.code, "error", "code")
               /\ p.response.usage = IF retained THEN evidence.usage ELSE o.response.usage
               /\ p.response.status = o.response.status /\ p.response.state = o.response.state
               /\ p.response.usageStatus = o.response.usageStatus
               /\ p.response.compaction = o.response.compaction
<1> DEFINE retained == evidence.outcome = "Retained"
           r == [o.response EXCEPT
                     !.id = FirstOf(@, Extract(object, "id")),
                     !.model = FirstOf(@, Extract(object, "model")),
                     !.reason = Detail(object, @, "incomplete_details", "reason"),
                     !.code = Detail(object, @, "error", "code"),
                     !.usage = IF retained THEN evidence.usage ELSE @]
           u == IF retained THEN evidence.status ELSE o.usageEvidence
<1>1. ReadFields(o, object, evidence) = [o EXCEPT !.response = r, !.usageEvidence = u]
    BY DEF ReadFields
<1>2. /\ DOMAIN r = ResponseFields
      /\ r.id = FirstOf(o.response.id, Extract(object, "id"))
      /\ r.model = FirstOf(o.response.model, Extract(object, "model"))
      /\ r.reason = Detail(object, o.response.reason, "incomplete_details", "reason")
      /\ r.code = Detail(object, o.response.code, "error", "code")
      /\ r.usage = IF retained THEN evidence.usage ELSE o.response.usage
      /\ r.status = o.response.status /\ r.state = o.response.state
      /\ r.usageStatus = o.response.usageStatus /\ r.compaction = o.response.compaction
      /\ r.chunks = o.response.chunks /\ r.bytes = o.response.bytes
    BY DEF IsObserver, ResponseFields
<1> HIDE DEF r, u
<1>3. LET p == [o EXCEPT !.response = r, !.usageEvidence = u]
      IN  /\ DOMAIN p = ObserverFields /\ p.response = r /\ p.usageEvidence = u
          /\ p.framer = o.framer /\ p.settled = o.settled /\ p.status = o.status
          /\ p.evidence = o.evidence /\ p.terminal = o.terminal
    BY DEF IsObserver, ObserverFields
<1> QED
    BY <1>1, <1>2, <1>3 DEF u, IsObserver, SameCounts

LEMMA RefusesAlike ==
    ASSUME NEW r, NEW s, AlikeResponses(r, s), NEW object
    PROVE  Refuses(r, object) = Refuses(s, object)
    BY DEF AlikeResponses, Refuses, DetailRefused

LEMMA ReadEvidenceFields ==
    ASSUME NEW o, IsObserver(o), NEW object, NEW evidence
    PROVE  LET p == ReadEvidence(o, object, evidence)
               q == ReadFields(o, object, evidence)
           IN  /\ IsObserver(p) /\ SameCounts(o, p)
               /\ p.response = q.response /\ p.evidence = o.evidence /\ p.terminal = o.terminal
               /\ p.usageEvidence = q.usageEvidence
<1> DEFINE q == ReadFields(o, object, evidence)
           d == DegradeIf(q, Refuses(o.response, object) \/ evidence.outcome = "Unusable", "Partial")
           p == DegradeIf(d, evidence.outcome = "Oversized", "ResourceLimit")
<1>1. ReadEvidence(o, object, evidence) = p
    BY DEF ReadEvidence
<1>2. IsObserver(q) /\ SameCounts(o, q) /\ q.evidence = o.evidence /\ q.terminal = o.terminal
    BY ReadFieldsFields
<1> HIDE DEF q
<1>3. /\ IsObserver(d) /\ SameCounts(q, d) /\ d.response = q.response /\ d.evidence = q.evidence
      /\ d.terminal = q.terminal /\ d.usageEvidence = q.usageEvidence
    BY <1>2, DegradeIfFields
<1> HIDE DEF d
<1>4. /\ IsObserver(p) /\ SameCounts(d, p) /\ p.response = d.response /\ p.evidence = d.evidence
      /\ p.terminal = d.terminal /\ p.usageEvidence = d.usageEvidence
    BY <1>3, DegradeIfFields
<1> HIDE DEF p
<1>5. SameCounts(o, p)
    BY <1>2, <1>3, <1>4 DEF SameCounts
<1> QED
    BY <1>1, <1>2, <1>3, <1>4, <1>5 DEF q

LEMMA ReadEvidenceAlike ==
    ASSUME NEW o, NEW p, IsObserver(o), IsObserver(p), Alike(o, p), NEW object, NEW evidence
    PROVE  Alike(ReadEvidence(o, object, evidence), ReadEvidence(p, object, evidence))
<1> DEFINE ro == ReadFields(o, object, evidence)
           rp == ReadFields(p, object, evidence)
           refused == Refuses(o.response, object) \/ evidence.outcome = "Unusable"
           do == DegradeIf(ro, refused, "Partial")
           dp == DegradeIf(rp, refused, "Partial")
<1>1. /\ ReadEvidence(o, object, evidence)
             = DegradeIf(do, evidence.outcome = "Oversized", "ResourceLimit")
      /\ ReadEvidence(p, object, evidence)
             = DegradeIf(dp, evidence.outcome = "Oversized", "ResourceLimit")
    <2>1. Refuses(o.response, object) = Refuses(p.response, object)
        BY RefusesAlike DEF Alike
    <2> QED
        BY <2>1 DEF ReadEvidence
<1>2. IsObserver(ro) /\ IsObserver(rp) /\ Alike(ro, rp)
    BY ReadFieldsFields, SMTT(30) DEF Alike, AlikeResponses, SameCounts
<1> HIDE DEF ro, rp, refused
<1>3. IsObserver(do) /\ IsObserver(dp) /\ Alike(do, dp)
    BY <1>2, DegradeIfFields DEF Alike, SameCounts
<1> HIDE DEF do, dp
<1>4. Alike(DegradeIf(do, evidence.outcome = "Oversized", "ResourceLimit"),
            DegradeIf(dp, evidence.outcome = "Oversized", "ResourceLimit"))
    BY <1>3, DegradeIfFields DEF Alike, SameCounts
<1> QED
    BY <1>1, <1>4

\* The two halves of ReadLifecycle: the state an event names, then the usage status it leaves.
Moved(o, state) ==
    IF state = "none" THEN o
    ELSE [o EXCEPT !.response.state = state,
                   !.evidence = IF state \in TerminalStates THEN state ELSE @,
                   !.terminal = @ \/ state \in TerminalStates]
UsageLeft(o, moved) ==
    IF o.usageEvidence = "none" THEN "Unavailable"
    ELSE SettleUsageStatus(o.usageEvidence, moved.evidence # "none")
WithUsageStatus(o, usage) == [o EXCEPT !.response.usageStatus = usage]

LEMMA ReadLifecycleIs ==
    ASSUME NEW o, NEW state
    PROVE  LET moved == Moved(o, state)
               usage == UsageLeft(o, moved)
           IN  ReadLifecycle(o, state)
                   = DegradeIf(WithUsageStatus(moved, usage),
                               moved.evidence = "Completed" /\ usage = "Unavailable", "Partial")
    BY DEF ReadLifecycle, Moved, UsageLeft, WithUsageStatus

LEMMA MovedFields ==
    ASSUME NEW o, IsObserver(o), NEW state
    PROVE  LET p == Moved(o, state)
               ends == state # "none" /\ state \in TerminalStates
           IN  /\ IsObserver(p) /\ SameCounts(o, p)
               /\ p.status = o.status /\ p.usageEvidence = o.usageEvidence
               /\ p.evidence = IF ends THEN state ELSE o.evidence
               /\ p.terminal = IF ends THEN TRUE ELSE o.terminal
               /\ p.response.state = IF state = "none" THEN o.response.state ELSE state
<1>1. CASE state = "none"
    BY <1>1 DEF Moved, SameCounts
<1>2. CASE state # "none"
    <2> DEFINE r == [o.response EXCEPT !.state = state]
               e == IF state \in TerminalStates THEN state ELSE o.evidence
               t == o.terminal \/ state \in TerminalStates
               p == [o EXCEPT !.response = r, !.evidence = e, !.terminal = t]
    <2>1. Moved(o, state) = p
        BY <1>2 DEF Moved
    <2>2. /\ DOMAIN r = ResponseFields /\ r.state = state
          /\ \A field \in ResponseFields \ {"state"} : r[field] = o.response[field]
        BY DEF IsObserver, ResponseFields
    <2>3. t = IF state \in TerminalStates THEN TRUE ELSE o.terminal
        BY DEF IsObserver
    <2> HIDE DEF r, e, t
    <2>4. /\ DOMAIN p = ObserverFields /\ p.response = r /\ p.evidence = e /\ p.terminal = t
          /\ p.framer = o.framer /\ p.settled = o.settled /\ p.status = o.status
          /\ p.usageEvidence = o.usageEvidence
        BY DEF IsObserver, ObserverFields
    <2> HIDE DEF p
    <2>5. p.response.chunks = o.response.chunks /\ p.response.bytes = o.response.bytes
        BY <2>2, <2>4 DEF ResponseFields
    <2>6. IsObserver(p) /\ SameCounts(o, p)
        BY <2>2, <2>3, <2>4, <2>5 DEF IsObserver, SameCounts
    <2> QED
        BY <1>2, <2>1, <2>2, <2>3, <2>4, <2>6 DEF e
<1> QED
    BY <1>1, <1>2

LEMMA WithUsageStatusFields ==
    ASSUME NEW o, IsObserver(o), NEW usage
    PROVE  LET p == WithUsageStatus(o, usage)
           IN  /\ IsObserver(p) /\ SameCounts(o, p)
               /\ p.status = o.status /\ p.evidence = o.evidence /\ p.terminal = o.terminal
               /\ p.usageEvidence = o.usageEvidence /\ p.response.usageStatus = usage
               /\ \A field \in ResponseFields \ {"usageStatus"} : p.response[field] = o.response[field]
<1> DEFINE r == [o.response EXCEPT !.usageStatus = usage]
           p == [o EXCEPT !.response = r]
<1>1. WithUsageStatus(o, usage) = p
    BY DEF WithUsageStatus
<1>2. /\ DOMAIN r = ResponseFields /\ r.usageStatus = usage
      /\ \A field \in ResponseFields \ {"usageStatus"} : r[field] = o.response[field]
    BY DEF IsObserver, ResponseFields
<1> HIDE DEF r
<1>3. /\ DOMAIN p = ObserverFields /\ p.response = r /\ p.evidence = o.evidence
      /\ p.framer = o.framer /\ p.settled = o.settled /\ p.status = o.status
      /\ p.usageEvidence = o.usageEvidence /\ p.terminal = o.terminal
    BY DEF IsObserver, ObserverFields
<1> HIDE DEF p
<1>4. p.response.chunks = o.response.chunks /\ p.response.bytes = o.response.bytes
    BY <1>2, <1>3 DEF ResponseFields
<1>5. IsObserver(p) /\ SameCounts(o, p)
    BY <1>2, <1>3, <1>4 DEF IsObserver, SameCounts
<1> QED
    BY <1>1, <1>2, <1>3, <1>5

LEMMA MovedResponse ==
    ASSUME NEW o, IsObserver(o), NEW state
    PROVE  \A field \in ResponseFields \ {"state"} :
               Moved(o, state).response[field] = o.response[field]
<1>1. CASE state = "none"
    BY <1>1 DEF Moved
<1>2. CASE state # "none"
    <2> DEFINE r == [o.response EXCEPT !.state = state]
               e == IF state \in TerminalStates THEN state ELSE o.evidence
               t == o.terminal \/ state \in TerminalStates
               p == [o EXCEPT !.response = r, !.evidence = e, !.terminal = t]
    <2>1. Moved(o, state) = p
        BY <1>2 DEF Moved
    <2>2. \A field \in ResponseFields \ {"state"} : r[field] = o.response[field]
        BY DEF IsObserver, ResponseFields
    <2> HIDE DEF r, e, t
    <2>3. p.response = r
        BY DEF IsObserver, ObserverFields
    <2> QED
        BY <2>1, <2>2, <2>3
<1> QED
    BY <1>1, <1>2

LEMMA ReadLifecycleFields ==
    ASSUME NEW o, IsObserver(o), NEW state
    PROVE  LET p == ReadLifecycle(o, state)
               moved == Moved(o, state)
           IN  /\ IsObserver(p) /\ SameCounts(o, p)
               /\ p.evidence = moved.evidence /\ p.terminal = moved.terminal
               /\ p.usageEvidence = o.usageEvidence
               /\ p.response = WithUsageStatus(moved, UsageLeft(o, moved)).response
<1> DEFINE moved == Moved(o, state)
           usage == UsageLeft(o, moved)
           with == WithUsageStatus(moved, usage)
           p == DegradeIf(with, moved.evidence = "Completed" /\ usage = "Unavailable", "Partial")
<1>1. ReadLifecycle(o, state) = p
    BY ReadLifecycleIs
<1>2. IsObserver(moved) /\ SameCounts(o, moved) /\ moved.usageEvidence = o.usageEvidence
    BY MovedFields
<1> HIDE DEF moved, usage
<1>3. /\ IsObserver(with) /\ SameCounts(moved, with) /\ with.evidence = moved.evidence
      /\ with.terminal = moved.terminal /\ with.usageEvidence = moved.usageEvidence
    BY <1>2, WithUsageStatusFields
<1> HIDE DEF with
<1>4. /\ IsObserver(p) /\ SameCounts(with, p) /\ p.evidence = with.evidence
      /\ p.terminal = with.terminal /\ p.usageEvidence = with.usageEvidence
      /\ p.response = with.response
    BY <1>3, DegradeIfFields
<1> HIDE DEF p
<1>5. SameCounts(o, p)
    BY <1>2, <1>3, <1>4 DEF SameCounts
<1> QED
    BY <1>1, <1>2, <1>3, <1>4, <1>5 DEF with, usage, moved

LEMMA ReadLifecycleAlike ==
    ASSUME NEW o, NEW p, IsObserver(o), IsObserver(p), Alike(o, p), NEW state
    PROVE  Alike(ReadLifecycle(o, state), ReadLifecycle(p, state))
<1> DEFINE mo == Moved(o, state)
           mp == Moved(p, state)
           uo == UsageLeft(o, mo)
           up == UsageLeft(p, mp)
           wo == WithUsageStatus(mo, uo)
           wp == WithUsageStatus(mp, up)
<1>1. IsObserver(mo) /\ IsObserver(mp) /\ Alike(mo, mp)
    <2>1. /\ IsObserver(mo) /\ IsObserver(mp) /\ mo.status = o.status /\ mp.status = p.status
          /\ mo.usageEvidence = o.usageEvidence /\ mp.usageEvidence = p.usageEvidence
          /\ mo.evidence = IF state # "none" /\ state \in TerminalStates THEN state ELSE o.evidence
          /\ mp.evidence = IF state # "none" /\ state \in TerminalStates THEN state ELSE p.evidence
          /\ mo.terminal = IF state # "none" /\ state \in TerminalStates THEN TRUE ELSE o.terminal
          /\ mp.terminal = IF state # "none" /\ state \in TerminalStates THEN TRUE ELSE p.terminal
          /\ mo.settled = o.settled /\ mp.settled = p.settled
        BY MovedFields DEF SameCounts
    <2>2. \A field \in ResponseFields \ {"state"} : mo.response[field] = o.response[field]
        BY MovedResponse
    <2>a. mo.response.state = IF state = "none" THEN o.response.state ELSE state
        BY MovedFields
    <2>3. \A field \in ResponseFields \ {"state"} : mp.response[field] = p.response[field]
        BY MovedResponse
    <2>b. mp.response.state = IF state = "none" THEN p.response.state ELSE state
        BY MovedFields
    <2> HIDE DEF mo, mp
    <2>4. AlikeResponses(mo.response, mp.response)
        BY <2>2, <2>3, <2>a, <2>b DEF Alike, AlikeResponses, ResponseFields
    <2> QED
        BY <2>1, <2>4 DEF Alike
<1>2. uo = up
    BY <1>1 DEF Alike, UsageLeft
<1> HIDE DEF mo, mp, uo, up
<1>3. IsObserver(wo) /\ IsObserver(wp) /\ Alike(wo, wp)
    <2>1. /\ IsObserver(wo) /\ IsObserver(wp) /\ wo.status = mo.status /\ wp.status = mp.status
          /\ wo.usageEvidence = mo.usageEvidence /\ wp.usageEvidence = mp.usageEvidence
          /\ wo.evidence = mo.evidence /\ wp.evidence = mp.evidence
          /\ wo.terminal = mo.terminal /\ wp.terminal = mp.terminal
          /\ wo.settled = mo.settled /\ wp.settled = mp.settled
        BY <1>1, WithUsageStatusFields DEF SameCounts
    <2>2. /\ wo.response.usageStatus = uo /\ wp.response.usageStatus = up
          /\ \A field \in ResponseFields \ {"usageStatus"} : wo.response[field] = mo.response[field]
          /\ \A field \in ResponseFields \ {"usageStatus"} : wp.response[field] = mp.response[field]
        BY <1>1, WithUsageStatusFields
    <2> HIDE DEF wo, wp
    <2>3. AlikeResponses(wo.response, wp.response)
        BY <1>1, <1>2, <2>2 DEF Alike, AlikeResponses, ResponseFields
    <2> QED
        BY <1>1, <2>1, <2>3 DEF Alike
<1>4. /\ ReadLifecycle(o, state)
             = DegradeIf(wo, mo.evidence = "Completed" /\ uo = "Unavailable", "Partial")
      /\ ReadLifecycle(p, state)
             = DegradeIf(wp, mp.evidence = "Completed" /\ up = "Unavailable", "Partial")
    BY ReadLifecycleIs DEF wo, wp, uo, up, mo, mp
<1>5. mo.evidence = mp.evidence
    BY <1>1 DEF Alike
<1> HIDE DEF wo, wp
<1> QED
    BY <1>2, <1>3, <1>4, <1>5, DegradeIfFields DEF Alike, SameCounts

-----------------------------------------------------------------------------
(***************************************************************************)
(* ObserveEvent: alike observers stay alike.                               *)
(***************************************************************************)
Compacted(o, found) == [o EXCEPT !.response.compaction = @ \/ found]

LEMMA CompactedFields ==
    ASSUME NEW o, IsObserver(o), NEW found
    PROVE  LET p == Compacted(o, found)
           IN  /\ IsObserver(p) /\ SameCounts(o, p)
               /\ p.status = o.status /\ p.evidence = o.evidence /\ p.terminal = o.terminal
               /\ p.usageEvidence = o.usageEvidence
               /\ p.response.compaction = (o.response.compaction \/ found)
               /\ \A field \in ResponseFields \ {"compaction"} : p.response[field] = o.response[field]
<1> DEFINE c == o.response.compaction \/ found
           r == [o.response EXCEPT !.compaction = c]
           p == [o EXCEPT !.response = r]
<1>1. Compacted(o, found) = p
    BY DEF Compacted
<1> HIDE DEF c
<1>2. /\ DOMAIN r = ResponseFields /\ r.compaction = c
      /\ \A field \in ResponseFields \ {"compaction"} : r[field] = o.response[field]
    BY DEF IsObserver, ResponseFields
<1> HIDE DEF r
<1>3. /\ DOMAIN p = ObserverFields /\ p.response = r /\ p.evidence = o.evidence
      /\ p.framer = o.framer /\ p.settled = o.settled /\ p.status = o.status
      /\ p.usageEvidence = o.usageEvidence /\ p.terminal = o.terminal
    BY DEF IsObserver, ObserverFields
<1> HIDE DEF p
<1>4. p.response.chunks = o.response.chunks /\ p.response.bytes = o.response.bytes
    BY <1>2, <1>3 DEF ResponseFields
<1>5. IsObserver(p) /\ SameCounts(o, p)
    BY <1>2, <1>3, <1>4 DEF IsObserver, SameCounts
<1> QED
    BY <1>1, <1>2, <1>3, <1>5 DEF c

\* What observe_event reads of an event, before the event's lifecycle is read.
Read(o, event) ==
    LET payload == Document(event.data)
        object == Subject(payload)
        told == Compacted(o, ContainsCompaction(payload))
    IN  IF object.type = "object"
        THEN ReadEvidence(told, object, ExtractUsage(object, SubjectHasSpan(payload))) ELSE told

LEMMA ObserveEventIs ==
    ASSUME NEW o, NEW event
    PROVE  LET error == ParseError(Document(event.data))
               state == Lifecycle(event.name)
           IN  ObserveEvent(o, event)
                   = IF o.terminal THEN o
                     ELSE IF error # "none"
                     THEN DegradeIf(o, state # "none",
                                    IF error = "ResourceLimit" THEN "ResourceLimit" ELSE "Partial")
                     ELSE ReadLifecycle(Read(o, event), state)
    BY DEF ObserveEvent, Read, ReadObject, Compacted

LEMMA ReadFacts ==
    ASSUME NEW o, IsObserver(o), NEW event
    PROVE  LET p == Read(o, event)
           IN  IsObserver(p) /\ SameCounts(o, p) /\ p.evidence = o.evidence /\ p.terminal = o.terminal
<1> DEFINE payload == Document(event.data)
           object == Subject(payload)
           found == ContainsCompaction(payload)
           usage == ExtractUsage(object, SubjectHasSpan(payload))
           told == Compacted(o, found)
           p == ReadEvidence(told, object, usage)
<1>1. Read(o, event) = IF object.type = "object" THEN p ELSE told
    BY DEF Read
<1> HIDE DEF object, usage, found
<1>2. IsObserver(told) /\ SameCounts(o, told) /\ told.evidence = o.evidence /\ told.terminal = o.terminal
    BY CompactedFields
<1> HIDE DEF told
<1>3. IsObserver(p) /\ SameCounts(told, p) /\ p.evidence = told.evidence /\ p.terminal = told.terminal
    BY <1>2, ReadEvidenceFields
<1> HIDE DEF p
<1>4. SameCounts(o, p)
    BY <1>2, <1>3 DEF SameCounts
<1> QED
    BY <1>1, <1>2, <1>3, <1>4

LEMMA ReadAlike ==
    ASSUME NEW o, NEW p, IsObserver(o), IsObserver(p), Alike(o, p), NEW event
    PROVE  Alike(Read(o, event), Read(p, event))
<1> DEFINE payload == Document(event.data)
           object == Subject(payload)
           found == ContainsCompaction(payload)
           usage == ExtractUsage(object, SubjectHasSpan(payload))
           so == Compacted(o, found)
           sp == Compacted(p, found)
<1>1. /\ Read(o, event) = IF object.type = "object" THEN ReadEvidence(so, object, usage) ELSE so
      /\ Read(p, event) = IF object.type = "object" THEN ReadEvidence(sp, object, usage) ELSE sp
    BY DEF Read
<1> HIDE DEF object, usage, found
<1>2. IsObserver(so) /\ IsObserver(sp) /\ Alike(so, sp)
    <2>1. /\ IsObserver(so) /\ IsObserver(sp) /\ so.status = o.status /\ sp.status = p.status
          /\ so.usageEvidence = o.usageEvidence /\ sp.usageEvidence = p.usageEvidence
          /\ so.evidence = o.evidence /\ sp.evidence = p.evidence
          /\ so.terminal = o.terminal /\ sp.terminal = p.terminal
          /\ so.settled = o.settled /\ sp.settled = p.settled
        BY CompactedFields DEF SameCounts
    <2>2. /\ so.response.compaction = (o.response.compaction \/ found)
          /\ \A field \in ResponseFields \ {"compaction"} : so.response[field] = o.response[field]
        BY CompactedFields
    <2>3. /\ sp.response.compaction = (p.response.compaction \/ found)
          /\ \A field \in ResponseFields \ {"compaction"} : sp.response[field] = p.response[field]
        BY CompactedFields
    <2> HIDE DEF so, sp
    <2>4. so.response.compaction = sp.response.compaction
        BY <2>2, <2>3 DEF Alike, AlikeResponses
    <2>5. AlikeResponses(so.response, sp.response)
        BY <2>2, <2>3, <2>4 DEF Alike, AlikeResponses, ResponseFields
    <2> QED
        BY <2>1, <2>5 DEF Alike
<1> HIDE DEF so, sp
<1>3. Alike(ReadEvidence(so, object, usage), ReadEvidence(sp, object, usage))
    BY <1>2, ReadEvidenceAlike
<1> QED
    BY <1>1, <1>2, <1>3

LEMMA ObserveEventFacts ==
    ASSUME NEW o, IsObserver(o), NEW event
    PROVE  LET p == ObserveEvent(o, event)
           IN  IsObserver(p) /\ SameCounts(o, p) /\ (o.terminal => p = o)
<1> DEFINE error == ParseError(Document(event.data))
           state == Lifecycle(event.name)
           status == IF error = "ResourceLimit" THEN "ResourceLimit" ELSE "Partial"
           d == DegradeIf(o, state # "none", status)
           r == Read(o, event)
           l == ReadLifecycle(r, state)
<1>1. ObserveEvent(o, event) = IF o.terminal THEN o ELSE IF error # "none" THEN d ELSE l
    BY ObserveEventIs
<1> HIDE DEF error, state, status
<1>2. IsObserver(d) /\ SameCounts(o, d)
    BY DegradeIfFields
<1>3. IsObserver(r) /\ SameCounts(o, r)
    BY ReadFacts
<1> HIDE DEF d, r
<1>4. IsObserver(l) /\ SameCounts(r, l)
    BY <1>3, ReadLifecycleFields
<1> HIDE DEF l
<1>5. SameCounts(o, l) /\ SameCounts(o, o)
    BY <1>3, <1>4 DEF SameCounts
<1> QED
    BY <1>1, <1>2, <1>4, <1>5

LEMMA ObserveEventAlike ==
    ASSUME NEW o, NEW p, IsObserver(o), IsObserver(p), Alike(o, p), NEW event
    PROVE  Alike(ObserveEvent(o, event), ObserveEvent(p, event))
<1> DEFINE error == ParseError(Document(event.data))
           state == Lifecycle(event.name)
           status == IF error = "ResourceLimit" THEN "ResourceLimit" ELSE "Partial"
           ro == Read(o, event)
           rp == Read(p, event)
<1>1. /\ ObserveEvent(o, event) = IF o.terminal THEN o ELSE IF error # "none"
             THEN DegradeIf(o, state # "none", status) ELSE ReadLifecycle(ro, state)
      /\ ObserveEvent(p, event) = IF p.terminal THEN p ELSE IF error # "none"
             THEN DegradeIf(p, state # "none", status) ELSE ReadLifecycle(rp, state)
    BY ObserveEventIs
<1> HIDE DEF error, state, status
<1>2. Alike(DegradeIf(o, state # "none", status), DegradeIf(p, state # "none", status))
    BY DegradeIfFields DEF Alike, SameCounts
<1>3. IsObserver(ro) /\ IsObserver(rp) /\ Alike(ro, rp)
    BY ReadFacts, ReadAlike
<1> HIDE DEF ro, rp
<1>4. Alike(ReadLifecycle(ro, state), ReadLifecycle(rp, state))
    BY <1>3, ReadLifecycleAlike
<1>5. o.terminal = p.terminal
    BY DEF Alike
<1> QED
    BY <1>1, <1>2, <1>4, <1>5

-----------------------------------------------------------------------------
(***************************************************************************)
(* ObserveEvents, for events of a set E.                                   *)
(***************************************************************************)
LEMMA ObserveEventsFacts ==
    ASSUME NEW E, NEW o, IsObserver(o)
    PROVE  \A es \in Seq(E) :
               /\ IsObserver(ObserveEvents(o, es)) /\ SameCounts(o, ObserveEvents(o, es))
               /\ o.terminal => ObserveEvents(o, es) = o
<1> DEFINE P(p) == IsObserver(p) /\ SameCounts(o, p) /\ (o.terminal => p = o)
           S == {es \in Seq(E) : P(ObserveEvents(o, es))}
<1>1. <<>> \in S
    <2>1. <<>> \in Seq(E) /\ P(o)
        BY DEF SameCounts
    <2> QED
        BY <2>1, ObserveNothing
<1>2. \A es \in Seq(E) : \A e \in E : es \in S => Append(es, e) \in S
    <2> SUFFICES ASSUME NEW es \in Seq(E), NEW e \in E, es \in S PROVE Append(es, e) \in S
        OBVIOUS
    <2> DEFINE p == ObserveEvents(o, es)
               q == ObserveEvent(p, e)
    <2>1. P(p) /\ Append(es, e) \in Seq(E)
        OBVIOUS
    <2>2. ObserveEvents(o, Append(es, e)) = q
        BY ObserveAnother
    <2> HIDE DEF p
    <2>3. IsObserver(q) /\ SameCounts(p, q) /\ (p.terminal => q = p)
        BY <2>1, ObserveEventFacts
    <2> HIDE DEF q
    <2>4. P(q)
        BY <2>1, <2>3 DEF SameCounts
    <2> QED
        BY <2>1, <2>2, <2>4
<1> HIDE DEF S
<1>3. Seq(E) \subseteq S
    BY <1>1, <1>2, SeqSetInduction
<1> QED
    BY <1>3 DEF S

LEMMA ObserveEventsAlike ==
    ASSUME NEW E, NEW o, NEW p, IsObserver(o), IsObserver(p), Alike(o, p)
    PROVE  \A es \in Seq(E) : Alike(ObserveEvents(o, es), ObserveEvents(p, es))
<1> DEFINE S == {es \in Seq(E) : Alike(ObserveEvents(o, es), ObserveEvents(p, es))}
<1>1. <<>> \in S
    <2>1. <<>> \in Seq(E)
        OBVIOUS
    <2> QED
        BY <2>1, ObserveNothing
<1>2. \A es \in Seq(E) : \A e \in E : es \in S => Append(es, e) \in S
    <2> SUFFICES ASSUME NEW es \in Seq(E), NEW e \in E, es \in S PROVE Append(es, e) \in S
        OBVIOUS
    <2> DEFINE a == ObserveEvents(o, es)
               b == ObserveEvents(p, es)
    <2>1. Alike(a, b) /\ Append(es, e) \in Seq(E)
        OBVIOUS
    <2>2. IsObserver(a) /\ IsObserver(b)
        BY ObserveEventsFacts
    <2>3. /\ ObserveEvents(o, Append(es, e)) = ObserveEvent(a, e)
          /\ ObserveEvents(p, Append(es, e)) = ObserveEvent(b, e)
        BY ObserveAnother
    <2> HIDE DEF a, b
    <2>4. Alike(ObserveEvent(a, e), ObserveEvent(b, e))
        BY <2>1, <2>2, ObserveEventAlike
    <2> QED
        BY <2>1, <2>3, <2>4
<1> HIDE DEF S
<1>3. Seq(E) \subseteq S
    BY <1>1, <1>2, SeqSetInduction
<1> QED
    BY <1>3 DEF S

LEMMA ObserveEventsConcat ==
    ASSUME NEW E, NEW o, NEW ds \in Seq(E)
    PROVE  \A es \in Seq(E) :
               ObserveEvents(o, ds \o es) = ObserveEvents(ObserveEvents(o, ds), es)
<1> DEFINE a == ObserveEvents(o, ds)
           S == {es \in Seq(E) : ObserveEvents(o, ds \o es) = ObserveEvents(a, es)}
<1>1. <<>> \in S
    <2>1. <<>> \in Seq(E) /\ ds \o <<>> = ds
        OBVIOUS
    <2> QED
        BY <2>1, ObserveNothing
<1>2. \A es \in Seq(E) : \A e \in E : es \in S => Append(es, e) \in S
    <2> SUFFICES ASSUME NEW es \in Seq(E), NEW e \in E, es \in S PROVE Append(es, e) \in S
        OBVIOUS
    <2>1. /\ Append(es, e) \in Seq(E) /\ ds \o es \in Seq(E)
          /\ ds \o Append(es, e) = Append(ds \o es, e)
        OBVIOUS
    <2>2. ObserveEvents(o, ds \o es) = ObserveEvents(a, es)
        OBVIOUS
    <2>3. ObserveEvents(o, Append(ds \o es, e)) = ObserveEvent(ObserveEvents(o, ds \o es), e)
        <3>1. PICK both \in Seq(E) : both = ds \o es
            BY <2>1
        <3>2. ObserveEvents(o, Append(both, e)) = ObserveEvent(ObserveEvents(o, both), e)
            BY ObserveAnother
        <3> QED
            BY <3>1, <3>2
    <2>4. ObserveEvents(a, Append(es, e)) = ObserveEvent(ObserveEvents(a, es), e)
        BY ObserveAnother
    <2> HIDE DEF a
    <2>5. ObserveEvents(o, ds \o Append(es, e)) = ObserveEvents(a, Append(es, e))
        BY <2>1, <2>2, <2>3, <2>4
    <2> QED
        BY <2>1, <2>5
<1> HIDE DEF S
<1>3. Seq(E) \subseteq S
    BY <1>1, <1>2, SeqSetInduction
<1> QED
    BY <1>3 DEF S

-----------------------------------------------------------------------------
(***************************************************************************)
(* What an observer that was fed the cells a, in any fragments, has in     *)
(* common with the one that interprets the events of the whole.            *)
(***************************************************************************)
Limited(status) ==
    IF Severity("ResourceLimit") > Severity(status) THEN "ResourceLimit" ELSE status

SoFar(a) == ObserveEvents(NewObserver, Frame(NewFramer, a).events)

Watching(C, o, a) ==
    /\ IsObserver(o)
    /\ o.response.chunks \in Nat /\ o.response.bytes = Len(a)
    /\ o.framer \in Framers(C)
    /\ o.settled = FALSE /\ SoFar(a).settled = FALSE
    /\ o.evidence = SoFar(a).evidence /\ o.usageEvidence = SoFar(a).usageEvidence
    /\ o.terminal = SoFar(a).terminal
    /\ AlikeResponses(o.response, SoFar(a).response)
    /\ ~o.terminal => o.framer = Frame(NewFramer, a).framer
    /\ \/ o.status = SoFar(a).status
       \/ ~o.terminal /\ o.framer.failed /\ o.status = Limited(SoFar(a).status)

LEMMA NewFramerTyped ==
    ASSUME NEW C
    PROVE  NewFramer \in Framers(C)
<1>1. <<>> \in Seq(C) /\ <<>> \in Seq(C \cup {"NL"})
    OBVIOUS
<1> QED
    BY <1>1 DEF NewFramer, Framers

LEMMA NewObserverFields ==
    /\ IsObserver(NewObserver) /\ NewObserver.framer = NewFramer
    /\ NewObserver.settled = FALSE /\ NewObserver.terminal = FALSE
    /\ NewObserver.status = "Complete"
    /\ NewObserver.evidence = "none" /\ NewObserver.usageEvidence = "none"
    /\ NewObserver.response.chunks = 0 /\ NewObserver.response.bytes = 0
    /\ NewObserver.response.usageStatus = "Unavailable"
<1> DEFINE r == [EmptyResponse("Complete") EXCEPT !.chunks = 0, !.bytes = 0]
<1>1. DOMAIN r = ResponseFields /\ r.chunks = 0 /\ r.bytes = 0 /\ r.usageStatus = "Unavailable"
    BY DEF EmptyResponse, ResponseFields
<1>2. NewObserver = [framer |-> NewFramer, status |-> "Complete", response |-> r,
                     evidence |-> "none", usageEvidence |-> "none", settled |-> FALSE,
                     terminal |-> FALSE]
    BY DEF NewObserver
<1> HIDE DEF r
<1> QED
    BY <1>1, <1>2 DEF IsObserver, ObserverFields

LEMMA SoFarFacts ==
    ASSUME NEW C, NEW a \in Seq(C)
    PROVE  IsObserver(SoFar(a)) /\ SoFar(a).settled = FALSE
<1>1. Frame(NewFramer, a).events \in Seq(FramedEvents(C))
    BY NewFramerTyped, FrameTyped DEF Framings
<1> QED
    BY <1>1, NewObserverFields, ObserveEventsFacts DEF SoFar, SameCounts

LEMMA WatchingNothing ==
    ASSUME NEW C
    PROVE  Watching(C, NewObserver, <<>>)
<1>1. Frame(NewFramer, <<>>) = [framer |-> NewFramer, events |-> <<>>]
    BY FrameNothing
<1>2. SoFar(<<>>) = NewObserver
    BY <1>1, ObserveNothing DEF SoFar
<1>3. Len(<<>>) = 0
    OBVIOUS
<1> QED
    BY <1>1, <1>2, <1>3, NewObserverFields, NewFramerTyped DEF Watching, AlikeResponses

Counted(o, bytes) == [o EXCEPT !.response.chunks = @ + 1, !.response.bytes = @ + Len(bytes)]
Reframing(o, framer) == [o EXCEPT !.framer = framer]

LEMMA PushIs ==
    ASSUME NEW o, NEW bytes
    PROVE  LET framed == Frame(o.framer, bytes)
               fed2 == Reframing(Counted(o, bytes), framed.framer)
           IN  Push(o, bytes) =
                   IF o.settled THEN o
                   ELSE IF o.terminal THEN Counted(o, bytes)
                   ELSE IF o.framer.failed THEN Degrade(Counted(o, bytes), "ResourceLimit")
                   ELSE IF framed.framer.failed /\ framed.events = <<>>
                   THEN Degrade(fed2, "ResourceLimit")
                   ELSE ObserveEvents(fed2, framed.events)
    BY DEF Push, Counted, Reframing

LEMMA CountedFields ==
    ASSUME NEW o, IsObserver(o), NEW bytes
    PROVE  LET p == Counted(o, bytes)
           IN  /\ IsObserver(p) /\ p.framer = o.framer /\ p.settled = o.settled
               /\ p.status = o.status /\ p.evidence = o.evidence /\ p.terminal = o.terminal
               /\ p.usageEvidence = o.usageEvidence
               /\ p.response.chunks = o.response.chunks + 1
               /\ p.response.bytes = o.response.bytes + Len(bytes)
               /\ AlikeResponses(p.response, o.response)
               /\ \A field \in ResponseFields \ {"chunks", "bytes"} :
                     p.response[field] = o.response[field]
<1> DEFINE c == o.response.chunks + 1
           n == o.response.bytes + Len(bytes)
           r == [o.response EXCEPT !.chunks = c, !.bytes = n]
           p == [o EXCEPT !.response = r]
<1>1. Counted(o, bytes) = p
    BY DEF Counted, IsObserver, ResponseFields, ObserverFields
<1> HIDE DEF c, n
<1>2. /\ DOMAIN r = ResponseFields /\ r.chunks = c /\ r.bytes = n
      /\ \A field \in ResponseFields \ {"chunks", "bytes"} : r[field] = o.response[field]
    BY DEF IsObserver, ResponseFields
<1> HIDE DEF r
<1>3. AlikeResponses(r, o.response)
    BY <1>2 DEF AlikeResponses, ResponseFields
<1>4. /\ DOMAIN p = ObserverFields /\ p.response = r /\ p.evidence = o.evidence
      /\ p.framer = o.framer /\ p.settled = o.settled /\ p.status = o.status
      /\ p.usageEvidence = o.usageEvidence /\ p.terminal = o.terminal
    BY DEF IsObserver, ObserverFields
<1> HIDE DEF p
<1> QED
    BY <1>1, <1>2, <1>3, <1>4 DEF c, n, IsObserver

LEMMA ReframingFields ==
    ASSUME NEW o, IsObserver(o), NEW framer
    PROVE  LET p == Reframing(o, framer)
           IN  /\ IsObserver(p) /\ p.framer = framer /\ p.settled = o.settled
               /\ p.status = o.status /\ p.evidence = o.evidence /\ p.terminal = o.terminal
               /\ p.usageEvidence = o.usageEvidence /\ p.response = o.response
    BY DEF Reframing, IsObserver, ObserverFields

LEMMA SoFarConcat ==
    ASSUME NEW C, NEW a \in Seq(C), NEW b \in Seq(C)
    PROVE  LET F == Frame(NewFramer, a)
               G == Frame(F.framer, b)
           IN  /\ F.framer \in Framers(C) /\ F.events \in Seq(FramedEvents(C))
               /\ G.framer \in Framers(C) /\ G.events \in Seq(FramedEvents(C))
               /\ Frame(NewFramer, a \o b).framer = G.framer
               /\ SoFar(a \o b) = ObserveEvents(SoFar(a), G.events)
<1> DEFINE F == Frame(NewFramer, a)
           G == Frame(F.framer, b)
           H == Frame(NewFramer, a \o b)
<1>1. F.framer \in Framers(C) /\ F.events \in Seq(FramedEvents(C))
    BY NewFramerTyped, FrameTyped DEF Framings
<1>2. G.framer \in Framers(C) /\ G.events \in Seq(FramedEvents(C))
    BY <1>1, FrameTyped DEF Framings
<1>3. H = After(F.events, G)
    <2>1. NewFramer \in Framers(C)
        BY NewFramerTyped
    <2> QED
        BY <2>1, FrameConcat
<1> HIDE DEF F, G, H
<1>4. H.framer = G.framer /\ H.events = F.events \o G.events
    BY <1>3 DEF After
<1>5. ObserveEvents(NewObserver, F.events \o G.events)
          = ObserveEvents(ObserveEvents(NewObserver, F.events), G.events)
    BY <1>1, <1>2, ObserveEventsConcat
<1>6. SoFar(a \o b) = ObserveEvents(SoFar(a), G.events)
    BY <1>4, <1>5 DEF SoFar, F, H
<1> QED
    BY <1>1, <1>2, <1>4, <1>6 DEF F, G, H

LEMMA Pushed ==
    ASSUME NEW C, NEW a \in Seq(C), NEW b \in Seq(C), NEW o, Watching(C, o, a)
    PROVE  Watching(C, Push(o, b), a \o b)
<1> DEFINE F == Frame(NewFramer, a)
           G == Frame(F.framer, b)
           s == SoFar(a)
           t == SoFar(a \o b)
           c == Counted(o, b)
           p == Push(o, b)
<1>1. /\ F.framer \in Framers(C) /\ G.framer \in Framers(C) /\ G.events \in Seq(FramedEvents(C))
      /\ Frame(NewFramer, a \o b).framer = G.framer /\ t = ObserveEvents(s, G.events)
    BY SoFarConcat
<1>2. IsObserver(s) /\ s.settled = FALSE /\ IsObserver(t) /\ t.settled = FALSE
    <2>1. a \o b \in Seq(C)
        OBVIOUS
    <2> QED
        BY <2>1, SoFarFacts
<1>3. /\ IsObserver(o) /\ o.response.chunks \in Nat /\ o.response.bytes = Len(a)
      /\ o.framer \in Framers(C) /\ o.settled = FALSE
      /\ o.evidence = s.evidence /\ o.usageEvidence = s.usageEvidence /\ o.terminal = s.terminal
      /\ AlikeResponses(o.response, s.response)
      /\ ~o.terminal => o.framer = F.framer
      /\ \/ o.status = s.status
         \/ ~o.terminal /\ o.framer.failed /\ o.status = Limited(s.status)
    BY DEF Watching
<1>4. /\ IsObserver(c) /\ c.framer = o.framer /\ c.settled = FALSE
      /\ c.status = o.status /\ c.evidence = s.evidence /\ c.terminal = o.terminal
      /\ c.usageEvidence = s.usageEvidence
      /\ c.response.chunks \in Nat /\ c.response.bytes = Len(a \o b)
      /\ AlikeResponses(c.response, s.response)
    <2>1. Len(a \o b) = Len(a) + Len(b)
        OBVIOUS
    <2>2. /\ IsObserver(c) /\ c.framer = o.framer /\ c.settled = o.settled
          /\ c.status = o.status /\ c.evidence = o.evidence /\ c.terminal = o.terminal
          /\ c.usageEvidence = o.usageEvidence
          /\ c.response.chunks = o.response.chunks + 1
          /\ c.response.bytes = o.response.bytes + Len(b)
          /\ AlikeResponses(c.response, o.response)
        BY <1>3, CountedFields
    <2> HIDE DEF c, s
    <2>3. c.response.chunks \in Nat /\ c.response.bytes = Len(a \o b)
        BY <1>3, <2>1, <2>2
    <2>4. AlikeResponses(c.response, s.response)
        BY <1>3, <2>2 DEF AlikeResponses
    <2> QED
        BY <1>3, <2>2, <2>3, <2>4
<1>5. p = IF o.terminal THEN c
          ELSE IF o.framer.failed THEN Degrade(c, "ResourceLimit")
          ELSE IF G.framer.failed /\ G.events = <<>>
          THEN Degrade(Reframing(c, G.framer), "ResourceLimit")
          ELSE ObserveEvents(Reframing(c, G.framer), G.events)
    BY <1>3, PushIs
<1>6. Limited(Limited(s.status)) = Limited(s.status)
    BY DEF Limited, Severity
<1>7. G.events = <<>> => t = s
    BY <1>1, ObserveNothing
<1> HIDE DEF F, G, s, t, c, p
<1>8. CASE o.terminal
    <2>1. p = c /\ t = s
        BY <1>1, <1>2, <1>3, <1>5, <1>8, ObserveEventsFacts
    <2>2. p.framer \in Framers(C) /\ p.status = s.status
        BY <1>3, <1>4, <1>8, <2>1
    <2>3. Watching(C, p, a \o b)
        BY <1>2, <1>3, <1>4, <1>8, <2>1, <2>2 DEF Watching, t
    <2> QED
        BY <2>3 DEF p
<1>9. CASE ~o.terminal /\ o.framer.failed
    <2>1. G = [framer |-> F.framer, events |-> <<>>]
        BY <1>1, <1>3, <1>9, FrameFailed DEF G
    <2>2. t = s /\ G.framer = o.framer
        BY <1>3, <1>7, <1>9, <2>1
    <2>3. p = Degrade(c, "ResourceLimit")
        BY <1>5, <1>9
    <2>4. /\ IsObserver(p) /\ SameCounts(c, p) /\ p.response = c.response
          /\ p.evidence = c.evidence /\ p.usageEvidence = c.usageEvidence
          /\ p.terminal = c.terminal /\ p.status = Limited(c.status)
        BY <1>4, <2>3, DegradeFields DEF Limited
    <2>5. p.status = Limited(s.status)
        BY <1>3, <1>4, <1>6, <2>4
    <2>6. Watching(C, p, a \o b)
        BY <1>1, <1>2, <1>3, <1>4, <1>9, <2>2, <2>4, <2>5 DEF Watching, t, SameCounts
    <2> QED
        BY <2>6 DEF p
<1>10. CASE ~o.terminal /\ ~o.framer.failed
    <2> DEFINE f == Reframing(c, G.framer)
    <2>1. /\ IsObserver(f) /\ f.framer = G.framer /\ f.settled = FALSE
          /\ f.status = o.status /\ f.evidence = s.evidence /\ f.terminal = o.terminal
          /\ f.usageEvidence = s.usageEvidence /\ f.response = c.response
        BY <1>4, ReframingFields
    <2> HIDE DEF f
    <2>2. o.status = s.status /\ Alike(f, s)
        BY <1>2, <1>3, <1>4, <1>10, <2>1 DEF Alike
    <2>3. CASE G.framer.failed /\ G.events = <<>>
        <3>1. p = Degrade(f, "ResourceLimit")
            BY <1>5, <1>10, <2>3 DEF f
        <3>2. /\ IsObserver(p) /\ SameCounts(f, p) /\ p.response = f.response
              /\ p.evidence = f.evidence /\ p.usageEvidence = f.usageEvidence
              /\ p.terminal = f.terminal /\ p.status = Limited(f.status)
            BY <2>1, <3>1, DegradeFields DEF Limited
        <3>3. t = s /\ p.status = Limited(s.status)
            BY <1>7, <2>1, <2>2, <2>3, <3>2
        <3>4. Watching(C, p, a \o b)
            BY <1>1, <1>2, <1>3, <1>4, <1>10, <2>1, <2>3, <3>2, <3>3 DEF Watching, t, SameCounts
        <3> QED
            BY <3>4 DEF p
    <2>4. CASE ~(G.framer.failed /\ G.events = <<>>)
        <3>1. p = ObserveEvents(f, G.events)
            BY <1>5, <1>10, <2>4 DEF f
        <3>2. IsObserver(p) /\ SameCounts(f, p)
            BY <1>1, <2>1, <3>1, ObserveEventsFacts
        <3>3. Alike(p, t)
            BY <1>1, <1>2, <2>1, <2>2, <3>1, ObserveEventsAlike
        <3>4. Watching(C, p, a \o b)
            BY <1>1, <1>2, <1>3, <1>4, <2>1, <3>2, <3>3 DEF Watching, t, SameCounts, Alike
        <3> QED
            BY <3>4 DEF p
    <2> QED
        BY <2>3, <2>4
<1> QED
    BY <1>3, <1>8, <1>9, <1>10 DEF IsObserver

-----------------------------------------------------------------------------
(***************************************************************************)
(* Settling two observers that were fed the same cells.                    *)
(***************************************************************************)
Matching(o, p) ==
    /\ IsObserver(o) /\ IsObserver(p)
    /\ o.status = p.status /\ o.evidence = p.evidence /\ o.usageEvidence = p.usageEvidence
    /\ AlikeResponses(o.response, p.response) /\ o.response.bytes = p.response.bytes

LEMMA WatchersAgree ==
    ASSUME NEW C, NEW a, NEW o, NEW w, Watching(C, o, a), Watching(C, w, a)
    PROVE  /\ IsObserver(o) /\ IsObserver(w) /\ o.terminal = w.terminal
           /\ o.evidence = w.evidence /\ o.usageEvidence = w.usageEvidence
           /\ o.settled = w.settled
           /\ AlikeResponses(o.response, w.response) /\ o.response.bytes = w.response.bytes
           /\ o.terminal => Matching(o, w)
           /\ ~o.terminal => o.framer = w.framer /\ Limited(o.status) = Limited(w.status)
           /\ ~o.terminal /\ ~o.framer.failed => Alike(o, w)
<1> DEFINE s == SoFar(a)
<1>1. Limited(Limited(s.status)) = Limited(s.status)
    BY DEF Limited, Severity
<1> HIDE DEF s
<1>2. /\ IsObserver(o) /\ o.response.bytes = Len(a) /\ o.evidence = s.evidence
      /\ o.usageEvidence = s.usageEvidence /\ o.terminal = s.terminal
      /\ AlikeResponses(o.response, s.response)
      /\ ~o.terminal => o.framer = Frame(NewFramer, a).framer
      /\ o.settled = FALSE
      /\ \/ o.status = s.status
         \/ ~o.terminal /\ o.framer.failed /\ o.status = Limited(s.status)
    BY DEF Watching, s
<1>3. /\ IsObserver(w) /\ w.response.bytes = Len(a) /\ w.evidence = s.evidence
      /\ w.usageEvidence = s.usageEvidence /\ w.terminal = s.terminal
      /\ AlikeResponses(w.response, s.response)
      /\ ~w.terminal => w.framer = Frame(NewFramer, a).framer
      /\ w.settled = FALSE
      /\ \/ w.status = s.status
         \/ ~w.terminal /\ w.framer.failed /\ w.status = Limited(s.status)
    BY DEF Watching, s
<1>4. AlikeResponses(o.response, w.response)
    BY <1>2, <1>3 DEF AlikeResponses
<1>5. ~o.terminal => o.framer = w.framer /\ Limited(o.status) = Limited(w.status)
    BY <1>1, <1>2, <1>3
<1>6. o.terminal => o.status = w.status
    BY <1>2, <1>3
<1>7. ~o.terminal /\ ~o.framer.failed => o.status = w.status
    BY <1>2, <1>3, <1>5
<1> QED
    BY <1>2, <1>3, <1>4, <1>5, <1>6, <1>7 DEF Matching, Alike

LEMMA AbsorbFramingFailureMatches ==
    ASSUME NEW o, NEW p, IsObserver(o), IsObserver(p), o.framer = p.framer,
           o.evidence = p.evidence, o.usageEvidence = p.usageEvidence,
           AlikeResponses(o.response, p.response), o.response.bytes = p.response.bytes,
           o.framer.failed \/ o.status = p.status, Limited(o.status) = Limited(p.status)
    PROVE  Matching(AbsorbFramingFailure(o), AbsorbFramingFailure(p))
<1> DEFINE x == DegradeIf(o, o.framer.failed, "ResourceLimit")
           y == DegradeIf(p, p.framer.failed, "ResourceLimit")
<1>1. AbsorbFramingFailure(o) = x /\ AbsorbFramingFailure(p) = y
    BY DEF AbsorbFramingFailure
<1>2. /\ IsObserver(x) /\ x.response = o.response /\ x.evidence = o.evidence
      /\ x.usageEvidence = o.usageEvidence
      /\ x.status = IF o.framer.failed THEN Limited(o.status) ELSE o.status
    BY DegradeIfFields DEF Limited
<1>3. /\ IsObserver(y) /\ y.response = p.response /\ y.evidence = p.evidence
      /\ y.usageEvidence = p.usageEvidence
      /\ y.status = IF p.framer.failed THEN Limited(p.status) ELSE p.status
    BY DegradeIfFields DEF Limited
<1> HIDE DEF x, y
<1> QED
    BY <1>1, <1>2, <1>3 DEF Matching

LEMMA FlushTyped ==
    ASSUME NEW C, NEW framer \in Framers(C)
    PROVE  Flush(framer).framer \in Framers(C) /\ Flush(framer).events \in Seq(FramedEvents(C))
<1> DEFINE start == [framer |-> [framer EXCEPT !.cr = FALSE], events |-> <<>>]
           lined == IF framer.cr \/ framer.line # <<>> THEN FinishLine(start) ELSE start
<1>1. start \in Framings(C)
    <2>1. <<>> \in Seq(FramedEvents(C))
        OBVIOUS
    <2>2. [framer EXCEPT !.cr = FALSE] \in Framers(C)
        BY DEF Framers
    <2> QED
        BY <2>1, <2>2 DEF Framings
<1>2. Flush(framer) = IF ~lined.framer.failed /\ HasEvent(lined.framer)
                      THEN EmitEvent(lined) ELSE lined
    BY DEF Flush
<1> HIDE DEF start
<1>3. lined \in Framings(C)
    BY <1>1, FinishLineTyped
<1> HIDE DEF lined
<1>4. Flush(framer) \in Framings(C)
    BY <1>2, <1>3, EmitEventTyped
<1> QED
    BY <1>4 DEF Framings

\* What a stream that ends leaves before its end is judged.
Flushed(o) == AbsorbFramingFailure(Absorb(o, Flush(o.framer)))

LEMMA FlushedMatches ==
    ASSUME NEW C, NEW a, NEW o, NEW w, Watching(C, o, a), Watching(C, w, a), ~o.terminal
    PROVE  Matching(Flushed(o), Flushed(w))
<1> DEFINE g == Flush(o.framer)
<1>1. /\ IsObserver(o) /\ IsObserver(w)
      /\ o.evidence = w.evidence /\ o.usageEvidence = w.usageEvidence
      /\ AlikeResponses(o.response, w.response) /\ o.response.bytes = w.response.bytes
      /\ o.framer = w.framer /\ Limited(o.status) = Limited(w.status)
      /\ ~o.framer.failed => Alike(o, w)
    BY WatchersAgree
<1>2. o.framer \in Framers(C)
    BY DEF Watching
<1>3. g.framer \in Framers(C) /\ g.events \in Seq(FramedEvents(C))
    BY <1>2, FlushTyped
<1>4. /\ Flushed(o) = AbsorbFramingFailure(Absorb(o, g))
      /\ Flushed(w) = AbsorbFramingFailure(Absorb(w, g))
    BY <1>1 DEF Flushed
<1> HIDE DEF g
<1>5. CASE o.framer.failed
    <2>1. Absorb(o, g) = o /\ Absorb(w, g) = w
        BY <1>1, <1>5 DEF Absorb
    <2> QED
        BY <1>1, <1>4, <1>5, <2>1, AbsorbFramingFailureMatches
<1>6. CASE ~o.framer.failed
    <2> DEFINE ro == Reframing(o, g.framer)
               rw == Reframing(w, g.framer)
               x == ObserveEvents(ro, g.events)
               y == ObserveEvents(rw, g.events)
    <2>1. Absorb(o, g) = x /\ Absorb(w, g) = y
        BY <1>1, <1>6 DEF Absorb, Reframing
    <2>2. /\ IsObserver(ro) /\ ro.framer = g.framer /\ ro.settled = o.settled
          /\ ro.status = o.status /\ ro.evidence = o.evidence /\ ro.terminal = o.terminal
          /\ ro.usageEvidence = o.usageEvidence /\ ro.response = o.response
        BY <1>1, ReframingFields
    <2>3. /\ IsObserver(rw) /\ rw.framer = g.framer /\ rw.settled = w.settled
          /\ rw.status = w.status /\ rw.evidence = w.evidence /\ rw.terminal = w.terminal
          /\ rw.usageEvidence = w.usageEvidence /\ rw.response = w.response
        BY <1>1, ReframingFields
    <2> HIDE DEF ro, rw
    <2>4. Alike(ro, rw)
        BY <1>1, <1>6, <2>2, <2>3 DEF Alike
    <2>5. IsObserver(x) /\ SameCounts(ro, x) /\ IsObserver(y) /\ SameCounts(rw, y)
        BY <1>3, <2>2, <2>3, ObserveEventsFacts
    <2>6. Alike(x, y)
        BY <1>3, <2>2, <2>3, <2>4, ObserveEventsAlike
    <2> HIDE DEF x, y
    <2>7. x.framer = y.framer /\ x.response.bytes = y.response.bytes
        BY <1>1, <2>2, <2>3, <2>5 DEF SameCounts
    <2>8. Matching(AbsorbFramingFailure(x), AbsorbFramingFailure(y))
        BY <2>5, <2>6, <2>7, AbsorbFramingFailureMatches DEF Alike
    <2> QED
        BY <1>4, <2>1, <2>8
<1> QED
    BY <1>2, <1>5, <1>6 DEF Framers

Concluded(o, state, usage) == [o EXCEPT !.response.state = state, !.response.usageStatus = usage]

LEMMA ConcludedFields ==
    ASSUME NEW o, IsObserver(o), NEW state, NEW usage
    PROVE  LET p == Concluded(o, state, usage)
           IN  /\ IsObserver(p) /\ p.status = o.status /\ p.evidence = o.evidence
               /\ p.usageEvidence = o.usageEvidence
               /\ p.response.state = state /\ p.response.usageStatus = usage
               /\ \A field \in ResponseFields \ {"state", "usageStatus"} :
                     p.response[field] = o.response[field]
<1> DEFINE r == [o.response EXCEPT !.state = state, !.usageStatus = usage]
           p == [o EXCEPT !.response = r]
<1>1. Concluded(o, state, usage) = p
    BY DEF Concluded, IsObserver, ObserverFields
<1>2. /\ DOMAIN r = ResponseFields /\ r.state = state /\ r.usageStatus = usage
      /\ \A field \in ResponseFields \ {"state", "usageStatus"} : r[field] = o.response[field]
    BY DEF IsObserver, ResponseFields
<1> HIDE DEF r
<1>3. /\ DOMAIN p = ObserverFields /\ p.response = r /\ p.evidence = o.evidence
      /\ p.settled = o.settled /\ p.status = o.status
      /\ p.usageEvidence = o.usageEvidence /\ p.terminal = o.terminal
    BY DEF IsObserver, ObserverFields
<1> HIDE DEF p
<1> QED
    BY <1>1, <1>2, <1>3 DEF IsObserver

LEMMA WithoutEvidenceFields ==
    ASSUME NEW o, IsObserver(o), NEW state, NEW status
    PROVE  LET p == WithoutEvidence(o, state, status)
           IN  /\ IsObserver(p) /\ p.evidence = o.evidence /\ p.usageEvidence = o.usageEvidence
               /\ o.evidence # "none" => p = o
               /\ o.evidence = "none" =>
                     /\ p.response.state = state /\ p.response.usageStatus = UnconfirmedUsage(o)
                     /\ p.status = IF Severity(status) > Severity(o.status) THEN status ELSE o.status
               /\ \A field \in ResponseFields \ {"state", "usageStatus"} :
                     p.response[field] = o.response[field]
<1>1. CASE o.evidence # "none"
    BY <1>1 DEF WithoutEvidence
<1>2. CASE o.evidence = "none"
    <2> DEFINE u == UnconfirmedUsage(o)
               c == Concluded(o, state, u)
               d == Degrade(c, status)
    <2>1. WithoutEvidence(o, state, status) = d
        BY <1>2 DEF WithoutEvidence, Concluded
    <2> HIDE DEF u
    <2>2. /\ IsObserver(c) /\ c.status = o.status /\ c.evidence = o.evidence
          /\ c.usageEvidence = o.usageEvidence
          /\ c.response.state = state /\ c.response.usageStatus = u
          /\ \A field \in ResponseFields \ {"state", "usageStatus"} :
                c.response[field] = o.response[field]
        BY ConcludedFields
    <2> HIDE DEF c
    <2>3. /\ IsObserver(d) /\ d.response = c.response /\ d.evidence = c.evidence
          /\ d.usageEvidence = c.usageEvidence
          /\ d.status = IF Severity(status) > Severity(c.status) THEN status ELSE c.status
        BY <2>2, DegradeFields
    <2> HIDE DEF d
    <2> QED
        BY <1>2, <2>1, <2>2, <2>3 DEF u
<1> QED
    BY <1>1, <1>2

LEMMA WithoutEvidenceMatches ==
    ASSUME NEW o, NEW p, Matching(o, p), NEW state, NEW status
    PROVE  Matching(WithoutEvidence(o, state, status), WithoutEvidence(p, state, status))
<1> DEFINE x == WithoutEvidence(o, state, status)
           y == WithoutEvidence(p, state, status)
<1>1. /\ IsObserver(o) /\ IsObserver(p) /\ o.status = p.status /\ o.evidence = p.evidence
      /\ o.usageEvidence = p.usageEvidence /\ AlikeResponses(o.response, p.response)
      /\ o.response.bytes = p.response.bytes
    BY DEF Matching
<1>2. UnconfirmedUsage(o) = UnconfirmedUsage(p)
    BY <1>1 DEF UnconfirmedUsage
<1>3. /\ IsObserver(x) /\ x.evidence = o.evidence /\ x.usageEvidence = o.usageEvidence
      /\ o.evidence # "none" => x = o
      /\ o.evidence = "none" =>
            /\ x.response.state = state /\ x.response.usageStatus = UnconfirmedUsage(o)
            /\ x.status = IF Severity(status) > Severity(o.status) THEN status ELSE o.status
      /\ \A field \in ResponseFields \ {"state", "usageStatus"} : x.response[field] = o.response[field]
    BY <1>1, WithoutEvidenceFields
<1>4. /\ IsObserver(y) /\ y.evidence = p.evidence /\ y.usageEvidence = p.usageEvidence
      /\ p.evidence # "none" => y = p
      /\ p.evidence = "none" =>
            /\ y.response.state = state /\ y.response.usageStatus = UnconfirmedUsage(p)
            /\ y.status = IF Severity(status) > Severity(p.status) THEN status ELSE p.status
      /\ \A field \in ResponseFields \ {"state", "usageStatus"} : y.response[field] = p.response[field]
    BY <1>1, WithoutEvidenceFields
<1> HIDE DEF x, y
<1>5. CASE o.evidence # "none"
    <2>1. Matching(x, y)
        BY <1>1, <1>3, <1>4, <1>5 DEF Matching
    <2> QED
        BY <2>1 DEF x, y
<1>6. CASE o.evidence = "none"
    <2>1. x.response.state = y.response.state /\ x.response.usageStatus = y.response.usageStatus
          /\ x.status = y.status
        BY <1>1, <1>2, <1>3, <1>4, <1>6
    <2>2. AlikeResponses(x.response, y.response) /\ x.response.bytes = y.response.bytes
        BY <1>1, <1>3, <1>4, <2>1 DEF AlikeResponses, ResponseFields
    <2>3. Matching(x, y)
        BY <1>1, <1>3, <1>4, <2>1, <2>2 DEF Matching
    <2> QED
        BY <2>3 DEF x, y
<1> QED
    BY <1>5, <1>6

LEMMA SummaryFields ==
    ASSUME NEW o, IsObserver(o)
    PROVE  LET s == Summary(SettleObserver(o))
           IN  /\ DOMAIN s = ResponseFields /\ s.status = o.status
               /\ \A field \in ResponseFields \ {"status"} : s[field] = o.response[field]
<1>1. SettleObserver(o).response = o.response /\ SettleObserver(o).status = o.status
    BY DEF SettleObserver, IsObserver, ObserverFields
<1> DEFINE s == [o.response EXCEPT !.status = o.status]
<1>2. Summary(SettleObserver(o)) = s
    BY <1>1 DEF Summary
<1>3. /\ DOMAIN s = ResponseFields /\ s.status = o.status
      /\ \A field \in ResponseFields \ {"status"} : s[field] = o.response[field]
    BY DEF IsObserver, ResponseFields
<1> QED
    BY <1>2, <1>3

LEMMA SummariesMatch ==
    ASSUME NEW o, NEW p, Matching(o, p)
    PROVE  LET x == Summary(SettleObserver(o))
               y == Summary(SettleObserver(p))
           IN  DOMAIN x = ResponseFields /\ \A field \in ResponseFields \ {"chunks"} : x[field] = y[field]
<1> DEFINE x == Summary(SettleObserver(o))
           y == Summary(SettleObserver(p))
<1>1. /\ DOMAIN x = ResponseFields /\ x.status = o.status
      /\ \A field \in ResponseFields \ {"status"} : x[field] = o.response[field]
    BY SummaryFields DEF Matching
<1>2. /\ DOMAIN y = ResponseFields /\ y.status = p.status
      /\ \A field \in ResponseFields \ {"status"} : y[field] = p.response[field]
    BY SummaryFields DEF Matching
<1> HIDE DEF x, y
<1>3. \A field \in ResponseFields \ {"chunks"} : x[field] = y[field]
    BY <1>1, <1>2 DEF Matching, AlikeResponses, ResponseFields
<1> QED
    BY <1>1, <1>3 DEF x, y

\* What an observer is settled as, before its summary is taken.
Ending(o, terminal) ==
    IF o.terminal THEN o
    ELSE IF terminal = "Finished" THEN WithoutEvidence(Flushed(o), "Incomplete", "Partial")
    ELSE IF terminal = "Disconnected"
    THEN WithoutEvidence(AbsorbFramingFailure(o), "Disconnected", "Partial")
    ELSE WithoutEvidence(AbsorbFramingFailure(o), "Cancelled", "Cancelled")

LEMMA SettlingIs ==
    ASSUME NEW o, o.terminal => o.evidence # "none", NEW terminal
    PROVE  Settling(o, terminal) = Summary(SettleObserver(Ending(o, terminal)))
<1>1. o.terminal => \A state, status : WithoutEvidence(o, state, status) = o
    BY DEF WithoutEvidence
<1>2. CASE o.terminal
    BY <1>1, <1>2 DEF Settling, Ending, Finish, Disconnect, Cancel, SettleWithoutCompletion
<1>3. CASE ~o.terminal
    BY <1>3 DEF Settling, Ending, Finish, Disconnect, Cancel, SettleWithoutCompletion, Flushed
<1> QED
    BY <1>2, <1>3

LEMMA SettledAlike ==
    ASSUME NEW C, NEW a, NEW o, NEW w, Watching(C, o, a), Watching(C, w, a),
           o.terminal => o.evidence # "none", NEW terminal
    PROVE  LET x == Settling(o, terminal)
               y == Settling(w, terminal)
           IN  DOMAIN x = ResponseFields /\ \A field \in ResponseFields \ {"chunks"} : x[field] = y[field]
<1>1. /\ IsObserver(o) /\ IsObserver(w) /\ o.terminal = w.terminal
      /\ o.evidence = w.evidence /\ o.usageEvidence = w.usageEvidence
      /\ AlikeResponses(o.response, w.response) /\ o.response.bytes = w.response.bytes
      /\ o.terminal => Matching(o, w)
      /\ ~o.terminal => o.framer = w.framer /\ Limited(o.status) = Limited(w.status)
      /\ ~o.terminal /\ ~o.framer.failed => Alike(o, w)
    BY WatchersAgree
<1>2. Matching(Ending(o, terminal), Ending(w, terminal))
    <2>1. CASE o.terminal
        BY <1>1, <2>1 DEF Ending
    <2>2. CASE ~o.terminal /\ terminal = "Finished"
        BY <1>1, <2>2, FlushedMatches, WithoutEvidenceMatches DEF Ending
    <2>3. CASE ~o.terminal /\ terminal # "Finished"
        <3>1. Matching(AbsorbFramingFailure(o), AbsorbFramingFailure(w))
            BY <1>1, <2>3, AbsorbFramingFailureMatches DEF Alike
        <3> QED
            BY <1>1, <2>3, <3>1, WithoutEvidenceMatches DEF Ending
    <2> QED
        BY <2>1, <2>2, <2>3
<1>3. w.terminal => w.evidence # "none"
    BY <1>1
<1> QED
    BY <1>2, <1>3, SettlingIs, SummariesMatch

-----------------------------------------------------------------------------
(***************************************************************************)
(* Usage: what a status of Final says of the counts, and when an observer  *)
(* may report it.                                                          *)
(***************************************************************************)
PartsAddUp(usage) ==
    /\ usage.cached # Absent /\ usage.input # Absent =>
          usage.cached + usage.uncached = usage.input
    /\ usage.total # Absent /\ usage.input # Absent /\ usage.output # Absent =>
          usage.total = usage.input + usage.output
    /\ usage.reasoning # Absent /\ usage.output # Absent => usage.reasoning <= usage.output
UsageSound(usages) == usages # <<>> /\ PartsAddUp(usages[1])

LEMMA CountTyped ==
    ASSUME NEW value
    PROVE  Count(value) \in Int
<1>1. DurableMax \in Nat
    BY JsonAssumption
<1> QED
    BY <1>1 DEF Count, Absent

LEMMA FinalUsageAddsUp ==
    ASSUME NEW object, NormalizeUsage(object).status = "Final"
    PROVE  PartsAddUp(NormalizeUsage(object))
<1> DEFINE input == Count(Get(object, "input_tokens"))
           output == Count(Get(object, "output_tokens"))
           total == Count(Get(object, "total_tokens"))
           cached == Count(Within(object, "input_tokens_details", "cached_tokens"))
           reasoning == Count(Within(object, "output_tokens_details", "reasoning_tokens"))
           usage == NormalizeUsage(object)
           odd == Contradictions(input, cached, output, reasoning, total)
<1>1. /\ usage.input = input /\ usage.output = output /\ usage.total = total
      /\ usage.cached = cached /\ usage.reasoning = reasoning
      /\ usage.uncached = IF Known(input) /\ Known(cached) /\ cached <= input
                          THEN input - cached ELSE Absent
    BY DEF NormalizeUsage
<1>2. usage.anomalies = {}
    BY DEF NormalizeUsage
<1>3. odd \subseteq usage.anomalies
    <2> DEFINE misread == UNION {CountAnomaly(v) : v \in UsageMembers(object)}
    <2>1. usage.anomalies = misread \cup odd
        BY DEF NormalizeUsage
    <2> HIDE DEF usage, odd, misread
    <2> QED
        BY <2>1
<1>4. input \in Int /\ output \in Int /\ total \in Int /\ cached \in Int /\ reasoning \in Int
    BY CountTyped
<1> HIDE DEF input, output, total, cached, reasoning, usage
<1>5. odd = {}
    BY <1>2, <1>3
<1>6. /\ ~(Known(input) /\ Known(cached) /\ cached > input)
      /\ ~(Known(output) /\ Known(reasoning) /\ reasoning > output)
      /\ ~(Known(total) /\ Known(input) /\ Known(output) /\ input + output # total)
    BY <1>5 DEF Contradictions
<1>7. PartsAddUp(usage)
    BY <1>1, <1>4, <1>6 DEF PartsAddUp, Known
<1> QED
    BY <1>7 DEF usage

LEMMA ExtractedUsageSound ==
    ASSUME NEW object, NEW spans, ExtractUsage(object, spans).status = "Final"
    PROVE  UsageSound(ExtractUsage(object, spans).usage)
<1> DEFINE value == Get(object, "usage")
           evidence == ExtractUsage(object, spans)
           retained == [status |-> NormalizeUsage(value).status, outcome |-> "Retained",
                        usage |-> <<NormalizeUsage(value)>>]
<1>1. evidence.status \in {"Unavailable", "Partial"} \/ evidence = retained
    BY DEF ExtractUsage, NoUsage
<1>2. evidence = retained
    BY <1>1
<1> HIDE DEF value, evidence
<1>3. NormalizeUsage(value).status = "Final"
    BY <1>2 DEF evidence
<1>4. PartsAddUp(NormalizeUsage(value))
    BY <1>3, FinalUsageAddsUp
<1>5. evidence.usage = <<NormalizeUsage(value)>>
    BY <1>2
<1>6. evidence.usage # <<>> /\ evidence.usage[1] = NormalizeUsage(value)
    BY <1>5
<1> QED
    BY <1>4, <1>6 DEF UsageSound, evidence

LEMMA RetainedUsageSound ==
    ASSUME NEW object, NEW spans, ExtractUsage(object, spans).outcome # "Retained"
    PROVE  ExtractUsage(object, spans).status # "Final"
    BY DEF ExtractUsage, NoUsage

(***************************************************************************)
(* What an observer knows: its terminal evidence is the state it reports,  *)
(* and a Final usage needs both that and a usage without an anomaly.       *)
(***************************************************************************)
Supported(o) ==
    /\ o.evidence \in TerminalStates \cup {"none"}
    /\ o.evidence # "none" => o.response.state = o.evidence
    /\ o.usageEvidence = "Final" => UsageSound(o.response.usage)
    /\ o.response.usageStatus = "Final" => o.evidence # "none" /\ o.usageEvidence = "Final"

LEMMA ReadSupported ==
    ASSUME NEW o, IsObserver(o), Supported(o), ~o.terminal, o.evidence = "none", NEW event
    PROVE  LET p == Read(o, event)
           IN  /\ p.evidence = "none" /\ p.terminal = FALSE
               /\ p.usageEvidence = "Final" => UsageSound(p.response.usage)
<1> DEFINE payload == Document(event.data)
           object == Subject(payload)
           found == ContainsCompaction(payload)
           spans == SubjectHasSpan(payload)
           usage == ExtractUsage(object, spans)
           told == Compacted(o, found)
           q == ReadFields(told, object, usage)
           p == ReadEvidence(told, object, usage)
<1>1. Read(o, event) = IF object.type = "object" THEN p ELSE told
    BY DEF Read
<1>2. usage.status = "Final" => UsageSound(usage.usage)
    BY ExtractedUsageSound
<1> HIDE DEF object, usage, found, spans
<1>3. /\ IsObserver(told) /\ told.evidence = "none" /\ told.terminal = o.terminal
      /\ told.usageEvidence = o.usageEvidence
    BY CompactedFields
<1>4. told.response.usage = o.response.usage
    <2>1. \A field \in ResponseFields \ {"compaction"} : told.response[field] = o.response[field]
        BY CompactedFields
    <2> QED
        BY <2>1 DEF ResponseFields
<1> HIDE DEF told
<1>5. /\ q.usageEvidence = IF usage.outcome = "Retained" THEN usage.status ELSE told.usageEvidence
      /\ q.response.usage = IF usage.outcome = "Retained" THEN usage.usage ELSE told.response.usage
    BY <1>3, ReadFieldsFields
<1>6. /\ p.response = q.response /\ p.evidence = "none" /\ p.terminal = o.terminal
      /\ p.usageEvidence = q.usageEvidence
    BY <1>3, ReadEvidenceFields
<1> HIDE DEF p, q
<1>7. o.terminal = FALSE
    BY DEF IsObserver
<1> QED
    BY <1>1, <1>2, <1>3, <1>4, <1>5, <1>6, <1>7 DEF Supported

LEMMA SettledUsage ==
    ASSUME NEW status, NEW terminal
    PROVE  SettleUsageStatus(status, terminal) = "Final" => status = "Final" /\ terminal
    BY DEF SettleUsageStatus

LEMMA ObserveEventSupported ==
    ASSUME NEW o, IsObserver(o), Supported(o), o.terminal <=> o.evidence # "none", NEW event
    PROVE  LET p == ObserveEvent(o, event)
           IN  Supported(p) /\ (p.terminal <=> p.evidence # "none")
<1> DEFINE error == ParseError(Document(event.data))
           state == Lifecycle(event.name)
           status == IF error = "ResourceLimit" THEN "ResourceLimit" ELSE "Partial"
           d == DegradeIf(o, state # "none", status)
           r == Read(o, event)
           moved == Moved(r, state)
           u == UsageLeft(r, moved)
           v == WithUsageStatus(moved, u)
           l == ReadLifecycle(r, state)
<1>1. ObserveEvent(o, event) = IF o.terminal THEN o ELSE IF error # "none" THEN d ELSE l
    BY ObserveEventIs
<1> HIDE DEF error, state, status
<1>2. Supported(d) /\ (d.terminal <=> d.evidence # "none")
    BY DegradeIfFields DEF Supported
<1>3. ASSUME ~o.terminal PROVE Supported(l) /\ (l.terminal <=> l.evidence # "none")
    <2>1. IsObserver(r)
        BY ReadFacts
    <2>2. r.evidence = "none" /\ r.terminal = FALSE
          /\ (r.usageEvidence = "Final" => UsageSound(r.response.usage))
        BY <1>3, ReadSupported
    <2> HIDE DEF r
    <2>3. /\ IsObserver(moved)
          /\ moved.evidence = IF state # "none" /\ state \in TerminalStates THEN state ELSE "none"
          /\ moved.terminal = IF state # "none" /\ state \in TerminalStates THEN TRUE ELSE FALSE
          /\ moved.response.state = IF state = "none" THEN r.response.state ELSE state
          /\ moved.usageEvidence = r.usageEvidence
        BY <2>1, <2>2, MovedFields
    <2>4. moved.response.usage = r.response.usage
        BY <2>1, MovedResponse DEF ResponseFields
    <2>5. u = "Final" => r.usageEvidence = "Final" /\ moved.evidence # "none"
        BY SettledUsage DEF UsageLeft
    <2>6. /\ l.evidence = moved.evidence /\ l.terminal = moved.terminal
          /\ l.usageEvidence = r.usageEvidence /\ l.response = v.response
        BY <2>1, ReadLifecycleFields
    <2> HIDE DEF moved, u, l
    <2>7. /\ v.response.usageStatus = u
          /\ \A field \in ResponseFields \ {"usageStatus"} : v.response[field] = moved.response[field]
        BY <2>3, WithUsageStatusFields
    <2> HIDE DEF v
    <2>8. v.response.usage = r.response.usage /\ v.response.state = moved.response.state
        BY <2>4, <2>7 DEF ResponseFields
    <2>9. l.terminal <=> l.evidence # "none"
        BY <2>3, <2>6 DEF TerminalStates
    <2>10. Supported(l)
        BY <2>2, <2>3, <2>5, <2>6, <2>7, <2>8 DEF Supported
    <2> QED
        BY <2>9, <2>10
<1> QED
    BY <1>1, <1>2, <1>3

LEMMA ObserveEventsSupported ==
    ASSUME NEW E, NEW o, IsObserver(o), Supported(o), o.terminal <=> o.evidence # "none"
    PROVE  \A es \in Seq(E) :
               LET p == ObserveEvents(o, es)
               IN  Supported(p) /\ (p.terminal <=> p.evidence # "none")
<1> DEFINE P(p) == Supported(p) /\ (p.terminal <=> p.evidence # "none")
           S == {es \in Seq(E) : P(ObserveEvents(o, es))}
<1>1. <<>> \in S
    <2>1. <<>> \in Seq(E) /\ P(o)
        OBVIOUS
    <2> QED
        BY <2>1, ObserveNothing
<1>2. \A es \in Seq(E) : \A e \in E : es \in S => Append(es, e) \in S
    <2> SUFFICES ASSUME NEW es \in Seq(E), NEW e \in E, es \in S PROVE Append(es, e) \in S
        OBVIOUS
    <2> DEFINE p == ObserveEvents(o, es)
    <2>1. P(p) /\ Append(es, e) \in Seq(E)
        OBVIOUS
    <2>2. IsObserver(p)
        BY ObserveEventsFacts
    <2>3. ObserveEvents(o, Append(es, e)) = ObserveEvent(p, e)
        BY ObserveAnother
    <2> HIDE DEF p
    <2>4. P(ObserveEvent(p, e))
        BY <2>1, <2>2, ObserveEventSupported
    <2> QED
        BY <2>1, <2>3, <2>4
<1> HIDE DEF S
<1>3. Seq(E) \subseteq S
    BY <1>1, <1>2, SeqSetInduction
<1> QED
    BY <1>3 DEF S

-----------------------------------------------------------------------------
(***************************************************************************)
(* What an observer that was only pushed to knows, and what it is settled  *)
(* as.                                                                     *)
(***************************************************************************)
Sound(o) ==
    /\ IsObserver(o) /\ o.settled = FALSE
    /\ Supported(o) /\ (o.terminal <=> o.evidence # "none")

\* Everything Sound and Supported say of an observer but its counts and its framer.
Kept(o, p) ==
    /\ IsObserver(p) /\ p.settled = o.settled /\ p.evidence = o.evidence
    /\ p.terminal = o.terminal /\ p.usageEvidence = o.usageEvidence
    /\ p.response.state = o.response.state /\ p.response.usage = o.response.usage
    /\ p.response.usageStatus = o.response.usageStatus

LEMMA KeptSound ==
    ASSUME NEW o, NEW p, Sound(o), Kept(o, p)
    PROVE  Sound(p)
    BY DEF Sound, Kept, Supported

LEMMA SoundEvents ==
    ASSUME NEW E, NEW o, Sound(o), NEW es \in Seq(E)
    PROVE  Sound(ObserveEvents(o, es))
<1> DEFINE p == ObserveEvents(o, es)
<1>1. IsObserver(p) /\ SameCounts(o, p)
    BY ObserveEventsFacts DEF Sound
<1>2. Supported(p) /\ (p.terminal <=> p.evidence # "none")
    BY ObserveEventsSupported DEF Sound
<1> HIDE DEF p
<1>3. Sound(p)
    BY <1>1, <1>2 DEF Sound, SameCounts
<1> QED
    BY <1>3 DEF p

LEMMA SoundPush ==
    ASSUME NEW C, NEW o, Sound(o), o.framer \in Framers(C), NEW bytes \in Seq(C)
    PROVE  /\ Sound(Push(o, bytes))
           /\ o.evidence # "none" => Push(o, bytes) = Counted(o, bytes)
<1> DEFINE framed == Frame(o.framer, bytes)
           c == Counted(o, bytes)
           q == Reframing(c, framed.framer)
<1>1. framed.framer \in Framers(C) /\ framed.events \in Seq(FramedEvents(C))
    BY FrameTyped DEF Framings
<1>2. Push(o, bytes) =
          IF o.settled THEN o
          ELSE IF o.terminal THEN c
          ELSE IF o.framer.failed THEN Degrade(c, "ResourceLimit")
          ELSE IF framed.framer.failed /\ framed.events = <<>>
          THEN Degrade(q, "ResourceLimit")
          ELSE ObserveEvents(q, framed.events)
    BY PushIs
<1> HIDE DEF framed
<1>3. Kept(o, c)
    BY CountedFields DEF Sound, Kept, AlikeResponses
<1>4. Sound(c)
    BY <1>3, KeptSound
<1> HIDE DEF c
<1>5. Kept(c, q)
    BY <1>4, ReframingFields DEF Sound, Kept
<1>6. Sound(q)
    BY <1>4, <1>5, KeptSound
<1> HIDE DEF q
<1>7. Kept(c, Degrade(c, "ResourceLimit")) /\ Kept(q, Degrade(q, "ResourceLimit"))
    BY <1>4, <1>6, DegradeFields DEF Sound, Kept, SameCounts
<1>8. Sound(Degrade(c, "ResourceLimit")) /\ Sound(Degrade(q, "ResourceLimit"))
    BY <1>4, <1>6, <1>7, KeptSound
<1>9. Sound(ObserveEvents(q, framed.events))
    BY <1>1, <1>6, SoundEvents
<1>10. Push(o, bytes) \in {o, c, Degrade(c, "ResourceLimit"), Degrade(q, "ResourceLimit"),
                           ObserveEvents(q, framed.events)}
    BY <1>2
<1>11. o.evidence # "none" => Push(o, bytes) = c
    BY <1>2 DEF Sound
<1> QED
    BY <1>4, <1>8, <1>9, <1>10, <1>11 DEF c

LEMMA FlushedSound ==
    ASSUME NEW C, NEW o, Sound(o), o.framer \in Framers(C)
    PROVE  Sound(Flushed(o)) /\ Flushed(o).response.chunks = o.response.chunks
<1> DEFINE g == Flush(o.framer)
           r == Reframing(o, g.framer)
           e == ObserveEvents(r, g.events)
           x == Absorb(o, g)
           d == DegradeIf(x, x.framer.failed, "ResourceLimit")
<1>1. g.events \in Seq(FramedEvents(C))
    BY FlushTyped
<1>2. x = IF o.framer.failed THEN o ELSE e
    BY DEF Absorb, Reframing
<1>3. Flushed(o) = d
    BY DEF Flushed, AbsorbFramingFailure
<1> HIDE DEF g, x
<1>4. IsObserver(o)
    BY DEF Sound
<1>5. Kept(o, r) /\ r.response.chunks = o.response.chunks
    BY <1>4, ReframingFields DEF Kept
<1>6. Sound(r)
    BY <1>5, KeptSound
<1> HIDE DEF r
<1>7. Sound(e)
    BY <1>1, <1>6, SoundEvents
<1>8. e.response.chunks = r.response.chunks
    BY <1>1, <1>6, ObserveEventsFacts DEF Sound, SameCounts
<1> HIDE DEF e
<1>9. Sound(x) /\ x.response.chunks = o.response.chunks
    BY <1>2, <1>5, <1>7, <1>8
<1>10. Kept(x, d) /\ d.response.chunks = x.response.chunks
    BY <1>9, DegradeIfFields DEF Sound, Kept, SameCounts
<1>11. Sound(d)
    BY <1>9, <1>10, KeptSound
<1> QED
    BY <1>3, <1>9, <1>10, <1>11

\* What a recorded response may claim.
Honest(r) ==
    /\ r.status = "Complete" => r.state \in TerminalStates
    /\ r.usageStatus = "Final" => r.state \in TerminalStates /\ UsageSound(r.usage)

LEMMA JudgedHonest ==
    ASSUME NEW o, IsObserver(o), Supported(o), NEW state, NEW status \in {"Partial", "Cancelled"}
    PROVE  LET p == WithoutEvidence(o, state, status)
           IN  /\ IsObserver(p) /\ p.response.chunks = o.response.chunks
               /\ p.status = "Complete" => p.response.state \in TerminalStates
               /\ p.response.usageStatus = "Final" =>
                     p.response.state \in TerminalStates /\ UsageSound(p.response.usage)
<1> DEFINE p == WithoutEvidence(o, state, status)
<1>1. /\ IsObserver(p) /\ p.evidence = o.evidence /\ p.usageEvidence = o.usageEvidence
      /\ o.evidence # "none" => p = o
      /\ o.evidence = "none" =>
            /\ p.response.state = state /\ p.response.usageStatus = UnconfirmedUsage(o)
            /\ p.status = IF Severity(status) > Severity(o.status) THEN status ELSE o.status
      /\ \A field \in ResponseFields \ {"state", "usageStatus"} :
            p.response[field] = o.response[field]
    BY WithoutEvidenceFields
<1> HIDE DEF p
<1>2. p.response.chunks = o.response.chunks
    BY <1>1 DEF ResponseFields
<1>3. CASE o.evidence # "none"
    <2>1. p = o /\ o.response.state \in TerminalStates
        BY <1>1, <1>3 DEF Supported
    <2> QED
        BY <1>1, <1>3, <2>1 DEF Supported, p
<1>4. CASE o.evidence = "none"
    <2>1. UnconfirmedUsage(o) # "Final"
        BY DEF UnconfirmedUsage, SettleUsageStatus
    <2>2. Severity(status) > Severity("Complete")
        BY DEF Severity
    <2>3. p.status # "Complete"
        BY <1>1, <1>4, <2>2
    <2> QED
        BY <1>1, <1>2, <1>4, <2>1, <2>3 DEF p
<1> QED
    BY <1>3, <1>4

LEMMA SettlingHonest ==
    ASSUME NEW C, NEW o, Sound(o), o.framer \in Framers(C), NEW terminal
    PROVE  /\ Honest(Settling(o, terminal))
           /\ Settling(o, terminal).chunks = o.response.chunks
<1> DEFINE f == Flushed(o)
           a == AbsorbFramingFailure(o)
           e == Ending(o, terminal)
           s == Settling(o, terminal)
           Good(p) == /\ IsObserver(p) /\ p.response.chunks = o.response.chunks
                      /\ p.status = "Complete" => p.response.state \in TerminalStates
                      /\ p.response.usageStatus = "Final" =>
                            p.response.state \in TerminalStates /\ UsageSound(p.response.usage)
<1>1. IsObserver(f) /\ Supported(f) /\ f.response.chunks = o.response.chunks
    BY FlushedSound DEF Sound
<1> HIDE DEF f
<1>2. Good(WithoutEvidence(f, "Incomplete", "Partial"))
    BY <1>1, JudgedHonest
<1>3. IsObserver(a) /\ Supported(a) /\ a.response.chunks = o.response.chunks
    <2>1. Kept(o, a) /\ a.response.chunks = o.response.chunks
        BY DegradeIfFields DEF AbsorbFramingFailure, Sound, Kept, SameCounts
    <2> HIDE DEF a
    <2> QED
        BY <2>1, KeptSound DEF Sound
<1> HIDE DEF a
<1>4. /\ Good(WithoutEvidence(a, "Disconnected", "Partial"))
      /\ Good(WithoutEvidence(a, "Cancelled", "Cancelled"))
    BY <1>3, JudgedHonest
<1>5. o.terminal => Good(o)
    BY DEF Sound, Supported
<1>6. e \in {WithoutEvidence(f, "Incomplete", "Partial"),
             WithoutEvidence(a, "Disconnected", "Partial"),
             WithoutEvidence(a, "Cancelled", "Cancelled")} \/ (o.terminal /\ e = o)
    BY DEF Ending, f, a
<1>7. s = Summary(SettleObserver(e))
    BY SettlingIs DEF Sound
<1> HIDE DEF e, s
<1>8. Good(e)
    BY <1>2, <1>4, <1>5, <1>6
<1>9. /\ s.status = e.status
      /\ \A field \in ResponseFields \ {"status"} : s[field] = e.response[field]
    BY <1>7, <1>8, SummaryFields
<1>10. /\ s.state = e.response.state /\ s.usage = e.response.usage
       /\ s.usageStatus = e.response.usageStatus /\ s.chunks = e.response.chunks
    BY <1>9 DEF ResponseFields
<1>11. Honest(s) /\ s.chunks = o.response.chunks
    BY <1>8, <1>9, <1>10 DEF Honest
<1> QED
    BY <1>11 DEF s

LEMMA ReadResponseFields ==
    ASSUME NEW object, NEW state, NEW evidence
    PROVE  LET r == ReadResponse(object, state, evidence)
           IN  /\ DOMAIN r = ResponseFields /\ r.chunks = Absent
               /\ r.state = state /\ r.usage = evidence.usage
               /\ r.usageStatus = SettleUsageStatus(evidence.status, state \in TerminalStates)
<1> DEFINE e == EmptyResponse(DocumentStatus(object, evidence))
           id == Extract(object, "id")
           model == Extract(object, "model")
           reason == Nested(object, "incomplete_details", "reason")
           code == Nested(object, "error", "code")
           settled == SettleUsageStatus(evidence.status, state \in TerminalStates)
           found == ContainsCompaction(object)
           r == [e EXCEPT !.id = id, !.model = model, !.state = state, !.reason = reason,
                          !.code = code, !.usage = evidence.usage, !.usageStatus = settled,
                          !.compaction = found]
<1>1. ReadResponse(object, state, evidence) = r
    BY DEF ReadResponse
<1>2. DOMAIN e = ResponseFields /\ e.chunks = Absent
    BY DEF EmptyResponse, ResponseFields
<1> HIDE DEF e, id, model, reason, code, settled, found
<1>3. /\ DOMAIN r = ResponseFields /\ r.chunks = Absent /\ r.usageStatus = settled
      /\ r.state = state /\ r.usage = evidence.usage
    BY <1>2 DEF ResponseFields
<1> QED
    BY <1>1, <1>3 DEF settled

\* A document: it is never streamed, and its transport must have ended it.
LEMMA DocumentHonest ==
    ASSUME NEW terminal
    PROVE  LET r == ObserveDocument(terminal)
           IN  /\ DOMAIN r = ResponseFields /\ r.chunks = Absent
               /\ r.status = "Complete" => terminal = "Finished"
               /\ r.usageStatus = "Final" => r.state \in TerminalStates /\ UsageSound(r.usage)
<1> DEFINE document == [size |-> Len(fed), text |-> TRUE, json |-> Document(fed)]
           object == document.json
           state == StateOf(Get(object, "status"))
           evidence == ExtractUsage(object, TRUE)
           parsed == ParseResponse(document)
           read == ReadResponse(object, state, evidence)
           Good(r) ==
               /\ DOMAIN r = ResponseFields /\ r.chunks = Absent
               /\ r.usageStatus = "Final" => r.state \in TerminalStates /\ UsageSound(r.usage)
<1>1. Good(read)
    <2>1. evidence.status = "Final" => UsageSound(evidence.usage)
        BY ExtractedUsageSound
    <2> HIDE DEF evidence, object, state
    <2>2. /\ DOMAIN read = ResponseFields /\ read.chunks = Absent
          /\ read.state = state /\ read.usage = evidence.usage
          /\ read.usageStatus = SettleUsageStatus(evidence.status, state \in TerminalStates)
        BY ReadResponseFields
    <2>3. SettleUsageStatus(evidence.status, state \in TerminalStates) = "Final"
              => evidence.status = "Final" /\ state \in TerminalStates
        BY DEF SettleUsageStatus
    <2> HIDE DEF read
    <2> QED
        BY <2>1, <2>2, <2>3
<1>2. \A s : Good(EmptyResponse(s))
    BY DEF EmptyResponse, ResponseFields
<1>3. parsed = read \/ \E s : parsed = EmptyResponse(s)
    BY DEF ParseResponse
<1> HIDE DEF read
<1>4. Good(parsed)
    BY <1>1, <1>2, <1>3
<1>5. ObserveDocument(terminal) = IF terminal = "Finished" THEN parsed
                                  ELSE IF terminal = "Disconnected"
                                  THEN [parsed EXCEPT !.status = "Partial"]
                                  ELSE [parsed EXCEPT !.status = "Cancelled"]
    BY DEF ObserveDocument, Judged
<1> HIDE DEF parsed
<1>6. \A s : Good([parsed EXCEPT !.status = s]) /\ [parsed EXCEPT !.status = s].status = s
    BY <1>4 DEF ResponseFields
<1> QED
    BY <1>4, <1>5, <1>6

-----------------------------------------------------------------------------
(***************************************************************************)
(* The inductive invariant of the tap.                                     *)
(***************************************************************************)
Cells == UNION {ToSet(x.body) : x \in Exchanges}
Messages == [kind : {"Chunk", "Finished", "Disconnected"}, cells : Seq(Cells)]

Typed ==
    /\ TapTypeOK
    /\ exchange \in Exchanges /\ seen \in 0..Length
    /\ queue \in Seq(Messages) /\ fed \in Seq(Cells)
    /\ sender \in BOOLEAN /\ dropped \in BOOLEAN

\* Who may still offer, receive and record.
Stages ==
    /\ sender <=> Tapped /\ stream = "open"
    /\ ~Tapped => task = "done"
    /\ task = "done" => queue = <<>>
    /\ task # "done" => recorded = <<>>
    /\ recorded # <<>> => stream # "open"
    /\ stream = "open" => compactions = <<>>

\* What the observer knows is supported by what it was fed.
Watched ==
    /\ Sound(observer)
    /\ task = "resolving" => observer = NewObserver /\ fed = <<>>
    /\ task = "sse" => Watching(Cells, observer, fed)

\* A terminal message is the last one, and tells how the body stopped.
TerminalIsLast ==
    \A i \in 1..Len(queue) :
        queue[i].kind # "Chunk" =>
            /\ i = Len(queue) /\ queue[i].cells = <<>> /\ stream # "open"
            /\ queue[i].kind = "Finished" => stopped = "ended" \/ Exhausted

\* Until a message is lost, the queue holds exactly the bytes seen and not yet fed, and a
\* stream that is over has left its terminal message there.
Offsets(p) ==
    /\ p[1] \in 0..seen /\ fed = SubSeq(exchange.body, 1, p[1])
    /\ p[Len(queue) + 1] = seen
    /\ \A i \in 1..Len(queue) :
          /\ p[i + 1] \in 0..seen /\ p[i] <= p[i + 1]
          /\ queue[i].cells = SubSeq(exchange.body, p[i] + 1, p[i + 1])
NothingLost ==
    task # "done" /\ ~dropped =>
        /\ \E p \in [1..(Len(queue) + 1) -> 0..seen] : Offsets(p)
        /\ ~sender => queue # <<>> /\ queue[Len(queue)].kind # "Chunk"

TapInv ==
    /\ Typed /\ Stages /\ Watched /\ TerminalIsLast /\ NothingLost
    /\ FragmentsDoNotMatter /\ CompleteMeansWhole /\ FinalUsageIsConfirmed
    /\ CompactionIsMeasuredOnce

LEMMA BodyTyped ==
    ASSUME exchange \in Exchanges
    PROVE  /\ exchange.body \in Seq(Cells) /\ Length \in Nat
           /\ exchange.cuts \subseteq 1..Length /\ exchange.mode \in Modes
<1>1. ExchangeType(exchange)
    BY TapAssumption
<1>2. exchange.body \in Seq(ToSet(exchange.body))
    BY <1>1 DEF ExchangeType
<1>3. ToSet(exchange.body) \subseteq Cells
    BY DEF Cells
<1> HIDE DEF Cells
<1>4. exchange.body \in Seq(Cells)
    BY <1>2, <1>3
<1> QED
    BY <1>1, <1>4 DEF ExchangeType, Length

LEMMA LeastNatural ==
    ASSUME NEW T, T \subseteq Nat, T # {}
    PROVE  \E n \in T : \A m \in T : n <= m
<1>1. IsWellFoundedOn(OpToRel(<, Nat), Nat)
    BY NatLessThanWellFounded
<1>2. PICK n \in T : \A m \in T : <<m, n>> \notin OpToRel(<, Nat)
    BY <1>1, WFMin
<1>3. \A m \in T : ~(m < n)
    BY <1>2 DEF OpToRel
<1> QED
    BY <1>3

LEMMA NextCutTyped ==
    ASSUME exchange \in Exchanges, seen \in 0..Length, seen < Length
    PROVE  NextCut \in (seen + 1)..Length
<1> DEFINE T == {cut \in exchange.cuts \cup {Length} : cut > seen}
           good(cut) == cut > seen /\ \A other \in exchange.cuts : other > seen => cut <= other
<1>1. Length \in Nat /\ exchange.cuts \subseteq 1..Length
    BY BodyTyped
<1>2. T \subseteq Nat /\ T # {}
    BY <1>1
<1>3. PICK n \in T : \A m \in T : n <= m
    BY <1>2, LeastNatural
<1>4. n \in exchange.cuts \cup {Length} /\ good(n)
    BY <1>3
<1>5. NextCut = CHOOSE cut \in exchange.cuts \cup {Length} : good(cut)
    BY DEF NextCut
<1>6. NextCut \in exchange.cuts \cup {Length} /\ good(NextCut)
    BY <1>4, <1>5
<1> QED
    BY <1>1, <1>6

\* What offering a message does.
LEMMA OfferCases ==
    ASSUME NEW message, Offer(message)
    PROVE  \/ ~sender /\ queue' = queue /\ dropped' = dropped
           \/ /\ sender /\ Len(queue) < QueueCapacity /\ task # "done"
              /\ queue' = Append(queue, message) /\ dropped' = dropped
           \/ sender /\ queue' = queue /\ dropped' = TRUE
    BY DEF Offer

LEMMA MessagesTyped ==
    /\ \A cells \in Seq(Cells) : Chunk(cells) \in Messages /\ Chunk(cells).kind = "Chunk"
                                 /\ Chunk(cells).cells = cells
    /\ \A kind \in {"Finished", "Disconnected"} :
          Final(kind) \in Messages /\ Final(kind).kind = kind /\ Final(kind).cells = <<>>
<1>1. <<>> \in Seq(Cells)
    OBVIOUS
<1> HIDE DEF Cells
<1> QED
    BY <1>1 DEF Chunk, Final, Messages

LEMMA InitInv == Init => TapInv
<1> SUFFICES ASSUME Init PROVE TapInv
    OBVIOUS
<1> USE DEF Init
<1>1. QueueCapacity \in Nat \ {0} /\ MaxSemanticBytes \in Nat
    BY TapAssumption, JsonAssumption
<1>2. Length \in Nat
    BY BodyTyped
<1>3. <<>> \in Seq(Messages) /\ <<>> \in Seq(Cells) /\ Len(<<>>) = 0 /\ <<>> = SubSeq(exchange.body, 1, 0)
    BY BodyTyped
<1>4. TapTypeOK
    BY <1>1, <1>3 DEF TapTypeOK
<1>5. Typed
    <2>1. exchange \in Exchanges /\ seen \in 0..Length
        BY <1>2
    <2>2. queue \in Seq(Messages) /\ fed \in Seq(Cells)
        BY <1>3
    <2>3. sender \in BOOLEAN
        BY DEF Tapped
    <2>4. dropped \in BOOLEAN
        OBVIOUS
    <2> QED
        BY <1>4, <2>1, <2>2, <2>3, <2>4 DEF Typed
<1>6. Stages
    BY DEF Stages
<1>7. Watched
    <2>1. Sound(NewObserver)
        BY NewObserverFields DEF Sound, Supported
    <2>2. Watching(Cells, NewObserver, <<>>)
        BY WatchingNothing
    <2> QED
        BY <2>1, <2>2 DEF Watched
<1>8. TerminalIsLast
    BY <1>3 DEF TerminalIsLast
<1>9. NothingLost
    <2> DEFINE p == [i \in 1..(Len(queue) + 1) |-> 0]
    <2>1. p \in [1..(Len(queue) + 1) -> 0..seen] /\ Offsets(p)
        BY <1>3 DEF Offsets
    <2>2. ASSUME task # "done" PROVE sender
        BY <2>2
    <2> HIDE DEF p
    <2> QED
        BY <2>1, <2>2 DEF NothingLost
<1>10. FragmentsDoNotMatter /\ CompleteMeansWhole /\ FinalUsageIsConfirmed
    BY DEF FragmentsDoNotMatter, CompleteMeansWhole, FinalUsageIsConfirmed, Recorded
<1>11. CompactionIsMeasuredOnce
    BY <1>3 DEF CompactionIsMeasuredOnce
<1> QED
    BY <1>5, <1>6, <1>7, <1>8, <1>9, <1>10, <1>11 DEF TapInv

-----------------------------------------------------------------------------
(***************************************************************************)
(* Pieces of the body.                                                     *)
(***************************************************************************)
LEMMA NoPiece ==
    ASSUME NEW S, NEW s \in Seq(S), NEW n \in Nat
    PROVE  SubSeq(s, n + 1, n) = <<>>
    OBVIOUS

LEMMA PieceLength ==
    ASSUME NEW S, NEW s \in Seq(S), NEW m \in Nat, NEW n \in Nat, m <= n, n <= Len(s)
    PROVE  SubSeq(s, m + 1, n) \in Seq(S) /\ Len(SubSeq(s, m + 1, n)) = n - m
    OBVIOUS

LEMMA PiecesJoin ==
    ASSUME NEW S, NEW s \in Seq(S), NEW m \in Nat, NEW n \in Nat, m <= n, n <= Len(s)
    PROVE  SubSeq(s, 1, m) \o SubSeq(s, m + 1, n) = SubSeq(s, 1, n)
<1> DEFINE a == SubSeq(s, 1, m)
           b == SubSeq(s, m + 1, n)
           c == SubSeq(s, 1, n)
<1>1. /\ a \in Seq(S) /\ Len(a) = m /\ \A i \in 1..m : a[i] = s[i]
    OBVIOUS
<1>2. /\ b \in Seq(S) /\ Len(b) = n - m /\ \A i \in 1..(n - m) : b[i] = s[m + i]
    <2>1. Len(b) = n - m /\ b \in Seq(S)
        OBVIOUS
    <2>2. \A i \in 1..(n - m) : b[i] = s[m + i]
        <3> TAKE i \in 1..(n - m)
        <3>1. (m + 1) + i - 1 = m + i
            OBVIOUS
        <3>2. b[i] = s[(m + 1) + i - 1]
            OBVIOUS
        <3> HIDE DEF b
        <3> QED
            BY <3>1, <3>2
    <2> HIDE DEF b
    <2> QED
        BY <2>1, <2>2
<1>3. /\ c \in Seq(S) /\ Len(c) = n /\ \A i \in 1..n : c[i] = s[i]
    OBVIOUS
<1> HIDE DEF a, b, c
<1>4. a \o b \in Seq(S) /\ Len(a \o b) = n
    <2>1. a \o b \in Seq(S) /\ Len(a \o b) = Len(a) + Len(b)
        BY <1>1, <1>2, ConcatProperties
    <2>2. Len(a) + Len(b) = n
        BY <1>1, <1>2
    <2> QED
        BY <2>1, <2>2
<1> DEFINE whole == a \o b
<1>5. \A i \in 1..n : whole[i] = IF i <= m THEN a[i] ELSE b[i - m]
    BY <1>1, <1>2, ConcatProperties
<1> HIDE DEF whole
<1>6. \A i \in 1..n : whole[i] = c[i]
    <2> TAKE i \in 1..n
    <2>1. CASE i <= m
        BY <1>1, <1>3, <1>5, <2>1
    <2>2. CASE i > m
        <3> DEFINE k == i - m
        <3>1. k \in 1..(n - m) /\ m + k = i
            BY <2>2
        <3>2. whole[i] = b[k]
            BY <1>5, <2>2
        <3> HIDE DEF k
        <3>3. b[k] = s[m + k]
            BY <1>2, <3>1
        <3>4. s[m + k] = s[i] /\ c[i] = s[i]
            BY <1>3, <3>1
        <3> QED
            BY <3>2, <3>3, <3>4
    <2> QED
        BY <2>1, <2>2
<1>7. whole = c
    BY <1>3, <1>4, <1>6 DEF whole
<1> QED
    BY <1>7 DEF whole, a, b, c

-----------------------------------------------------------------------------
(***************************************************************************)
(* What the steps of the invariant's proof share.                          *)
(***************************************************************************)
\* A record already made is judged by what no later step changes.
LEMMA JudgementsKept ==
    ASSUME FragmentsDoNotMatter, CompleteMeansWhole, FinalUsageIsConfirmed,
           exchange' = exchange, fed' = fed, recorded' = recorded,
           recorded # <<>> => seen' = seen /\ stopped' = stopped /\ dropped' = dropped
    PROVE  FragmentsDoNotMatter' /\ CompleteMeansWhole' /\ FinalUsageIsConfirmed'
<1>1. CASE recorded = <<>>
    BY <1>1 DEF FragmentsDoNotMatter, CompleteMeansWhole, FinalUsageIsConfirmed, Recorded
<1>2. CASE recorded # <<>>
    <2>1. UNCHANGED <<exchange, fed, recorded, seen, stopped, dropped>>
        BY <1>2
    <2>2. FragmentsDoNotMatter'
        BY <2>1 DEF FragmentsDoNotMatter, Recorded, Streamed, Response, SameObservation, Whole,
                    Exhausted
    <2>3. CompleteMeansWhole'
        BY <2>1 DEF CompleteMeansWhole, Recorded, Streamed, Response, Exhausted
    <2>4. FinalUsageIsConfirmed'
        BY <2>1 DEF FinalUsageIsConfirmed, Recorded, Response
    <2> QED
        BY <2>2, <2>3, <2>4
<1> QED
    BY <1>1, <1>2

\* What a stream that is still open offers.
LEMMA Offered ==
    ASSUME Typed, Stages, TerminalIsLast, stream = "open",
           NEW message \in Messages,
           Offer(message) \/ (~Tapped /\ UNCHANGED <<queue, dropped>>),
           task' = task
    PROVE  /\ \A i \in 1..Len(queue) : queue[i].kind = "Chunk"
           /\ queue' \in {queue, Append(queue, message)}
           /\ queue' \in Seq(Messages) /\ Len(queue') <= QueueCapacity /\ dropped' \in BOOLEAN
           /\ task = "done" => queue' = <<>>
           /\ task # "done" /\ ~dropped' => ~dropped /\ queue' = Append(queue, message)
<1>1. \A i \in 1..Len(queue) : queue[i].kind = "Chunk"
    BY DEF TerminalIsLast
<1>2. \/ queue' = queue /\ dropped' = dropped /\ task = "done"
      \/ queue' = Append(queue, message) /\ dropped' = dropped /\ task # "done"
            /\ Len(queue) < QueueCapacity
      \/ queue' = queue /\ dropped' = TRUE
    BY OfferCases DEF Stages
<1>3. /\ queue \in Seq(Messages) /\ Len(queue) <= QueueCapacity /\ dropped \in BOOLEAN
      /\ task = "done" => queue = <<>>
    BY DEF Typed, TapTypeOK, Stages
<1>4. QueueCapacity \in Nat
    BY TapAssumption
<1>5. Append(queue, message) \in Seq(Messages) /\ Len(Append(queue, message)) = Len(queue) + 1
    BY <1>3, AppendProperties
<1>6. Len(queue) \in Nat
    BY <1>3
<1> DEFINE longer == Append(queue, message)
<1>7. longer \in Seq(Messages) /\ (Len(queue) < QueueCapacity => Len(longer) <= QueueCapacity)
    BY <1>4, <1>5, <1>6
<1> HIDE DEF longer, Messages
<1>8. queue' \in {queue, longer} /\ queue' \in Seq(Messages) /\ Len(queue') <= QueueCapacity
    BY <1>2, <1>3, <1>7 DEF longer
<1>9. /\ dropped' \in BOOLEAN /\ (task = "done" => queue' = <<>>)
      /\ task # "done" /\ ~dropped' => ~dropped /\ queue' = longer
    BY <1>2, <1>3 DEF longer
<1> QED
    BY <1>1, <1>8, <1>9 DEF longer

LEMMA OfferedLast ==
    ASSUME \A i \in 1..Len(queue) : queue[i].kind = "Chunk", queue \in Seq(Messages),
           NEW message \in Messages, queue' \in {queue, Append(queue, message)},
           message.kind # "Chunk" =>
               /\ message.cells = <<>> /\ stream' # "open"
               /\ message.kind = "Finished" => stopped' = "ended" \/ Exhausted'
    PROVE  TerminalIsLast'
<1> SUFFICES ASSUME NEW i \in 1..Len(queue'), queue'[i].kind # "Chunk"
             PROVE  /\ i = Len(queue') /\ queue'[i].cells = <<>> /\ stream' # "open"
                    /\ queue'[i].kind = "Finished" => stopped' = "ended" \/ Exhausted'
    BY DEF TerminalIsLast
<1> HIDE DEF Messages
<1>1. queue' = Append(queue, message)
    OBVIOUS
<1>2. /\ Len(queue') = Len(queue) + 1 /\ queue'[Len(queue) + 1] = message
      /\ \A k \in 1..Len(queue) : queue'[k] = queue[k]
    BY <1>1, AppendProperties
<1>3. i = Len(queue) + 1
    <2>1. Len(queue) \in Nat
        OBVIOUS
    <2>2. i \notin 1..Len(queue)
        BY <1>2
    <2> QED
        BY <1>2, <2>1, <2>2
<1>4. queue'[i] = message
    BY <1>2, <1>3
<1> QED
    BY <1>2, <1>3, <1>4

\* A message that found room continues the pieces of the body.
LEMMA OfferedOffsets ==
    ASSUME Typed, NEW message \in Messages, NEW n \in seen..Length, seen' = n,
           exchange' = exchange, fed' = fed, queue' = Append(queue, message),
           message.cells = SubSeq(exchange.body, seen + 1, n),
           \E p \in [1..(Len(queue) + 1) -> 0..seen] : Offsets(p)
    PROVE  \E p \in [1..(Len(queue') + 1) -> 0..seen'] : Offsets(p)'
<1> DEFINE k == Len(queue)
<1>1. queue \in Seq(Messages) /\ k \in Nat /\ seen \in Nat /\ n \in Nat /\ seen <= n
    BY BodyTyped DEF Typed
<1>2. PICK p \in [1..(k + 1) -> 0..seen] : Offsets(p)
    OBVIOUS
<1> DEFINE q == [i \in 1..(k + 2) |-> IF i = k + 2 THEN n ELSE p[i]]
<1> HIDE DEF Messages
<1>3. /\ Len(queue') = k + 1 /\ queue'[k + 1] = message
      /\ \A i \in 1..k : queue'[i] = queue[i]
    BY <1>1, AppendProperties
<1> HIDE DEF k
<1>4. /\ p[1] \in 0..seen /\ fed = SubSeq(exchange.body, 1, p[1])
      /\ p[k + 1] = seen
      /\ \A i \in 1..k :
            /\ p[i + 1] \in 0..seen /\ p[i] <= p[i + 1]
            /\ queue[i].cells = SubSeq(exchange.body, p[i] + 1, p[i + 1])
    BY <1>2 DEF Offsets, k
<1>5. q \in [1..(k + 2) -> 0..n]
    BY <1>1, <1>2
<1>6. q[k + 2] = n /\ \A i \in 1..(k + 1) : q[i] = p[i]
    BY <1>1
<1> HIDE DEF q
<1>7. q[1] = p[1] /\ q[k + 1] = seen
    BY <1>1, <1>4, <1>6
<1>8. \A i \in 1..(k + 1) :
          /\ q[i + 1] \in 0..n /\ q[i] <= q[i + 1]
          /\ queue'[i].cells = SubSeq(exchange.body, q[i] + 1, q[i + 1])
    <2> TAKE i \in 1..(k + 1)
    <2>1. CASE i = k + 1
        <3>1. q[i] = seen /\ q[i + 1] = n /\ queue'[i] = message
            BY <1>1, <1>3, <1>6, <1>7, <2>1
        <3> QED
            BY <1>1, <3>1
    <2>2. CASE i # k + 1
        <3>1. i \in 1..k /\ i + 1 \in 1..(k + 1)
            BY <1>1, <2>2
        <3>2. q[i] = p[i] /\ q[i + 1] = p[i + 1] /\ queue'[i] = queue[i]
            BY <1>3, <1>6, <3>1
        <3>3. p[i + 1] \in 0..n
            BY <1>1, <1>4, <3>1
        <3> QED
            BY <1>4, <3>1, <3>2, <3>3
    <2> QED
        BY <2>1, <2>2
<1>9. Len(queue') + 1 = k + 2 /\ q[Len(queue') + 1] = n
    BY <1>1, <1>3, <1>6
<1>10. q[1] \in 0..n /\ fed' = SubSeq(exchange'.body, 1, q[1])
    BY <1>1, <1>4, <1>7
<1>11. PICK r \in [1..(Len(queue') + 1) -> 0..seen'] : r = q
    BY <1>5, <1>9
<1>12. Offsets(r)'
    <2>1. r[1] \in 0..seen' /\ fed' = SubSeq(exchange'.body, 1, r[1]) /\ r[Len(queue') + 1] = seen'
        BY <1>9, <1>10, <1>11
    <2>2. \A i \in 1..Len(queue') :
              /\ r[i + 1] \in 0..seen' /\ r[i] <= r[i + 1]
              /\ queue'[i].cells = SubSeq(exchange'.body, r[i] + 1, r[i + 1])
        BY <1>3, <1>8, <1>11
    <2> QED
        BY <2>1, <2>2 DEF Offsets
<1> QED
    BY <1>12

-----------------------------------------------------------------------------
(***************************************************************************)
(* One lemma per action.                                                   *)
(***************************************************************************)
LEMMA RequestStep ==
    ASSUME TapInv, UNCHANGED <<exchange, body, channel, observation, compactions>>,
           request' \in {"parsing", "recording", "published"},
           hint' \in {"pending", "none", "sse", "json"}
    PROVE  TapInv'
<1> USE DEF body, channel, observation
<1>1. Typed'
    BY DEF TapInv, Typed, TapTypeOK, Length
<1>2. Stages'
    BY DEF TapInv, Stages, Tapped
<1>3. Watched'
    BY DEF TapInv, Watched
<1>4. TerminalIsLast'
    BY DEF TapInv, TerminalIsLast, Exhausted
<1>5. NothingLost'
    BY DEF TapInv, NothingLost, Offsets
<1>6. FragmentsDoNotMatter' /\ CompleteMeansWhole' /\ FinalUsageIsConfirmed'
    BY JudgementsKept DEF TapInv
<1>7. CompactionIsMeasuredOnce'
    BY DEF TapInv, CompactionIsMeasuredOnce, Exhausted
<1> QED
    BY <1>1, <1>2, <1>3, <1>4, <1>5, <1>6, <1>7 DEF TapInv

LEMMA HintTyped ==
    ASSUME NEW flag
    PROVE  HintOf(flag) \in {"none", "sse", "json"}
    BY DEF HintOf

LEMMA ForwardStep ==
    ASSUME TapInv, ForwardChunk
    PROVE  TapInv'
<1> DEFINE cells == SubSeq(exchange.body, seen + 1, NextCut)
           message == Chunk(cells)
<1> USE DEF upstream, observation
<1>1. /\ Typed /\ Stages /\ TerminalIsLast /\ stream = "open" /\ seen < Length
      /\ NextCut <= MaxSemanticBytes /\ seen' = NextCut /\ Offer(message)
      /\ UNCHANGED <<exchange, request, hint, stream, stopped, sender, task, observer, fed,
                     recorded, compactions>>
    BY DEF TapInv, ForwardChunk
<1>2. /\ exchange \in Exchanges /\ seen \in 0..Length /\ exchange.body \in Seq(Cells)
      /\ Length \in Nat
    BY <1>1, BodyTyped DEF Typed
<1>3. NextCut \in (seen + 1)..Length
    BY <1>1, <1>2, NextCutTyped
<1>4. cells \in Seq(Cells)
    BY <1>2, <1>3, PieceLength DEF Length
<1>5. message \in Messages /\ message.kind = "Chunk" /\ message.cells = cells
    BY <1>4, MessagesTyped
<1> HIDE DEF message, cells
<1>6. /\ \A i \in 1..Len(queue) : queue[i].kind = "Chunk"
      /\ queue' \in {queue, Append(queue, message)}
      /\ queue' \in Seq(Messages) /\ Len(queue') <= QueueCapacity /\ dropped' \in BOOLEAN
      /\ task = "done" => queue' = <<>>
      /\ task # "done" /\ ~dropped' => ~dropped /\ queue' = Append(queue, message)
    BY <1>1, <1>5, Offered
<1>7. seen' \in 0..Length' /\ seen' \in 0..MaxSemanticBytes
    <2>1. MaxSemanticBytes \in Nat
        BY JsonAssumption
    <2> QED
        BY <1>1, <1>2, <1>3, <2>1 DEF Length
<1>8. Typed'
    BY <1>1, <1>6, <1>7 DEF Typed, TapTypeOK
<1>9. Stages'
    BY <1>1, <1>6 DEF Stages, Tapped
<1>10. Watched'
    BY <1>1 DEF TapInv, Watched
<1>11. TerminalIsLast'
    BY <1>1, <1>5, <1>6, OfferedLast DEF Typed
<1>12. NothingLost'
    <2> SUFFICES ASSUME task' # "done", ~dropped' PROVE NothingLost'
        BY DEF NothingLost
    <2>1. ~dropped /\ queue' = Append(queue, message)
        BY <1>1, <1>6
    <2>2. \E p \in [1..(Len(queue) + 1) -> 0..seen] : Offsets(p)
        BY <1>1, <2>1 DEF TapInv, NothingLost
    <2>3. PICK n \in seen..Length : n = NextCut
        BY <1>2, <1>3
    <2>4. \E p \in [1..(Len(queue') + 1) -> 0..seen'] : Offsets(p)'
        BY <1>1, <1>5, <2>1, <2>2, <2>3, OfferedOffsets DEF cells
    <2>5. sender'
        BY <1>1 DEF Stages
    <2> QED
        BY <2>4, <2>5 DEF NothingLost
<1>13. FragmentsDoNotMatter' /\ CompleteMeansWhole' /\ FinalUsageIsConfirmed'
    BY <1>1, JudgementsKept DEF TapInv, Stages
<1>14. CompactionIsMeasuredOnce'
    BY <1>1 DEF TapInv, Stages, CompactionIsMeasuredOnce
<1> QED
    BY <1>8, <1>9, <1>10, <1>11, <1>12, <1>13, <1>14 DEF TapInv

\* A stream that stops for the first time: it settles, or its body is dropped.
LEMMA StopStep ==
    ASSUME TapInv, stream = "open", stream' \in {"settled", "dropped"},
           stopped' \in {"ended", "exceeded", "failed", "abandoned"},
           NEW kind \in {"Finished", "Disconnected"}, NEW outcome,
           \/ Tapped /\ Conclude(kind)
           \/ ~Tapped /\ UNCHANGED <<queue, dropped>> /\ (sender' = FALSE \/ sender' = sender),
           compactions' = IF exchange.mode = "compaction" THEN Measured(outcome) ELSE compactions,
           UNCHANGED <<upstream, seen, observation>>,
           kind = "Finished" => stopped' = "ended" \/ Exhausted,
           exchange.mode = "compaction" /\ outcome \in {"Completed", "Failed"}
               => stopped' = "ended" \/ Exhausted
    PROVE  TapInv'
<1> DEFINE message == Final(kind)
<1> USE DEF upstream, observation
<1>1. /\ Typed /\ Stages /\ TerminalIsLast
      /\ UNCHANGED <<exchange, request, hint, seen, task, observer, fed, recorded>>
    BY DEF TapInv
<1>2. sender' = FALSE /\ (Offer(message) \/ (~Tapped /\ UNCHANGED <<queue, dropped>>))
    BY <1>1 DEF Conclude, Stages
<1>3. /\ exchange \in Exchanges /\ seen \in 0..Length /\ exchange.body \in Seq(Cells)
      /\ Length \in Nat
    BY <1>1, BodyTyped DEF Typed
<1>4. message \in Messages /\ message.kind = kind /\ message.cells = <<>>
    BY MessagesTyped
<1> HIDE DEF message
<1>5. /\ \A i \in 1..Len(queue) : queue[i].kind = "Chunk"
      /\ queue' \in {queue, Append(queue, message)}
      /\ queue' \in Seq(Messages) /\ Len(queue') <= QueueCapacity /\ dropped' \in BOOLEAN
      /\ task = "done" => queue' = <<>>
      /\ task # "done" /\ ~dropped' => ~dropped /\ queue' = Append(queue, message)
    BY <1>1, <1>2, <1>4, Offered
<1>6. Typed'
    BY <1>1, <1>2, <1>5 DEF Typed, TapTypeOK, Length
<1>7. Stages'
    BY <1>1, <1>2, <1>5 DEF Stages, Tapped
<1>8. Watched'
    BY <1>1 DEF TapInv, Watched
<1>9. TerminalIsLast'
    BY <1>1, <1>4, <1>5, OfferedLast DEF Typed, Exhausted
<1>10. NothingLost'
    <2> SUFFICES ASSUME task' # "done", ~dropped' PROVE NothingLost'
        BY DEF NothingLost
    <2>1. ~dropped /\ queue' = Append(queue, message)
        BY <1>1, <1>5
    <2>2. \E p \in [1..(Len(queue) + 1) -> 0..seen] : Offsets(p)
        BY <1>1, <2>1 DEF TapInv, NothingLost
    <2>3. message.cells = SubSeq(exchange.body, seen + 1, seen)
        BY <1>3, <1>4, NoPiece
    <2>4. PICK n \in seen..Length : n = seen
        BY <1>3
    <2>5. \E p \in [1..(Len(queue') + 1) -> 0..seen'] : Offsets(p)'
        BY <1>1, <1>4, <2>1, <2>2, <2>3, <2>4, OfferedOffsets
    <2>6. queue' # <<>> /\ queue'[Len(queue')].kind # "Chunk"
        <3>1. queue \in Seq(Messages)
            BY <1>1 DEF Typed
        <3> HIDE DEF Messages
        <3>2. Len(queue') = Len(queue) + 1 /\ queue'[Len(queue) + 1] = message
            BY <1>4, <2>1, <3>1, AppendProperties
        <3>3. queue' # <<>>
            BY <2>1, <3>1
        <3> QED
            BY <1>4, <3>2, <3>3
    <2> QED
        BY <2>5, <2>6 DEF NothingLost
<1>11. FragmentsDoNotMatter' /\ CompleteMeansWhole' /\ FinalUsageIsConfirmed'
    BY <1>1, JudgementsKept DEF TapInv, Stages
<1>12. CompactionIsMeasuredOnce'
    <2> SUFFICES ASSUME exchange.mode = "compaction"
                 PROVE  /\ Len(compactions') = 1
                        /\ \A i \in 1..Len(compactions') :
                              compactions'[i].outcome \in {"Completed", "Failed"} =>
                                  stopped' = "ended" \/ Exhausted'
        BY <1>1 DEF CompactionIsMeasuredOnce
    <2>1. compactions' = <<[outcome |-> outcome, bytes |-> seen]>>
        BY <1>1 DEF Stages, Measured
    <2>2. Len(compactions') = 1 /\ compactions'[1].outcome = outcome
        BY <2>1
    <2>3. Exhausted => Exhausted'
        BY <1>1 DEF Exhausted
    <2>4. \A i \in 1..Len(compactions') : compactions'[i].outcome = outcome
        <3>1. \A i \in 1..1 : i = 1
            OBVIOUS
        <3>2. 1..Len(compactions') = 1..1
            BY <2>2
        <3> QED
            BY <2>2, <3>1, <3>2
    <2>5. outcome \in {"Completed", "Failed"} => stopped' = "ended" \/ Exhausted'
        BY <2>3
    <2> QED
        BY <2>2, <2>4, <2>5
<1> QED
    BY <1>6, <1>7, <1>8, <1>9, <1>10, <1>11, <1>12 DEF TapInv

LEMMA SettleStep ==
    ASSUME TapInv, ExceedLimit \/ UpstreamFails \/ UpstreamEnds
    PROVE  TapInv'
<1>1. CompletionOf \in {"Completed", "Failed"}
    BY DEF CompletionOf
<1>2. CASE ExceedLimit
    BY <1>2, StopStep DEF ExceedLimit, SettleAs
<1>3. CASE UpstreamFails
    BY <1>3, StopStep DEF UpstreamFails, SettleAs
<1>4. CASE UpstreamEnds
    BY <1>1, <1>4, StopStep DEF UpstreamEnds, SettleAs
<1> QED
    BY <1>2, <1>3, <1>4

LEMMA DropStep ==
    ASSUME TapInv, DropBody
    PROVE  TapInv'
<1>1. CASE stream = "open"
    <2> DEFINE kind == IF Exhausted THEN "Finished" ELSE "Disconnected"
               outcome == IF Exhausted THEN CompletionOf ELSE "Cancelled"
    <2>1. /\ stream' = "dropped" /\ stopped' = "abandoned"
          /\ IF Tapped THEN Conclude(kind) ELSE sender' = FALSE /\ UNCHANGED <<queue, dropped>>
          /\ compactions' = IF exchange.mode = "compaction" THEN Measured(outcome) ELSE compactions
          /\ UNCHANGED <<upstream, seen, observation>>
        BY <1>1 DEF DropBody
    <2>2. kind \in {"Finished", "Disconnected"} /\ (kind = "Finished" => Exhausted)
        OBVIOUS
    <2>3. outcome \in {"Completed", "Failed"} => Exhausted
        OBVIOUS
    <2> HIDE DEF kind, outcome
    <2> QED
        BY <1>1, <2>1, <2>2, <2>3, StopStep
<1>2. CASE stream # "open"
    <2> USE DEF upstream, observation
    <2>1. /\ stream' = "dropped" /\ stopped' = stopped /\ sender' = FALSE /\ sender = FALSE
          /\ UNCHANGED <<queue, dropped, compactions, exchange, request, hint, seen, task,
                         observer, fed, recorded>>
        BY <1>2 DEF DropBody, TapInv, Stages
    <2>2. Typed'
        BY <2>1 DEF TapInv, Typed, TapTypeOK, Length
    <2>3. Stages'
        BY <1>2, <2>1 DEF TapInv, Stages, Tapped
    <2>4. Watched'
        BY <2>1 DEF TapInv, Watched
    <2>5. TerminalIsLast'
        BY <2>1 DEF TapInv, TerminalIsLast, Exhausted
    <2>6. NothingLost'
        BY <2>1 DEF TapInv, NothingLost, Offsets
    <2>7. FragmentsDoNotMatter' /\ CompleteMeansWhole' /\ FinalUsageIsConfirmed'
        BY <2>1, JudgementsKept DEF TapInv
    <2>8. CompactionIsMeasuredOnce'
        BY <1>2, <2>1 DEF TapInv, CompactionIsMeasuredOnce, Exhausted
    <2> QED
        BY <2>2, <2>3, <2>4, <2>5, <2>6, <2>7, <2>8 DEF TapInv
<1> QED
    BY <1>1, <1>2

LEMMA ResolveStep ==
    ASSUME TapInv, ResolveMode
    PROVE  TapInv'
<1> USE DEF upstream, body
<1>1. /\ Typed /\ Stages /\ task = "resolving" /\ recorded = <<>> /\ Tapped
      /\ UNCHANGED <<exchange, request, hint, stream, seen, stopped, sender, dropped, observer,
                     fed, recorded, compactions>>
    BY DEF TapInv, ResolveMode, Stages
<1>2. (task' \in {"sse", "json"} /\ queue' = queue) \/ (task' = "done" /\ queue' = <<>>)
    <2>1. queue' = IF task' = "done" THEN <<>> ELSE queue
        BY DEF ResolveMode
    <2>2. CASE exchange.mode # "hint" /\ task' = exchange.mode
        BY <1>1, <2>1, <2>2 DEF Tapped
    <2>3. CASE hint # "pending" /\ task' = IF hint = "none" THEN "done" ELSE hint
        BY <1>1, <2>1, <2>3 DEF Typed, TapTypeOK
    <2> QED
        BY <2>2, <2>3 DEF ResolveMode
<1>3. queue' \in Seq(Messages) /\ Len(queue') <= QueueCapacity
    <2>1. QueueCapacity \in Nat /\ <<>> \in Seq(Messages) /\ Len(<<>>) = 0
        BY TapAssumption
    <2>2. queue \in Seq(Messages) /\ Len(queue) <= QueueCapacity
        BY <1>1 DEF Typed, TapTypeOK
    <2> HIDE DEF Messages
    <2>3. CASE queue' = queue
        BY <2>2, <2>3
    <2>4. CASE queue' = <<>>
        BY <2>1, <2>4
    <2> QED
        BY <1>2, <2>3, <2>4
<1>4. Typed'
    BY <1>1, <1>2, <1>3 DEF Typed, TapTypeOK, Length
<1>5. Stages'
    BY <1>1, <1>2 DEF Stages, Tapped
<1>6. Watched'
    <2>1. Watching(Cells, NewObserver, <<>>)
        BY WatchingNothing
    <2> QED
        BY <1>1, <1>2, <2>1 DEF TapInv, Watched
<1>7. TerminalIsLast'
    BY <1>1, <1>2 DEF TapInv, TerminalIsLast, Exhausted
<1>8. NothingLost'
    <2>1. CASE task' = "done"
        BY <2>1 DEF NothingLost
    <2>2. CASE queue' = queue
        BY <1>1, <2>2 DEF TapInv, NothingLost, Offsets
    <2> QED
        BY <1>2, <2>1, <2>2
<1>9. FragmentsDoNotMatter' /\ CompleteMeansWhole' /\ FinalUsageIsConfirmed'
    BY <1>1, JudgementsKept DEF TapInv
<1>10. CompactionIsMeasuredOnce'
    BY <1>1 DEF TapInv, CompactionIsMeasuredOnce, Exhausted
<1> QED
    BY <1>4, <1>5, <1>6, <1>7, <1>8, <1>9, <1>10 DEF TapInv

\* The task takes the oldest piece.
LEMMA TakenOffsets ==
    ASSUME Typed, queue # <<>>, queue' = Tail(queue), seen' = seen, exchange' = exchange,
           fed' = fed \o queue[1].cells,
           \E p \in [1..(Len(queue) + 1) -> 0..seen] : Offsets(p)
    PROVE  \E p \in [1..(Len(queue') + 1) -> 0..seen'] : Offsets(p)'
<1> DEFINE k == Len(queue)
<1>1. /\ queue \in Seq(Messages) /\ k \in Nat \ {0} /\ seen \in 0..Length /\ Length \in Nat
      /\ exchange.body \in Seq(Cells)
    BY BodyTyped DEF Typed
<1>2. PICK p \in [1..(k + 1) -> 0..seen] : Offsets(p)
    OBVIOUS
<1> HIDE DEF Messages, Cells
<1>3. Len(queue') = k - 1 /\ \A i \in 1..(k - 1) : queue'[i] = queue[i + 1]
    BY <1>1, HeadTailProperties
<1> HIDE DEF k
<1>4. /\ p[1] \in 0..seen /\ fed = SubSeq(exchange.body, 1, p[1])
      /\ p[k + 1] = seen
      /\ \A i \in 1..k :
            /\ p[i + 1] \in 0..seen /\ p[i] <= p[i + 1]
            /\ queue[i].cells = SubSeq(exchange.body, p[i] + 1, p[i + 1])
    BY <1>2 DEF Offsets, k
<1>5. fed' = SubSeq(exchange.body, 1, p[2]) /\ p[2] \in 0..seen
    <2>1. 1 \in 1..k /\ 1 + 1 = 2
        BY <1>1
    <2>2. /\ p[2] \in 0..seen /\ p[1] <= p[2]
          /\ queue[1].cells = SubSeq(exchange.body, p[1] + 1, p[2])
        BY <1>4, <2>1
    <2>3. p[1] \in Nat /\ p[2] \in Nat /\ p[2] <= Len(exchange.body)
        BY <1>1, <1>4, <2>2 DEF Length
    <2>4. SubSeq(exchange.body, 1, p[1]) \o SubSeq(exchange.body, p[1] + 1, p[2])
              = SubSeq(exchange.body, 1, p[2])
        BY <1>1, <2>2, <2>3, PiecesJoin
    <2> QED
        BY <1>4, <2>2, <2>4
<1> DEFINE q == [i \in 1..k |-> p[i + 1]]
<1>6. q \in [1..k -> 0..seen] /\ \A i \in 1..k : q[i] = p[i + 1]
    BY <1>1, <1>4
<1> HIDE DEF q
<1>7. PICK r \in [1..k -> 0..seen] : r = q
    BY <1>6
<1>8. r[1] = p[2] /\ r[k] = seen
    BY <1>1, <1>4, <1>6, <1>7
<1>9. \A i \in 1..(k - 1) :
          /\ r[i + 1] \in 0..seen /\ r[i] <= r[i + 1]
          /\ queue'[i].cells = SubSeq(exchange.body, r[i] + 1, r[i + 1])
    <2> TAKE i \in 1..(k - 1)
    <2>1. i \in 1..k /\ i + 1 \in 1..k
        BY <1>1
    <2>2. r[i] = p[i + 1] /\ r[i + 1] = p[(i + 1) + 1] /\ queue'[i] = queue[i + 1]
        BY <1>3, <1>6, <1>7, <2>1
    <2> QED
        BY <1>4, <2>1, <2>2
<1>10. Len(queue') + 1 = k
    BY <1>1, <1>3
<1>11. Offsets(r)'
    <2>1. r[1] \in 0..seen' /\ fed' = SubSeq(exchange'.body, 1, r[1]) /\ r[Len(queue') + 1] = seen'
        BY <1>5, <1>8, <1>10
    <2>2. \A i \in 1..Len(queue') :
              /\ r[i + 1] \in 0..seen' /\ r[i] <= r[i + 1]
              /\ queue'[i].cells = SubSeq(exchange'.body, r[i] + 1, r[i + 1])
        BY <1>3, <1>9
    <2> QED
        BY <2>1, <2>2 DEF Offsets
<1>12. r \in [1..(Len(queue') + 1) -> 0..seen']
    BY <1>7, <1>10
<1> QED
    BY <1>11, <1>12

LEMMA ObserveStep ==
    ASSUME TapInv, ObserveChunk
    PROVE  TapInv'
<1> DEFINE cells == Head(queue).cells
           fits == task = "sse" \/ Len(fed) + Len(cells) <= MaxSemanticBytes
<1> USE DEF upstream, body
<1>1. /\ Typed /\ Stages /\ task \in {"sse", "json"} /\ recorded = <<>> /\ queue # <<>>
      /\ Head(queue).kind = "Chunk" /\ queue' = Tail(queue)
      /\ observer' = IF task = "sse" THEN Push(observer, cells) ELSE observer
      /\ fed' = IF fits THEN fed \o cells ELSE fed
      /\ dropped' = (dropped \/ ~fits)
      /\ UNCHANGED <<exchange, request, hint, stream, seen, stopped, sender, task, recorded,
                     compactions>>
    BY DEF TapInv, ObserveChunk, Stages
<1>2. /\ queue \in Seq(Messages) /\ queue[1] \in Messages /\ queue[1].kind = "Chunk"
      /\ cells = queue[1].cells
    BY <1>1, HeadTailProperties DEF Typed
<1>3. cells \in Seq(Cells)
    BY <1>2 DEF Messages
<1>4. fed' \in Seq(Cells)
    <2>1. fed \in Seq(Cells)
        BY <1>1 DEF Typed
    <2> HIDE DEF Cells, cells
    <2>2. fed \o cells \in Seq(Cells)
        BY <1>3, <2>1, ConcatProperties
    <2> HIDE DEF fits
    <2> QED
        BY <1>1, <2>1, <2>2
<1> HIDE DEF cells, fits, Messages, Cells
<1>5. /\ queue' \in Seq(Messages) /\ Len(queue') = Len(queue) - 1 /\ Len(queue) \in Nat \ {0}
      /\ \A i \in 1..(Len(queue) - 1) : queue'[i] = queue[i + 1]
    BY <1>1, <1>2, HeadTailProperties
<1>6. Typed'
    <2>1. dropped' \in BOOLEAN
        BY <1>1
    <2>2. Len(queue') <= QueueCapacity
        <3>1. QueueCapacity \in Nat /\ Len(queue) <= QueueCapacity
            BY <1>1, TapAssumption DEF Typed, TapTypeOK
        <3> QED
            BY <1>5, <3>1
    <2> QED
        BY <1>1, <1>4, <1>5, <2>1, <2>2 DEF Typed, TapTypeOK, Length
<1>7. Stages'
    BY <1>1 DEF Stages, Tapped
<1>8. Watched'
    <2>1. Sound(observer) /\ (task = "sse" => Watching(Cells, observer, fed))
        BY DEF TapInv, Watched
    <2>2. CASE task = "sse"
        <3>1. observer' = Push(observer, cells) /\ fed' = fed \o cells
            BY <1>1, <2>2 DEF fits
        <3>2. observer.framer \in Framers(Cells)
            BY <2>1, <2>2 DEF Watching
        <3>3. Sound(Push(observer, cells))
            BY <1>3, <2>1, <3>2, SoundPush
        <3>4. fed \in Seq(Cells)
            BY <1>1 DEF Typed
        <3>5. Watching(Cells, Push(observer, cells), fed \o cells)
            BY <1>3, <2>1, <2>2, <3>4, Pushed
        <3>6. Sound(observer') /\ Watching(Cells, observer', fed')
            BY <3>1, <3>3, <3>5
        <3> QED
            BY <1>1, <2>2, <3>6 DEF Watched, Cells
    <2>3. CASE task = "json"
        BY <1>1, <2>1, <2>3 DEF Watched
    <2> QED
        BY <1>1, <2>2, <2>3
<1>9. TerminalIsLast'
    <2> SUFFICES ASSUME NEW i \in 1..Len(queue'), queue'[i].kind # "Chunk"
                 PROVE  /\ i = Len(queue') /\ queue'[i].cells = <<>> /\ stream' # "open"
                        /\ queue'[i].kind = "Finished" => stopped' = "ended" \/ Exhausted'
        BY DEF TerminalIsLast
    <2>1. i \in 1..(Len(queue) - 1) /\ i + 1 \in 1..Len(queue) /\ queue'[i] = queue[i + 1]
        BY <1>5
    <2>2. /\ i + 1 = Len(queue) /\ queue[i + 1].cells = <<>> /\ stream # "open"
          /\ queue[i + 1].kind = "Finished" => stopped = "ended" \/ Exhausted
        BY <2>1 DEF TapInv, TerminalIsLast
    <2>3. Exhausted => Exhausted'
        BY <1>1 DEF Exhausted
    <2>4. i = Len(queue')
        BY <1>5, <2>1, <2>2
    <2> QED
        BY <1>1, <2>1, <2>2, <2>3, <2>4
<1>10. NothingLost'
    <2> SUFFICES ASSUME ~dropped' PROVE NothingLost'
        BY DEF NothingLost
    <2>1. ~dropped /\ fits /\ fed' = fed \o queue[1].cells
        BY <1>1, <1>2
    <2>2. /\ \E p \in [1..(Len(queue) + 1) -> 0..seen] : Offsets(p)
          /\ ~sender => queue[Len(queue)].kind # "Chunk"
        BY <1>1, <2>1 DEF TapInv, NothingLost
    <2>3. \E p \in [1..(Len(queue') + 1) -> 0..seen'] : Offsets(p)'
        BY <1>1, <2>1, <2>2, TakenOffsets
    <2>4. ASSUME ~sender' PROVE queue' # <<>> /\ queue'[Len(queue')].kind # "Chunk"
        <3>1. queue[Len(queue)].kind # "Chunk"
            BY <1>1, <2>2, <2>4
        <3>2. Len(queue) # 1
            BY <1>2, <3>1
        <3>3. Len(queue') \in 1..(Len(queue) - 1) /\ Len(queue') + 1 = Len(queue)
            BY <1>5, <3>2
        <3>4. queue'[Len(queue')] = queue[Len(queue)]
            BY <1>5, <3>3
        <3>5. queue' # <<>>
            BY <3>3
        <3> QED
            BY <3>1, <3>4, <3>5
    <2> QED
        BY <2>3, <2>4 DEF NothingLost
<1>11. FragmentsDoNotMatter' /\ CompleteMeansWhole' /\ FinalUsageIsConfirmed'
    BY <1>1 DEF FragmentsDoNotMatter, CompleteMeansWhole, FinalUsageIsConfirmed, Recorded
<1>12. CompactionIsMeasuredOnce'
    BY <1>1 DEF TapInv, CompactionIsMeasuredOnce, Exhausted
<1> QED
    BY <1>6, <1>7, <1>8, <1>9, <1>10, <1>11, <1>12 DEF TapInv

\* What the stream's summary is, when the task judges it.
LEMMA ObserveStreamIs ==
    ASSUME NEW terminal
    PROVE  ObserveStream(terminal) = Settling(observer, terminal)
<1>1. CASE terminal = "Finished"
    BY <1>1 DEF ObserveStream, Settling
<1>2. CASE terminal = "Disconnected"
    BY <1>2 DEF ObserveStream, Settling
<1>3. CASE terminal \notin {"Finished", "Disconnected"}
    BY <1>3 DEF ObserveStream, Settling
<1> QED
    BY <1>1, <1>2, <1>3

LEMMA ConsideredFields ==
    ASSUME NEW x, DOMAIN x = ResponseFields
    PROVE  LET y == Considered(x)
           IN  /\ DOMAIN y = ResponseFields
               /\ \A field \in ResponseFields : field # "status" \/ ~dropped => y[field] = x[field]
               /\ dropped => y.status = "ObserverBackpressure"
    BY DEF Considered, ResponseFields

\* What the task finds when it ends.
LEMMA Terminal ==
    ASSUME TapInv, task \in {"sse", "json"},
           (queue # <<>> /\ Head(queue).kind # "Chunk") \/ (queue = <<>> /\ ~sender),
           NEW terminal, terminal = IF queue = <<>> THEN "none" ELSE Head(queue).kind
    PROVE  /\ terminal \in {"Finished", "Disconnected", "none"} /\ stream # "open"
           /\ terminal = "Finished" => stopped = "ended" \/ Exhausted
           /\ terminal = "none" => dropped
           /\ ~dropped => fed = SubSeq(exchange.body, 1, seen)
<1>1. Typed /\ Stages /\ TerminalIsLast /\ NothingLost /\ task # "done"
    BY DEF TapInv
<1>2. /\ queue \in Seq(Messages) /\ seen \in Nat /\ exchange.body \in Seq(Cells)
      /\ seen <= Len(exchange.body)
    BY <1>1, BodyTyped DEF Typed, Length
<1>3. CASE queue = <<>>
    <2>1. terminal = "none" /\ stream # "open" /\ dropped
        BY <1>1, <1>3 DEF Stages, NothingLost
    <2> QED
        BY <2>1
<1>4. CASE queue # <<>>
    <2> HIDE DEF Cells, Messages
    <2>1. /\ Len(queue) \in Nat \ {0} /\ terminal = queue[1].kind /\ terminal # "Chunk"
          /\ queue[1] \in Messages
        BY <1>2, <1>4, HeadTailProperties
    <2>2. /\ 1 = Len(queue) /\ queue[1].cells = <<>> /\ stream # "open"
          /\ terminal = "Finished" => stopped = "ended" \/ Exhausted
        <3>1. 1 \in 1..Len(queue)
            BY <2>1
        <3>2. queue[1].kind # "Chunk" =>
                  /\ 1 = Len(queue) /\ queue[1].cells = <<>> /\ stream # "open"
                  /\ queue[1].kind = "Finished" => stopped = "ended" \/ Exhausted
            BY <1>1, <3>1 DEF TerminalIsLast
        <3> QED
            BY <2>1, <3>2
    <2>3. terminal \in {"Finished", "Disconnected"}
        BY <2>1 DEF Messages
    <2>4. ASSUME ~dropped PROVE fed = SubSeq(exchange.body, 1, seen)
        <3>1. PICK p \in [1..(Len(queue) + 1) -> 0..seen] : Offsets(p)
            BY <1>1, <2>4 DEF NothingLost
        <3>2. 1 \in 1..Len(queue) /\ 1 + 1 = 2 /\ Len(queue) + 1 = 2
            <4>1. 1 \in 1..1 /\ 1 + 1 = 2
                OBVIOUS
            <4>2. Len(queue) = 1
                BY <2>2
            <4> QED
                BY <4>1, <4>2
        <3>3. /\ p[1] \in 0..seen /\ fed = SubSeq(exchange.body, 1, p[1]) /\ p[2] = seen
              /\ p[1] <= p[2] /\ queue[1].cells = SubSeq(exchange.body, p[1] + 1, p[2])
            BY <3>1, <3>2 DEF Offsets
        <3>4. Len(queue[1].cells) = seen - p[1]
            BY <1>2, <3>3, PieceLength
        <3>5. p[1] = seen
            <4>1. Len(queue[1].cells) = 0
                BY <2>2
            <4> QED
                BY <1>2, <3>3, <3>4, <4>1
        <3> QED
            BY <3>3, <3>5
    <2> QED
        BY <2>2, <2>3, <2>4
<1> QED
    BY <1>3, <1>4

LEMMA RecordStep ==
    ASSUME TapInv, RecordResponse
    PROVE  TapInv'
<1> DEFINE t == IF queue = <<>> THEN "none" ELSE Head(queue).kind
<1> USE DEF upstream, body
<1>1. PICK terminal : terminal = t
    OBVIOUS
<1> DEFINE x == IF task = "sse" THEN ObserveStream(terminal) ELSE ObserveDocument(terminal)
           y == Considered(x)
<1>2. /\ Typed /\ Stages /\ task \in {"sse", "json"} /\ recorded = <<>>
      /\ (queue # <<>> /\ Head(queue).kind # "Chunk") \/ (queue = <<>> /\ ~sender)
      /\ task' = "done" /\ queue' = <<>>
      /\ UNCHANGED <<exchange, request, hint, stream, seen, stopped, sender, dropped, observer,
                     fed, compactions>>
    BY DEF TapInv, RecordResponse, Stages
<1>3. recorded' = <<y>>
    <2>1. recorded' = Append(recorded, Observed(t))
        BY DEF RecordResponse
    <2>2. Observed(t) = y
        BY <1>1 DEF Observed
    <2> HIDE DEF y, t
    <2> QED
        BY <1>2, <2>1, <2>2
<1>4. /\ terminal \in {"Finished", "Disconnected", "none"} /\ stream # "open"
      /\ terminal = "Finished" => stopped = "ended" \/ Exhausted
      /\ terminal = "none" => dropped
      /\ ~dropped => fed = SubSeq(exchange.body, 1, seen)
    BY <1>1, <1>2, Terminal
<1>5. Sound(observer) /\ (task = "sse" => Watching(Cells, observer, fed)) /\ fed \in Seq(Cells)
    BY DEF TapInv, Watched, Typed
<1> HIDE DEF t, Cells
<1>6. /\ DOMAIN x = ResponseFields
      /\ task = "sse" => x.chunks # Absent /\ (x.status = "Complete" => x.state \in TerminalStates)
      /\ task = "json" => x.chunks = Absent /\ (x.status = "Complete" => terminal = "Finished")
      /\ x.usageStatus = "Final" => x.state \in TerminalStates /\ UsageSound(x.usage)
      /\ task = "sse" =>
            \A field \in ResponseFields \ {"chunks"} : x[field] = Whole(terminal)[field]
    <2>1. CASE task = "json"
        <3>1. x = ObserveDocument(terminal)
            BY <2>1
        <3> HIDE DEF x
        <3>2. /\ DOMAIN x = ResponseFields /\ x.chunks = Absent
              /\ x.status = "Complete" => terminal = "Finished"
              /\ x.usageStatus = "Final" => x.state \in TerminalStates /\ UsageSound(x.usage)
            BY <3>1, DocumentHonest
        <3> QED
            BY <2>1, <3>2
    <2>2. CASE task = "sse"
        <3>1. x = Settling(observer, terminal)
            BY <1>2, <2>2, ObserveStreamIs
        <3>2. observer.framer \in Framers(Cells) /\ observer.response.chunks \in Nat
            BY <1>5, <2>2 DEF Watching
        <3> HIDE DEF x
        <3>3. Honest(x) /\ x.chunks = observer.response.chunks
            BY <1>5, <3>1, <3>2, SettlingHonest
        <3> DEFINE w == Push(NewObserver, fed)
        <3>4. Watching(Cells, w, fed)
            <4>1. Watching(Cells, w, <<>> \o fed)
                BY <1>5, WatchingNothing, Pushed, EmptySeq
            <4>2. <<>> \o fed = fed
                BY <1>5, ConcatEmptySeq
            <4> QED
                BY <4>1, <4>2
        <3> HIDE DEF w
        <3>5. observer.terminal => observer.evidence # "none"
            BY <1>5 DEF Sound
        <3>6. /\ DOMAIN x = ResponseFields
              /\ \A field \in ResponseFields \ {"chunks"} : x[field] = Settling(w, terminal)[field]
            BY <1>5, <2>2, <3>1, <3>4, <3>5, SettledAlike
        <3>7. x.chunks # Absent
            BY <3>2, <3>3 DEF Absent
        <3> QED
            BY <2>2, <3>3, <3>6, <3>7 DEF Honest, Whole, w
    <2> QED
        BY <1>2, <2>1, <2>2
<1> HIDE DEF x
<1>7. /\ DOMAIN y = ResponseFields
      /\ \A field \in ResponseFields : field # "status" \/ ~dropped => y[field] = x[field]
      /\ dropped => y.status = "ObserverBackpressure"
    BY <1>6, ConsideredFields
<1> HIDE DEF y
<1>8. /\ y.chunks = x.chunks /\ y.state = x.state /\ y.usage = x.usage
      /\ y.usageStatus = x.usageStatus
      /\ y.status = "Complete" => ~dropped /\ x.status = "Complete"
    BY <1>7 DEF ResponseFields
<1>9. Recorded' /\ Response' = y /\ (Streamed' <=> y.chunks # Absent)
    BY <1>3 DEF Recorded, Response, Streamed
<1>10. (Exhausted' <=> Exhausted) /\ stopped' = stopped /\ dropped' = dropped
    BY <1>2 DEF Exhausted
<1>11. FragmentsDoNotMatter'
    <2> SUFFICES ASSUME Streamed'
                 PROVE  \E end \in {"Finished", "Disconnected", "none"} :
                            /\ end = "Finished" => stopped' = "ended" \/ Exhausted'
                            /\ end = "none" => dropped'
                            /\ SameObservation(Response, Whole(end))'
        BY DEF FragmentsDoNotMatter
    <2>1. task = "sse"
        BY <1>2, <1>6, <1>8, <1>9
    <2>2. Whole(terminal)' = Whole(terminal)
        BY <1>2 DEF Whole
    <2>3. \A field \in ResponseFields \ {"chunks"} :
              y[field] = Whole(terminal)[field] \/ (field = "status" /\ dropped)
        BY <1>6, <1>7, <2>1
    <2>4. SameObservation(Response, Whole(terminal))'
        BY <1>7, <1>9, <1>10, <2>2, <2>3 DEF SameObservation
    <2> QED
        BY <1>4, <1>10, <2>4
<1>12. CompleteMeansWhole'
    <2> SUFFICES ASSUME y.status = "Complete"
                 PROVE  /\ fed' = SubSeq(exchange'.body, 1, seen')
                        /\ IF Streamed' THEN y.state \in TerminalStates
                           ELSE stopped' = "ended" \/ Exhausted'
        BY <1>9 DEF CompleteMeansWhole
    <2>1. fed' = SubSeq(exchange'.body, 1, seen')
        BY <1>2, <1>4, <1>8
    <2>2. CASE task = "sse"
        BY <1>6, <1>8, <1>9, <2>1, <2>2
    <2>3. CASE task = "json"
        BY <1>4, <1>6, <1>8, <1>9, <1>10, <2>1, <2>3
    <2> QED
        BY <1>2, <2>2, <2>3
<1>13. FinalUsageIsConfirmed'
    <2>1. y.usageStatus = "Final" => y.state \in TerminalStates /\ UsageSound(y.usage)
        BY <1>6, <1>8
    <2> QED
        BY <1>9, <2>1 DEF FinalUsageIsConfirmed, UsageSound, PartsAddUp
<1>14. Typed'
    <2>1. <<>> \in Seq(Messages) /\ Len(<<>>) = 0 /\ Len(recorded') = 1 /\ QueueCapacity \in Nat
        BY <1>3, TapAssumption
    <2> HIDE DEF Messages
    <2> QED
        BY <1>2, <2>1 DEF Typed, TapTypeOK, Length
<1>15. Stages'
    BY <1>2, <1>4 DEF Stages, Tapped
<1>16. Watched'
    BY <1>2, <1>5 DEF Watched
<1>17. TerminalIsLast' /\ NothingLost'
    BY <1>2 DEF TerminalIsLast, NothingLost
<1>18. CompactionIsMeasuredOnce'
    BY <1>2, <1>10 DEF TapInv, CompactionIsMeasuredOnce
<1> QED
    BY <1>11, <1>12, <1>13, <1>14, <1>15, <1>16, <1>17, <1>18 DEF TapInv

-----------------------------------------------------------------------------
(***************************************************************************)
(* The theorems.                                                           *)
(***************************************************************************)
LEMMA NextInv == TapInv /\ [Next]_vars => TapInv'
<1> SUFFICES ASSUME TapInv, [Next]_vars PROVE TapInv'
    OBVIOUS
<1>0. TapTypeOK
    BY DEF TapInv, Typed
<1>1. CASE ParseRequestBody
    BY <1>0, <1>1, RequestStep DEF ParseRequestBody, TapTypeOK
<1>2. CASE PublishHint
    <2>1. hint' \in {"none", "sse", "json"}
        BY <1>2, HintTyped DEF PublishHint
    <2> QED
        BY <1>2, <2>1, RequestStep DEF PublishHint
<1>3. CASE ForwardChunk
    BY <1>3, ForwardStep
<1>4. CASE ExceedLimit \/ UpstreamFails \/ UpstreamEnds
    BY <1>4, SettleStep
<1>5. CASE DropBody
    BY <1>5, DropStep
<1>6. CASE ResolveMode
    BY <1>6, ResolveStep
<1>7. CASE ObserveChunk
    BY <1>7, ObserveStep
<1>8. CASE RecordResponse
    BY <1>8, RecordStep
<1>9. CASE UNCHANGED vars
    <2>1. UNCHANGED <<exchange, body, channel, observation, compactions, request, hint>>
        BY <1>9 DEF vars, body, channel, observation
    <2> QED
        BY <1>0, <2>1, RequestStep DEF TapTypeOK
<1> QED
    BY <1>1, <1>2, <1>3, <1>4, <1>5, <1>6, <1>7, <1>8, <1>9 DEF Next, RequestTask, ObserverTask

LEMMA TapInvariant == Spec => []TapInv
<1>1. Init => TapInv
    BY InitInv
<1>2. TapInv /\ [Next]_vars => TapInv'
    BY NextInv
<1> QED
    BY <1>1, <1>2, PTL DEF Spec

\* The variables hold values of their kinds, and the task records at most one response
\* (observe_stream_channel, observe_document_channel).
THEOREM TapTypeCorrect == Spec => []TapTypeOK
<1>1. TapInv => TapTypeOK
    BY DEF TapInv, Typed
<1> QED
    BY <1>1, TapInvariant, PTL

\* However the transport cuts the body into chunks, and wherever a bound or a terminal event
\* falls in them, the recorded observation is the one of the whole (SseFramer::push,
\* StreamingObserver::push).
THEOREM FragmentsNeverMatter == Spec => []FragmentsDoNotMatter
<1>1. TapInv => FragmentsDoNotMatter
    BY DEF TapInv
<1> QED
    BY <1>1, TapInvariant, PTL

\* A response recorded as Complete was observed to its last byte, and its end was the
\* provider's or the document's own (queue_observation, StreamingObserver::finish).
THEOREM CompleteIsWhole == Spec => []CompleteMeansWhole
<1>1. TapInv => CompleteMeansWhole
    BY DEF TapInv
<1> QED
    BY <1>1, TapInvariant, PTL

\* A Final usage was confirmed by a terminal state of the provider and its parts add up
\* (settle_usage_status, normalize_usage).
THEOREM FinalUsageConfirmed == Spec => []FinalUsageIsConfirmed
<1>1. TapInv => FinalUsageIsConfirmed
    BY DEF TapInv
<1> QED
    BY <1>1, TapInvariant, PTL

\* A compaction response is measured once, when its body is over, and as completed only if
\* all of it was forwarded (CompactionTapState::settle).
THEOREM CompactionMeasuredOnce == Spec => []CompactionIsMeasuredOnce
<1>1. TapInv => CompactionIsMeasuredOnce
    BY DEF TapInv
<1> QED
    BY <1>1, TapInvariant, PTL

\* After the provider's terminal event nothing that it reported changes
\* (StreamingObserver::freeze).
THEOREM TerminalEvidenceFinal == Spec => TerminalEvidenceIsFinal
<1> DEFINE Frozen ==
        observer.evidence # "none" =>
            /\ observer'.evidence = observer.evidence
            /\ \A field \in DOMAIN observer.response \ {"chunks", "bytes"} :
                  observer'.response[field] = observer.response[field]
<1>1. TapInv /\ [Next]_vars => [Frozen]_vars
    <2> SUFFICES ASSUME TapInv, Next, observer.evidence # "none" PROVE Frozen
        BY DEF vars
    <2>1. CASE observer' = observer
        BY <2>1
    <2>2. CASE ObserveChunk /\ task = "sse"
        <3> DEFINE cells == Head(queue).cells
        <3>1. observer' = Push(observer, cells)
            BY <2>2 DEF ObserveChunk
        <3>2. Sound(observer) /\ observer.framer \in Framers(Cells)
            BY <2>2 DEF TapInv, Watched, Watching
        <3>3. cells \in Seq(Cells)
            <4>1. queue \in Seq(Messages) /\ queue # <<>>
                BY <2>2 DEF TapInv, Typed, ObserveChunk
            <4>2. Head(queue) \in Messages
                BY <4>1, HeadTailProperties
            <4> QED
                BY <4>2 DEF Messages
        <3> HIDE DEF cells, Cells
        <3>4. observer' = Counted(observer, cells)
            BY <3>1, <3>2, <3>3, SoundPush
        <3>5. DOMAIN observer.response = ResponseFields
            BY <3>2 DEF Sound, IsObserver
        <3>6. LET p == Counted(observer, cells)
              IN  /\ p.evidence = observer.evidence
                  /\ \A field \in ResponseFields \ {"chunks", "bytes"} :
                        p.response[field] = observer.response[field]
            BY <3>2, CountedFields DEF Sound
        <3> QED
            BY <3>4, <3>5, <3>6
    <2>3. observer' = observer \/ (ObserveChunk /\ task = "sse")
        BY DEF Next, RequestTask, ObserverTask, ParseRequestBody, PublishHint, ForwardChunk,
               ExceedLimit, UpstreamFails, UpstreamEnds, SettleAs, DropBody, ResolveMode,
               ObserveChunk, RecordResponse, observation
    <2> QED
        BY <2>1, <2>2, <2>3
<1> HIDE DEF Frozen
<1>2. Spec => [][Frozen]_vars
    BY <1>1, TapInvariant, PTL DEF Spec
<1> QED
    BY <1>2 DEF TerminalEvidenceIsFinal, Frozen
=============================================================================
