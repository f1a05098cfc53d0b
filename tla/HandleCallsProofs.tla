------------------------- MODULE HandleCallsProofs -------------------------
(***************************************************************************)
(* Proofs about HandleCalls, for any threads, calls and nearby peers: the   *)
(* order of the locks, the engine while it is used, the newest seam, the    *)
(* served dataset and the progress counters.                               *)
(*                                                                         *)
(* A thread is in the middle of some script, so an invariant about it is a *)
(* statement about the steps that remain. The scripts are typed, as in a   *)
(* logic for programs: View is what a thread relies on, Good says that the  *)
(* steps that remain can be taken from a view, and Fits that a block leads  *)
(* from one view to another. There is one lemma for each form of block and  *)
(* one for each script; the actions are then about a single step.           *)
(***************************************************************************)
EXTENDS HandleCalls, SequenceTheorems, TLAPS

----------------------------------------------------------------------------
(* Sequences of steps                                                      *)

IsSeq(s) == \E S: s \in Seq(S)

LEMMA EmptyIsSeq == IsSeq(<<>>)
  <1>1. <<>> \in Seq({})
    BY EmptySeq
  <1> QED BY <1>1 DEF IsSeq

LEMMA OneIsSeq ==
    ASSUME NEW e
    PROVE  IsSeq(<<e>>)
  <1>1. <<e>> \in Seq({e})
    OBVIOUS
  <1> QED BY <1>1 DEF IsSeq

\* Two sequences have a common set of elements.
LEMMA CommonSet ==
    ASSUME NEW a, NEW b, IsSeq(a), IsSeq(b)
    PROVE  \E S: a \in Seq(S) /\ b \in Seq(S)
  <1>1. PICK S: a \in Seq(S)
    BY DEF IsSeq
  <1>2. PICK T: b \in Seq(T)
    BY DEF IsSeq
  <1>3. S \subseteq S \cup T /\ T \subseteq S \cup T
    OBVIOUS
  <1>4. a \in Seq(S \cup T)
    BY <1>1, <1>3, SeqMonotonic
  <1>5. b \in Seq(S \cup T)
    BY <1>2, <1>3, SeqMonotonic
  <1> QED BY <1>4, <1>5

LEMMA ConcatIsSeq ==
    ASSUME NEW a, NEW b, IsSeq(a), IsSeq(b)
    PROVE  IsSeq(a \o b)
  <1>1. PICK S: a \in Seq(S) /\ b \in Seq(S)
    BY CommonSet
  <1>2. a \o b \in Seq(S)
    BY <1>1, ConcatProperties
  <1> QED BY <1>2 DEF IsSeq

LEMMA ConcatAssoc ==
    ASSUME NEW a, NEW b, NEW c, IsSeq(a), IsSeq(b), IsSeq(c)
    PROVE  (a \o b) \o c = a \o (b \o c)
  <1>1. IsSeq(a \o b)
    BY ConcatIsSeq
  <1>2. PICK S: a \in Seq(S) /\ b \in Seq(S)
    BY CommonSet
  <1>3. PICK T: c \in Seq(T)
    BY DEF IsSeq
  <1>4. S \subseteq S \cup T /\ T \subseteq S \cup T
    OBVIOUS
  <1>5. a \in Seq(S \cup T) /\ b \in Seq(S \cup T)
    BY <1>2, <1>4, SeqMonotonic
  <1>6. c \in Seq(S \cup T)
    BY <1>3, <1>4, SeqMonotonic
  <1> QED BY <1>5, <1>6, ConcatAssociative

LEMMA ConcatEmpty ==
    ASSUME NEW s, IsSeq(s)
    PROVE  <<>> \o s = s /\ s \o <<>> = s
  <1>1. PICK S: s \in Seq(S)
    BY DEF IsSeq
  <1> QED BY <1>1, ConcatEmptySeq

\* The first step of a block, and what follows it.
LEMMA FirstStep ==
    ASSUME NEW e, NEW s, IsSeq(s)
    PROVE  /\ IsSeq(<<e>> \o s)
           /\ <<e>> \o s # <<>>
           /\ Head(<<e>> \o s) = e
           /\ Tail(<<e>> \o s) = s
  <1>1. PICK S: s \in Seq(S) /\ <<e>> \in Seq(S)
    BY OneIsSeq, CommonSet
  <1> DEFINE w == <<e>> \o s
  <1>2. /\ w \in Seq(S) /\ Len(w) = 1 + Len(s)
        /\ \A i \in 1 .. 1 + Len(s): w[i] = IF i <= 1 THEN e ELSE s[i - 1]
    BY <1>1, ConcatProperties
  <1>3. Len(s) \in Nat
    BY <1>1, LenProperties
  <1> HIDE DEF w
  <1>4. w # <<>>
    BY <1>2, <1>3, EmptySeq
  <1>5. w[1] = e
    BY <1>2, <1>3
  <1>6. Head(w) = e
    BY <1>2, <1>3, <1>5
  <1>7. /\ Tail(w) \in Seq(S) /\ Len(Tail(w)) = Len(w) - 1
        /\ \A i \in 1 .. Len(Tail(w)): Tail(w)[i] = w[i + 1]
    BY <1>2, <1>4, HeadTailProperties
  <1>8. Len(Tail(w)) = Len(s)
    BY <1>2, <1>3, <1>7
  <1>9. ASSUME NEW i \in 1 .. Len(s)
        PROVE  Tail(w)[i] = s[i]
    <2>1. Tail(w)[i] = w[i + 1]
      BY <1>7, <1>8
    <2>2. i + 1 \in 1 .. 1 + Len(s) /\ ~(i + 1 <= 1) /\ i + 1 - 1 = i
      BY <1>3
    <2> QED BY <1>2, <2>1, <2>2
  <1>10. Tail(w) = s
    BY <1>1, <1>7, <1>8, <1>9, SeqEqual
  <1>11. IsSeq(w)
    BY <1>2 DEF IsSeq
  <1> QED BY <1>4, <1>6, <1>10, <1>11 DEF w

\* A sequence that is not empty is its first step and the rest.
LEMMA TailIsSeq ==
    ASSUME NEW s, IsSeq(s), s # <<>>
    PROVE  IsSeq(Tail(s))
  <1>1. PICK S: s \in Seq(S)
    BY DEF IsSeq
  <1>2. Tail(s) \in Seq(S)
    BY <1>1, HeadTailProperties
  <1> QED BY <1>2 DEF IsSeq

LEMMA PairIsConcat ==
    ASSUME NEW a, NEW b
    PROVE  <<a, b>> = <<a>> \o <<b>>
  <1>1. <<a>> \in Seq({a, b}) /\ <<b>> \in Seq({a, b}) /\ <<a, b>> \in Seq({a, b})
    OBVIOUS
  <1>2. Len(<<a>>) = 1 /\ Len(<<b>>) = 1 /\ Len(<<a, b>>) = 2
    OBVIOUS
  <1>3. /\ <<a>> \o <<b>> \in Seq({a, b}) /\ Len(<<a>> \o <<b>>) = 2
        /\ (<<a>> \o <<b>>)[1] = a /\ (<<a>> \o <<b>>)[2] = b
    BY <1>1, <1>2, ConcatProperties
  <1> DEFINE w == <<a>> \o <<b>>
             p == <<a, b>>
  <1>4. p[1] = a /\ p[2] = b
    OBVIOUS
  <1>5. p \in Seq({a, b}) /\ Len(p) = 2
    BY <1>1, <1>2
  <1>6. w \in Seq({a, b}) /\ Len(w) = 2 /\ w[1] = a /\ w[2] = b
    BY <1>3
  <1> HIDE DEF w, p
  <1>7. \A i \in 1 .. Len(p): p[i] = w[i]
    <2> SUFFICES ASSUME NEW i \in 1 .. 2 PROVE p[i] = w[i]
      BY <1>5
    <2>1. i = 1 \/ i = 2
      OBVIOUS
    <2> QED BY <1>4, <1>6, <2>1
  <1>8. p = w
    BY <1>5, <1>6, <1>7, SeqEqual
  <1> QED BY <1>8 DEF p, w

LEMMA TripleIsConcat ==
    ASSUME NEW a, NEW b, NEW c
    PROVE  <<a, b, c>> = <<a>> \o <<b, c>>
  OBVIOUS

LEMMA FourIsConcat ==
    ASSUME NEW a, NEW b, NEW c, NEW d
    PROVE  <<a, b, c, d>> = <<a>> \o <<b, c, d>>
  OBVIOUS

----------------------------------------------------------------------------
(* Views and typed scripts                                                 *)

\* What a thread relies on: the locks it holds; facts, each of which a lock it
\* holds protects; what it has made and not stored; and, in a call that counts,
\* whether the counters have still to be zeroed.
View(held, knows, makes, zero) ==
    [held |-> held, knows |-> knows, makes |-> makes, zero |-> zero]

\* Facts. That the engine is there holds under `inner`; that a counter counts
\* nothing, or segments of the thread, holds under the lock of its consumer.
EngineUp  == <<"inner", "up">>
Ours(h)   == {<<ConsumerLock[h], "received">>, <<ConsumerLock[h], "total">>}

\* The order in which locks are taken.
Rank(l) == CASE l = "consumer" -> 1
             [] l = "handle"   -> 2
             [] l = "inner"    -> 3
             [] l \in {"matches", "infra", "peers"} -> 5
             [] OTHER -> 4

\* View y relies on no more than x.
Weaker(y, x) ==
    /\ y.held = x.held /\ y.makes = x.makes /\ y.zero = x.zero
    /\ y.knows \subseteq x.knows

\* Some zeroing step is still to come.
Due(s) == \E i \in DOMAIN s: s[i].op \in {"zero_received", "zero_total"}

\* After the zeroing the counters of a consumer that is locked are ours.
Settled(x) ==
    x.zero = "done" =>
        \A h \in Handles: ConsumerLock[h] \in x.held => Ours(h) \subseteq x.knows

Fine(x, s) ==
    /\ IsSeq(s) /\ Settled(x)
    /\ x.zero = "due" => Due(s)
    /\ s = <<>> => x.held = {} /\ x.makes = ""

Ops == {"lock", "unlock", "if", "need", "use", "net", "try", "ask", "serve",
        "take_engine", "take_spare", "connect", "zero_received", "zero_total",
        "count_total", "count_received", "add_face", "store_seam", "deliver",
        "serve_dataset", "store_dataset", "note"}
Counters == {"zero_received", "zero_total", "count_total", "count_received"}

\* What a step asks of the view it is taken in.
Allowed(x, e) ==
    /\ e.op \in Ops
    /\ e.op = "lock" => /\ e.on \in Locks /\ e.on \notin x.held
                        /\ \A l \in x.held: Rank(l) < Rank(e.on)
    /\ e.op = "unlock" => e.on \in x.held /\ (e.on = "inner" => x.makes \notin Radios)
    /\ e.op \in {"need", "take_engine", "add_face"} => "inner" \in x.held
    /\ e.op \in {"need", "try", "add_face", "serve_dataset"} => x.makes = ""
    /\ e.op = "use" => EngineUp \in x.knows
    /\ e.op \in Counters => e.on \in Handles /\ ConsumerLock[e.on] \in x.held
    /\ e.op \in {"add_face", "store_seam", "deliver"} => e.on \in Radios
    /\ e.op = "store_seam" => x.makes = e.on
    /\ e.op = "serve_dataset" => e.on = Self
    /\ e.op = "store_dataset" => x.makes = "dataset"
    /\ e.op = "note" => e.on \in Ids \cup {Self}

\* The view after a step, and after the test of a branch that is taken.
Held(x, e) ==
    CASE e.op = "lock"   -> x.held \cup {e.on}
      [] e.op = "unlock" -> x.held \ {e.on}
      [] OTHER           -> x.held
Knows(x, e) ==
    CASE e.op = "unlock"        -> {f \in x.knows: f[1] # e.on}
      [] e.op = "need"          -> x.knows \cup {EngineUp}
      [] e.op = "take_engine"   -> x.knows \ {EngineUp}
      [] e.op = "zero_received" -> x.knows \cup {<<ConsumerLock[e.on], "received">>}
      [] e.op = "zero_total"    -> x.knows \cup {<<ConsumerLock[e.on], "total">>}
      [] OTHER                  -> x.knows
Makes(x, e) ==
    CASE e.op = "add_face"      -> e.on
      [] e.op = "serve_dataset" -> "dataset"
      [] e.op \in {"store_seam", "store_dataset"} -> ""
      [] OTHER                  -> x.makes
Then(x, e) ==
    View(Held(x, e), Knows(x, e), Makes(x, e),
         IF e.op = "zero_total" /\ x.zero = "due" THEN "done" ELSE x.zero)

Yes(x, cond) ==
    IF cond = "up" /\ "inner" \in x.held
    THEN View(x.held, x.knows \cup {EngineUp}, x.makes, x.zero) ELSE x

\* The views and steps that may come after step e, when s follows it.
After(x, e, s) ==
    IF e.op = "if" THEN {<<Yes(x, e.on), e.yes \o s>>, <<x, e.no \o s>>}
                   ELSE {<<Then(x, e), s>>}

\* G is a typing if each of its pairs is fine and leads to pairs of G, up to
\* what is forgotten. A script is good from a view if some typing covers it.
Covers(G, x, s) == \E y: Weaker(y, x) /\ <<y, s>> \in G
Closed(G) ==
    \A x, s: <<x, s>> \in G =>
        /\ Fine(x, s)
        /\ s # <<>> => /\ Allowed(x, Head(s))
                       /\ \A p \in After(x, Head(s), Tail(s)): Covers(G, p[1], p[2])
Good(x, s) == \E G: Closed(G) /\ Covers(G, x, s)

LEMMA WeakerThanItself ==
    ASSUME NEW x
    PROVE  Weaker(x, x)
  BY DEF Weaker

LEMMA GoodWeaker ==
    ASSUME NEW x, NEW y, NEW s, Good(y, s), Weaker(y, x)
    PROVE  Good(x, s)
  <1>1. PICK G: Closed(G) /\ Covers(G, y, s)
    BY DEF Good
  <1>2. PICK z: Weaker(z, y) /\ <<z, s>> \in G
    BY <1>1 DEF Covers
  <1>3. Weaker(z, x)
    BY <1>2 DEF Weaker
  <1> QED BY <1>1, <1>2, <1>3 DEF Good, Covers

LEMMA GoodIsFine ==
    ASSUME NEW x, NEW s, Good(x, s)
    PROVE  /\ IsSeq(s)
           /\ x.zero = "due" => Due(s)
           /\ s = <<>> => x.held = {} /\ x.makes = ""
  <1>1. PICK G: Closed(G) /\ Covers(G, x, s)
    BY DEF Good
  <1>2. PICK y: Weaker(y, x) /\ <<y, s>> \in G
    BY <1>1 DEF Covers
  <1>3. Fine(y, s)
    BY <1>1, <1>2 DEF Closed
  <1> QED BY <1>2, <1>3 DEF Fine, Weaker

\* A good script can take its first step, and what follows is good.
LEMMA Unfold ==
    ASSUME NEW x, NEW s, Good(x, s), s # <<>>
    PROVE  \E y: /\ Weaker(y, x) /\ Fine(y, s) /\ Allowed(y, Head(s))
                 /\ \A p \in After(y, Head(s), Tail(s)): Good(p[1], p[2])
  <1>1. PICK G: Closed(G) /\ Covers(G, x, s)
    BY DEF Good
  <1>2. PICK y: Weaker(y, x) /\ <<y, s>> \in G
    BY <1>1 DEF Covers
  <1>3. /\ Fine(y, s) /\ Allowed(y, Head(s))
        /\ \A p \in After(y, Head(s), Tail(s)): Covers(G, p[1], p[2])
    BY <1>1, <1>2 DEF Closed
  <1>4. \A p \in After(y, Head(s), Tail(s)): Good(p[1], p[2])
    BY <1>1, <1>3 DEF Good
  <1> QED BY <1>2, <1>3, <1>4

LEMMA CoversMonotone ==
    ASSUME NEW G, NEW H, G \subseteq H, NEW x, NEW s, Covers(G, x, s)
    PROVE  Covers(H, x, s)
  BY DEF Covers

\* Conversely, a step that is allowed, before scripts that are good.
LEMMA Fold ==
    ASSUME NEW x, NEW s, Fine(x, s), s # <<>> => Allowed(x, Head(s)),
           s # <<>> => \A p \in After(x, Head(s), Tail(s)): Good(p[1], p[2])
    PROVE  Good(x, s)
  <1> DEFINE next == IF s = <<>> THEN {} ELSE After(x, Head(s), Tail(s))
             typing(p) == CHOOSE G: Closed(G) /\ Covers(G, p[1], p[2])
  <1>1. \A p \in next: Closed(typing(p)) /\ Covers(typing(p), p[1], p[2])
    BY DEF Good
  <1>5. s # <<>> => next = After(x, Head(s), Tail(s))
    OBVIOUS
  <1> HIDE DEF typing, next
  <1> DEFINE old == UNION {typing(p): p \in next}
             H   == old \cup {<<x, s>>}
  <1>2. \A p \in next: typing(p) \subseteq old
    OBVIOUS
  <1>4. \A q \in old: \E p \in next: q \in typing(p)
    OBVIOUS
  <1> HIDE DEF old
  <1>3. <<x, s>> \in H /\ old \subseteq H /\ \A q \in H: q = <<x, s>> \/ q \in old
    OBVIOUS
  <1> HIDE DEF H
  <1>6. ASSUME NEW y, NEW r, <<y, r>> \in H
        PROVE  /\ Fine(y, r)
               /\ r # <<>> => /\ Allowed(y, Head(r))
                              /\ \A p \in After(y, Head(r), Tail(r)): Covers(H, p[1], p[2])
    <2>1. CASE <<y, r>> = <<x, s>>
      <3>1. y = x /\ r = s
        BY <2>1
      <3>2. \A p \in next: Covers(H, p[1], p[2])
        BY <1>1, <1>2, <1>3, CoversMonotone
      <3> QED BY <1>5, <3>1, <3>2
    <2>2. ASSUME NEW q \in next, <<y, r>> \in typing(q)
          PROVE  /\ Fine(y, r)
                 /\ r # <<>> => /\ Allowed(y, Head(r))
                                /\ \A p \in After(y, Head(r), Tail(r)): Covers(H, p[1], p[2])
      <3>1. Closed(typing(q)) /\ typing(q) \subseteq H
        BY <1>1, <1>2, <1>3
      <3>2. /\ Fine(y, r)
            /\ r # <<>> => /\ Allowed(y, Head(r))
                           /\ \A p \in After(y, Head(r), Tail(r)): Covers(typing(q), p[1], p[2])
        BY <2>2, <3>1 DEF Closed
      <3> QED BY <3>1, <3>2, CoversMonotone
    <2> QED BY <1>3, <1>4, <1>6, <2>1, <2>2
  <1>7. Closed(H)
    BY <1>6 DEF Closed
  <1>8. Covers(H, x, s)
    BY <1>3 DEF Covers, Weaker
  <1> QED BY <1>7, <1>8 DEF Good

----------------------------------------------------------------------------
(* Blocks                                                                  *)

\* Whatever is good from view y is good from x once block b was run.
Fits(x, b, y) == IsSeq(b) /\ \A s: Good(y, s) => Good(x, b \o s)

LEMMA FitsSkip ==
    ASSUME NEW x, NEW y, Weaker(y, x)
    PROVE  Fits(x, <<>>, y)
  <1>1. IsSeq(<<>>)
    BY EmptyIsSeq
  <1>2. ASSUME NEW s, Good(y, s)
        PROVE  Good(x, <<>> \o s)
    <2>1. <<>> \o s = s
      BY <1>2, GoodIsFine, ConcatEmpty
    <2> QED BY <1>2, <2>1, GoodWeaker
  <1> QED BY <1>1, <1>2 DEF Fits

LEMMA FitsSeq ==
    ASSUME NEW x, NEW y, NEW z, NEW a, NEW b, Fits(x, a, y), Fits(y, b, z)
    PROVE  Fits(x, a \o b, z)
  <1>1. IsSeq(a) /\ IsSeq(b) /\ IsSeq(a \o b)
    BY ConcatIsSeq DEF Fits
  <1>2. ASSUME NEW s, Good(z, s)
        PROVE  Good(x, (a \o b) \o s)
    <2>3. IsSeq(s)
      BY <1>2, GoodIsFine
    <2>1. (a \o b) \o s = a \o (b \o s)
      BY <1>1, <2>3, ConcatAssoc
    <2>2. Good(x, a \o (b \o s))
      BY <1>2 DEF Fits
    <2> QED BY <2>1, <2>2
  <1> QED BY <1>1, <1>2 DEF Fits

\* More may be known before a block, and less after it.
LEMMA FitsWeaker ==
    ASSUME NEW x, NEW y, NEW v, NEW w, NEW b, Fits(x, b, y), Weaker(x, v), Weaker(w, y)
    PROVE  Fits(v, b, w)
  <1>1. ASSUME NEW s, Good(w, s)
        PROVE  Good(v, b \o s)
    <2>1. Good(y, s)
      BY <1>1, GoodWeaker
    <2>2. Good(x, b \o s)
      BY <2>1 DEF Fits
    <2> QED BY <2>2, GoodWeaker
  <1> QED BY <1>1 DEF Fits

LEMMA FitsTwo ==
    ASSUME NEW x, NEW y, NEW z, NEW a, NEW b, Fits(x, <<a>>, y), Fits(y, <<b>>, z)
    PROVE  Fits(x, <<a, b>>, z)
  BY FitsSeq, PairIsConcat

LEMMA FitsThree ==
    ASSUME NEW x, NEW y, NEW z, NEW a, NEW b, NEW c, Fits(x, <<a>>, y), Fits(y, <<b, c>>, z)
    PROVE  Fits(x, <<a, b, c>>, z)
  <1>1. Fits(x, <<a>> \o <<b, c>>, z)
    BY FitsSeq
  <1>2. <<a, b, c>> = <<a>> \o <<b, c>>
    BY TripleIsConcat
  <1> QED BY <1>1, <1>2, Zenon

LEMMA FitsFour ==
    ASSUME NEW x, NEW y, NEW z, NEW a, NEW b, NEW c, NEW d,
           Fits(x, <<a>>, y), Fits(y, <<b, c, d>>, z)
    PROVE  Fits(x, <<a, b, c, d>>, z)
  <1>1. Fits(x, <<a>> \o <<b, c, d>>, z)
    BY FitsSeq
  <1>2. <<a, b, c, d>> = <<a>> \o <<b, c, d>>
    BY FourIsConcat
  <1> QED BY <1>1, <1>2, Zenon

\* A zeroing step that comes later is one that is still to come.
LEMMA DueLater ==
    ASSUME NEW e, NEW s, IsSeq(s), Due(s)
    PROVE  Due(<<e>> \o s)
  <1>1. PICK S: s \in Seq(S) /\ <<e>> \in Seq(S)
    BY OneIsSeq, CommonSet
  <1> DEFINE w == <<e>> \o s
  <1>2. /\ w \in Seq(S) /\ Len(w) = 1 + Len(s)
        /\ \A i \in 1 .. 1 + Len(s): w[i] = IF i <= 1 THEN e ELSE s[i - 1]
    BY <1>1, ConcatProperties
  <1>3. Len(s) \in Nat /\ DOMAIN s = 1 .. Len(s) /\ DOMAIN w = 1 .. 1 + Len(s)
    BY <1>1, <1>2, LenProperties
  <1> HIDE DEF w
  <1>4. PICK i \in 1 .. Len(s): s[i].op \in {"zero_received", "zero_total"}
    BY <1>3 DEF Due
  <1>5. i + 1 \in 1 .. 1 + Len(s) /\ ~(i + 1 <= 1) /\ i + 1 - 1 = i
    BY <1>3
  <1>6. w[i + 1] = s[i]
    BY <1>2, <1>5
  <1>7. i + 1 \in DOMAIN w /\ w[i + 1].op \in {"zero_received", "zero_total"}
    BY <1>3, <1>4, <1>5, <1>6
  <1>8. Due(w)
    BY <1>7 DEF Due
  <1> QED BY <1>8 DEF w

LEMMA DueNow ==
    ASSUME NEW e, NEW s, IsSeq(s), e.op \in {"zero_received", "zero_total"}
    PROVE  Due(<<e>> \o s)
  <1>1. PICK S: s \in Seq(S) /\ <<e>> \in Seq(S)
    BY OneIsSeq, CommonSet
  <1> DEFINE w == <<e>> \o s
  <1>2. /\ w \in Seq(S) /\ Len(w) = 1 + Len(s)
        /\ \A i \in 1 .. 1 + Len(s): w[i] = IF i <= 1 THEN e ELSE s[i - 1]
    BY <1>1, ConcatProperties
  <1>3. Len(s) \in Nat /\ DOMAIN w = 1 .. 1 + Len(s)
    BY <1>1, <1>2, LenProperties
  <1> HIDE DEF w
  <1>4. 1 \in DOMAIN w /\ w[1] = e
    BY <1>2, <1>3
  <1>5. Due(w)
    BY <1>4 DEF Due
  <1> QED BY <1>5 DEF w

\* A single step that is not a branch.
LEMMA FitsStep ==
    ASSUME NEW x, NEW e, Settled(x), Allowed(x, e), e.op # "if"
    PROVE  Fits(x, <<e>>, Then(x, e))
  <1>1. ASSUME NEW s, Good(Then(x, e), s)
        PROVE  Good(x, <<e>> \o s)
    <2>1. IsSeq(s) /\ (Then(x, e).zero = "due" => Due(s))
      BY <1>1, GoodIsFine
    <2>2. /\ IsSeq(<<e>> \o s) /\ <<e>> \o s # <<>>
          /\ Head(<<e>> \o s) = e /\ Tail(<<e>> \o s) = s
      BY <2>1, FirstStep
    <2>3. x.zero = "due" => Due(<<e>> \o s)
      <3>1. CASE e.op = "zero_total"
        BY <2>1, <3>1, DueNow
      <3>2. CASE e.op # "zero_total"
        <4>1. Then(x, e).zero = x.zero
          BY <3>2 DEF Then, View
        <4> QED BY <2>1, <4>1, DueLater
      <3> QED BY <3>1, <3>2
    <2>4. Fine(x, <<e>> \o s)
      BY <2>2, <2>3 DEF Fine
    <2>5. \A p \in After(x, e, s): Good(p[1], p[2])
      BY <1>1 DEF After
    <2> QED BY <2>2, <2>4, <2>5, Fold
  <1> QED BY <1>1, OneIsSeq DEF Fits

\* A branch. If the counters are due before it they still are behind it.
LEMMA FitsIf ==
    ASSUME NEW x, NEW y, NEW cond, NEW yes, NEW no, Settled(x),
           x.zero = "due" => y.zero = "due",
           Fits(Yes(x, cond), yes, y), Fits(x, no, y)
    PROVE  Fits(x, If(cond, yes, no), y)
  <1> DEFINE e == [op |-> "if", on |-> cond, yes |-> yes, no |-> no]
  <1>1. e.op = "if" /\ e.on = cond /\ e.yes = yes /\ e.no = no /\ If(cond, yes, no) = <<e>>
    BY DEF If
  <1> HIDE DEF e
  <1>2. ASSUME NEW s, Good(y, s)
        PROVE  Good(x, <<e>> \o s)
    <2>1. IsSeq(s) /\ (y.zero = "due" => Due(s))
      BY <1>2, GoodIsFine
    <2>2. /\ IsSeq(<<e>> \o s) /\ <<e>> \o s # <<>>
          /\ Head(<<e>> \o s) = e /\ Tail(<<e>> \o s) = s
      BY <2>1, FirstStep
    <2>3. Fine(x, <<e>> \o s)
      BY <2>1, <2>2, DueLater DEF Fine
    <2>4. Allowed(x, e)
      BY <1>1 DEF Allowed, Ops, Counters
    <2>5. Good(Yes(x, cond), yes \o s) /\ Good(x, no \o s)
      BY <1>2 DEF Fits
    <2>6. \A p \in After(x, e, s): Good(p[1], p[2])
      <3>1. After(x, e, s) = {<<Yes(x, cond), yes \o s>>, <<x, no \o s>>}
        BY <1>1 DEF After
      <3> SUFFICES ASSUME NEW p \in {<<Yes(x, cond), yes \o s>>, <<x, no \o s>>}
                   PROVE  Good(p[1], p[2])
        BY <3>1
      <3>2. CASE p = <<Yes(x, cond), yes \o s>>
        <4>1. p[1] = Yes(x, cond) /\ p[2] = yes \o s
          BY <3>2
        <4> QED BY <2>5, <4>1
      <3>3. CASE p = <<x, no \o s>>
        <4>1. p[1] = x /\ p[2] = no \o s
          BY <3>3
        <4> QED BY <2>5, <4>1
      <3> QED BY <3>2, <3>3
    <2> DEFINE w == <<e>> \o s
    <2>7. Fine(x, w) /\ Allowed(x, Head(w)) /\ \A p \in After(x, Head(w), Tail(w)): Good(p[1], p[2])
      BY <2>2, <2>3, <2>4, <2>6
    <2> HIDE DEF w
    <2>8. Good(x, w)
      BY <2>7, Fold
    <2> QED BY <2>8 DEF w
  <1> QED BY <1>1, <1>2, OneIsSeq DEF Fits

\* A lock, a block and the end of the guard. What was known under the lock (k1)
\* is forgotten with it; k2 is what stays.
LEMMA FitsUnder ==
    ASSUME NEW h, NEW k, NEW m, NEW z, NEW l \in Locks, NEW body, NEW k1, NEW m1, NEW z1,
           NEW k2 \in SUBSET k1, \A f \in k2: f[1] # l, l \notin h, \A i \in h: Rank(i) < Rank(l),
           l = "inner" => m1 \notin Radios,
           Settled(View(h, k, m, z)), Settled(View(h \cup {l}, k1, m1, z1)),
           Fits(View(h \cup {l}, k, m, z), body, View(h \cup {l}, k1, m1, z1))
    PROVE  Fits(View(h, k, m, z), Under(l, body), View(h, k2, m1, z1))
  <1> DEFINE x == View(h, k, m, z)
             y == View(h \cup {l}, k1, m1, z1)
             lock == Step("lock", l)
             unlock == Step("unlock", l)
  <1>1. lock.op = "lock" /\ lock.on = l /\ unlock.op = "unlock" /\ unlock.on = l
    BY DEF Step
  <1>2. /\ x.held = h /\ x.knows = k /\ x.makes = m /\ x.zero = z
        /\ y.held = h \cup {l} /\ y.knows = k1 /\ y.makes = m1 /\ y.zero = z1
    BY DEF View
  <1>3. Settled(x) /\ Settled(y)
    OBVIOUS
  <1>4. Under(l, body) = (<<lock>> \o body) \o <<unlock>>
    BY DEF Under
  <1> HIDE DEF x, y, lock, unlock
  <1>5. Allowed(x, lock)
    BY <1>1, <1>2 DEF Allowed, Ops, Counters
  <1>6. Then(x, lock) = View(h \cup {l}, k, m, z)
    BY <1>1, <1>2 DEF Then, Held, Knows, Makes
  <1>7. Fits(x, <<lock>>, View(h \cup {l}, k, m, z))
    BY <1>1, <1>3, <1>5, <1>6, FitsStep
  <1>8. Allowed(y, unlock)
    BY <1>1, <1>2 DEF Allowed, Ops, Counters
  <1>9. Then(y, unlock) = View(h, {f \in k1: f[1] # l}, m1, z1)
    <2>1. (h \cup {l}) \ {l} = h
      OBVIOUS
    <2> QED BY <1>1, <1>2, <2>1 DEF Then, Held, Knows, Makes
  <1>10. Fits(y, <<unlock>>, View(h, k2, m1, z1))
    <2> DEFINE w == Then(y, unlock)
    <2>1. Fits(y, <<unlock>>, w)
      BY <1>1, <1>3, <1>8, FitsStep
    <2>2. Weaker(View(h, k2, m1, z1), w)
      BY <1>9 DEF Weaker, View
    <2> HIDE DEF w
    <2> QED BY <2>1, <2>2, WeakerThanItself, FitsWeaker
  <1>11. Fits(x, <<lock>> \o body, y)
    BY <1>7, FitsSeq DEF y
  <1>12. Fits(x, (<<lock>> \o body) \o <<unlock>>, View(h, k2, m1, z1))
    BY <1>10, <1>11, FitsSeq
  <1> QED BY <1>4, <1>12 DEF x

\* The views most scripts go through: locks alone, and locks with the engine
\* known to be there. Zeroing is not in question or still to come.
In(h, z) == View(h, {}, "", z)
Up(h, z) == View(h, {EngineUp}, "", z)
Early    == {"no", "due"}
Outside  == In({}, "no")

LEMMA EarlyIsSettled ==
    ASSUME NEW h, NEW k, NEW m, NEW z \in Early
    PROVE  Settled(View(h, k, m, z))
  BY DEF Settled, View, Early

LEMMA UpOrIn ==
    ASSUME NEW h, NEW z
    PROVE  Weaker(In(h, z), Up(h, z))
  BY DEF Weaker, In, Up, View

\* Forgetting after a block that the engine is there, and before it.
LEMMA ForgetAfter ==
    ASSUME NEW x, NEW b, NEW h, NEW z, Fits(x, b, Up(h, z))
    PROVE  Fits(x, b, In(h, z))
  BY UpOrIn, WeakerThanItself, FitsWeaker

LEMMA ForgetBefore ==
    ASSUME NEW y, NEW b, NEW h, NEW z, Fits(In(h, z), b, y)
    PROVE  Fits(Up(h, z), b, y)
  BY UpOrIn, WeakerThanItself, FitsWeaker

LEMMA FitsUnderIn ==
    ASSUME NEW h, NEW z \in Early, NEW l \in Locks, NEW body,
           l \notin h, \A i \in h: Rank(i) < Rank(l),
           Fits(In(h \cup {l}, z), body, In(h \cup {l}, z))
    PROVE  Fits(In(h, z), Under(l, body), In(h, z))
  <1>1. "" \notin Radios /\ {} \in SUBSET {}
    BY DEF Radios
  <1>2. Settled(View(h, {}, "", z)) /\ Settled(View(h \cup {l}, {}, "", z))
    BY EarlyIsSettled
  <1> QED BY <1>1, <1>2, FitsUnder DEF In

LEMMA FitsUnderUp ==
    ASSUME NEW h, NEW z \in Early, NEW l \in Locks, NEW body,
           l \notin h, \A i \in h: Rank(i) < Rank(l), l # "inner",
           Fits(Up(h \cup {l}, z), body, Up(h \cup {l}, z))
    PROVE  Fits(Up(h, z), Under(l, body), Up(h, z))
  <1>1. "" \notin Radios /\ {EngineUp} \in SUBSET {EngineUp} /\ \A f \in {EngineUp}: f[1] # l
    BY DEF EngineUp, Radios
  <1>2. Settled(View(h, {EngineUp}, "", z)) /\ Settled(View(h \cup {l}, {EngineUp}, "", z))
    BY EarlyIsSettled
  <1> QED BY <1>1, <1>2, FitsUnder DEF Up

\* A lock with nothing done under it.
LEMMA FitsTouchUp ==
    ASSUME NEW h, NEW z \in Early, NEW l \in Locks,
           l \notin h, \A i \in h: Rank(i) < Rank(l), l # "inner"
    PROVE  Fits(Up(h, z), Under(l, <<>>), Up(h, z))
  <1>1. Fits(Up(h \cup {l}, z), <<>>, Up(h \cup {l}, z))
    BY FitsSkip, WeakerThanItself
  <1> QED BY <1>1, FitsUnderUp

LEMMA FitsTouchIn ==
    ASSUME NEW h, NEW z \in Early, NEW l \in Locks,
           l \notin h, \A i \in h: Rank(i) < Rank(l)
    PROVE  Fits(In(h, z), Under(l, <<>>), In(h, z))
  <1>1. Fits(In(h \cup {l}, z), <<>>, In(h \cup {l}, z))
    BY FitsSkip, WeakerThanItself
  <1> QED BY <1>1, FitsUnderIn

----------------------------------------------------------------------------
(* Steps and branches                                                      *)

\* Waits, and steps on cells that nothing here is about.
Plain == {Net, Try, Ask, Serve, Step("take_spare", ""), Step("connect", "")}

LEMMA FitsPlain ==
    ASSUME NEW h, NEW k, NEW z, NEW e \in Plain, Settled(View(h, k, "", z))
    PROVE  Fits(View(h, k, "", z), <<e>>, View(h, k, "", z))
  <1> DEFINE x == View(h, k, "", z)
  <1>1. x.held = h /\ x.knows = k /\ x.makes = "" /\ x.zero = z
    BY DEF View
  <1>2. e.op \in {"net", "try", "ask", "serve", "take_spare", "connect"}
    <2>1. \/ e = Net \/ e = Try \/ e = Ask \/ e = Serve
          \/ e = Step("take_spare", "") \/ e = Step("connect", "")
      BY DEF Plain
    <2>2. Net.op = "net" /\ Try.op = "try" /\ Ask.op = "ask" /\ Serve.op = "serve"
      BY DEF Net, Try, Ask, Serve, Step
    <2>3. Step("take_spare", "").op = "take_spare" /\ Step("connect", "").op = "connect"
      BY DEF Step
    <2> QED BY <2>1, <2>2, <2>3
  <1>3. Settled(x)
    OBVIOUS
  <1> HIDE DEF x
  <1>4. Allowed(x, e)
    BY <1>1, <1>2 DEF Allowed, Ops, Counters
  <1>5. Then(x, e) = View(h, k, "", z)
    BY <1>1, <1>2 DEF Then, Held, Knows, Makes
  <1>6. e.op # "if"
    BY <1>2
  <1> QED BY <1>3, <1>4, <1>5, <1>6, FitsStep DEF x

LEMMA FitsPlainIn ==
    ASSUME NEW h, NEW z \in Early, NEW e \in Plain
    PROVE  Fits(In(h, z), <<e>>, In(h, z))
  BY FitsPlain, EarlyIsSettled DEF In

LEMMA FitsPlainUp ==
    ASSUME NEW h, NEW z \in Early, NEW e \in Plain
    PROVE  Fits(Up(h, z), <<e>>, Up(h, z))
  BY FitsPlain, EarlyIsSettled DEF Up

LEMMA FitsUse ==
    ASSUME NEW h, NEW z \in Early
    PROVE  Fits(Up(h, z), <<Use>>, Up(h, z))
  <1> DEFINE x == Up(h, z)
  <1>1. x.held = h /\ x.knows = {EngineUp} /\ x.makes = "" /\ x.zero = z
    BY DEF View, Up
  <1>2. Use.op = "use"
    BY DEF Use, Step
  <1>3. Settled(x)
    BY EarlyIsSettled DEF Up
  <1> HIDE DEF x
  <1>4. Allowed(x, Use)
    BY <1>1, <1>2 DEF Allowed, Ops, Counters
  <1>5. Then(x, Use) = Up(h, z)
    BY <1>1, <1>2 DEF Then, Held, Knows, Makes, Up
  <1>6. Use.op # "if"
    BY <1>2
  <1> QED BY <1>3, <1>4, <1>5, <1>6, FitsStep DEF x

LEMMA FitsNeed ==
    ASSUME NEW h, NEW z \in Early, "inner" \in h
    PROVE  Fits(In(h, z), <<Need>>, Up(h, z))
  <1> DEFINE x == In(h, z)
  <1>1. x.held = h /\ x.knows = {} /\ x.makes = "" /\ x.zero = z
    BY DEF View, In
  <1>2. Need.op = "need"
    BY DEF Need, Step
  <1>3. Settled(x)
    BY EarlyIsSettled DEF In
  <1> HIDE DEF x
  <1>4. Allowed(x, Need)
    BY <1>1, <1>2 DEF Allowed, Ops, Counters
  <1>5. Then(x, Need) = Up(h, z)
    <2>1. {} \cup {EngineUp} = {EngineUp}
      OBVIOUS
    <2> QED BY <1>1, <1>2, <2>1 DEF Then, Held, Knows, Makes, Up
  <1>6. Need.op # "if"
    BY <1>2
  <1> QED BY <1>3, <1>4, <1>5, <1>6, FitsStep DEF x

\* A branch whose test tells nothing, and one whose test is that inner holds
\* the engine.
LEMMA FitsEither ==
    ASSUME NEW x, NEW y, NEW cond, NEW yes, NEW no, cond # "up", Settled(x),
           x.zero = "due" => y.zero = "due", Fits(x, yes, y), Fits(x, no, y)
    PROVE  Fits(x, If(cond, yes, no), y)
  BY FitsIf DEF Yes

LEMMA FitsWhen ==
    ASSUME NEW x, NEW cond, NEW body, cond # "up", Settled(x), Fits(x, body, x)
    PROVE  Fits(x, When(cond, body), x)
  BY FitsEither, FitsSkip, WeakerThanItself DEF When

LEMMA FitsPerhaps ==
    ASSUME NEW x, NEW body, Settled(x), Fits(x, body, x)
    PROVE  Fits(x, Perhaps(body), x)
  <1>1. "chance" # "up" /\ Fits(x, <<>>, x)
    BY FitsSkip, WeakerThanItself
  <1> QED BY <1>1, FitsEither DEF Perhaps

LEMMA FitsWhenUp ==
    ASSUME NEW h, NEW z \in Early, NEW body, "inner" \in h, Fits(Up(h, z), body, In(h, z))
    PROVE  Fits(In(h, z), When("up", body), In(h, z))
  <1> DEFINE x == In(h, z)
  <1>1. Yes(x, "up") = Up(h, z)
    <2>1. {} \cup {EngineUp} = {EngineUp}
      OBVIOUS
    <2> QED BY <2>1 DEF Yes, In, Up, View
  <1>2. Settled(x)
    BY EarlyIsSettled DEF In
  <1>3. Fits(x, <<>>, x)
    BY FitsSkip, WeakerThanItself
  <1> HIDE DEF x
  <1>4. Fits(Yes(x, "up"), body, x)
    BY <1>1 DEF x
  <1> QED BY <1>2, <1>3, <1>4, FitsIf DEF When, x

\* A lock taken by a thread that holds none.
LEMMA FitsAlone ==
    ASSUME NEW z \in Early, NEW l \in Locks, NEW body, Fits(In({l}, z), body, In({l}, z))
    PROVE  Fits(In({}, z), Under(l, body), In({}, z))
  <1>1. {} \cup {l} = {l} /\ l \notin {} /\ \A i \in {}: Rank(i) < Rank(l)
    OBVIOUS
  <1>2. Fits(In({} \cup {l}, z), body, In({} \cup {l}, z))
    BY <1>1
  <1> QED BY <1>1, <1>2, FitsUnderIn

LEMMA FitsAloneTouch ==
    ASSUME NEW z \in Early, NEW l \in Locks
    PROVE  Fits(In({}, z), Under(l, <<>>), In({}, z))
  BY FitsSkip, WeakerThanItself, FitsAlone

----------------------------------------------------------------------------
(* The scripts: the engine's life                                          *)

LEMMA UseWhenUp ==
    ASSUME NEW h, NEW z \in Early, "inner" \in h
    PROVE  Fits(In(h, z), When("up", <<Use>>), In(h, z))
  BY FitsUse, ForgetAfter, FitsWhenUp

LEMMA NeedThenUse ==
    ASSUME NEW h, NEW z \in Early, "inner" \in h
    PROVE  Fits(In(h, z), <<Need, Use>>, In(h, z))
  BY FitsUse, FitsNeed, ForgetAfter, FitsTwo

LEMMA InnerUseWhenUp == Fits(Outside, Under("inner", When("up", <<Use>>)), Outside)
  <1>1. "no" \in Early /\ "inner" \in Locks /\ "inner" \in {"inner"}
    BY DEF Early, Locks
  <1>2. Fits(In({"inner"}, "no"), When("up", <<Use>>), In({"inner"}, "no"))
    BY <1>1, UseWhenUp
  <1> QED BY <1>1, <1>2, FitsAlone DEF Outside

LEMMA InnerNeedUse == Fits(Outside, Under("inner", <<Need, Use>>), Outside)
  <1>1. "no" \in Early /\ "inner" \in Locks /\ "inner" \in {"inner"}
    BY DEF Early, Locks
  <1>2. Fits(In({"inner"}, "no"), <<Need, Use>>, In({"inner"}, "no"))
    BY <1>1, NeedThenUse
  <1> QED BY <1>1, <1>2, FitsAlone DEF Outside

LEMMA ResumeFits == Fits(Outside, resume_network_faces, Outside)
  <1>1. "no" \in Early /\ "inner" \in Locks /\ "inner" \in {"inner"} /\ Net \in Plain
    BY DEF Early, Locks, Plain
  <1>2. Fits(Up({"inner"}, "no"), <<Net, Use>>, Up({"inner"}, "no"))
    BY <1>1, FitsPlainUp, FitsUse, FitsTwo
  <1>3. Fits(Up({"inner"}, "no"), <<Use, Net, Use>>, Up({"inner"}, "no"))
    BY <1>1, <1>2, FitsUse, FitsThree
  <1>4. Fits(In({"inner"}, "no"), When("up", <<Use, Net, Use>>), In({"inner"}, "no"))
    BY <1>1, <1>3, ForgetAfter, FitsWhenUp
  <1> QED BY <1>1, <1>4, FitsAlone DEF Outside, resume_network_faces

LEMMA FitsTakeEngine ==
    ASSUME NEW h, NEW z \in Early, "inner" \in h
    PROVE  Fits(Up(h, z), <<Step("take_engine", "")>>, In(h, z))
  <1> DEFINE x == Up(h, z)
             e == Step("take_engine", "")
  <1>1. x.held = h /\ x.knows = {EngineUp} /\ x.makes = "" /\ x.zero = z
    BY DEF View, Up
  <1>2. e.op = "take_engine"
    BY DEF Step
  <1>3. Settled(x)
    BY EarlyIsSettled DEF Up
  <1> HIDE DEF x, e
  <1>4. Allowed(x, e)
    BY <1>1, <1>2 DEF Allowed, Ops, Counters
  <1>5. Then(x, e) = In(h, z)
    <2>1. {EngineUp} \ {EngineUp} = {}
      OBVIOUS
    <2> QED BY <1>1, <1>2, <2>1 DEF Then, Held, Knows, Makes, In
  <1>6. e.op # "if"
    BY <1>2
  <1> QED BY <1>3, <1>4, <1>5, <1>6, FitsStep DEF x, e

LEMMA ShutdownFits == Fits(Outside, shutdown, Outside)
  <1>1. "no" \in Early /\ "inner" \in Locks /\ "inner" \in {"inner"} /\ Net \in Plain
    BY DEF Early, Locks, Plain
  <1>2. Fits(Up({"inner"}, "no"), <<Step("take_engine", ""), Net>>, In({"inner"}, "no"))
    BY <1>1, FitsPlainIn, FitsTakeEngine, FitsTwo
  <1> DEFINE body == <<Step("take_engine", ""), Net>>
  <1> HIDE DEF body
  <1>4. Fits(Up({"inner"}, "no"), body, In({"inner"}, "no"))
    BY <1>2 DEF body
  <1>3. Fits(In({"inner"}, "no"), When("up", body), In({"inner"}, "no"))
    BY <1>1, <1>4, FitsWhenUp
  <1> QED BY <1>1, <1>3, FitsAlone DEF body, Outside, shutdown

----------------------------------------------------------------------------
(* The scripts: fetches                                                    *)

\* The handle is taken, and the engine looked at, with the consumer locked.
LEMMA TakeHandleFits ==
    ASSUME NEW z \in Early
    PROVE  Fits(In({"consumer"}, z), take_consumer_handle, In({"consumer"}, z))
  <1> DEFINE two   == {"consumer"} \cup {"handle"}
             three == two \cup {"inner"}
  <1>1. /\ "handle" \in Locks /\ "inner" \in Locks
        /\ "handle" \notin {"consumer"} /\ "inner" \notin two /\ "inner" \in three
    BY DEF Locks
  <1>2. /\ \A i \in {"consumer"}: Rank(i) < Rank("handle")
        /\ \A i \in two: Rank(i) < Rank("inner")
    BY DEF Rank
  <1>3. Step("take_spare", "") \in Plain
    BY DEF Plain
  <1> HIDE DEF three
  <1>4. Fits(In(three, z), <<Need, Use>>, In(three, z))
    BY <1>1, NeedThenUse
  <1>5. Fits(In(two, z), Under("inner", <<Need, Use>>), In(two, z))
    BY <1>1, <1>2, <1>4, FitsUnderIn DEF three
  <1> HIDE DEF two
  <1>6. Fits(In(two, z), <<Step("take_spare", "")>>, In(two, z))
    BY <1>3, FitsPlainIn
  <1>7. Settled(In(two, z)) /\ "spare" # "up"
    BY EarlyIsSettled DEF In
  <1>8. Fits(In(two, z), If("spare", <<Step("take_spare", "")>>, Under("inner", <<Need, Use>>)),
             In(two, z))
    BY <1>5, <1>6, <1>7, FitsEither
  <1> QED BY <1>1, <1>2, <1>8, FitsUnderIn DEF two, take_consumer_handle

LEMMA ConnectFits ==
    ASSUME NEW z \in Early
    PROVE  Fits(In({"consumer"}, z),
                When("no_conn", take_consumer_handle \o <<Step("connect", "")>>),
                In({"consumer"}, z))
  <1>1. Step("connect", "") \in Plain /\ "no_conn" # "up"
    BY DEF Plain
  <1>2. Fits(In({"consumer"}, z), take_consumer_handle \o <<Step("connect", "")>>,
             In({"consumer"}, z))
    BY <1>1, TakeHandleFits, FitsPlainIn, FitsSeq
  <1>3. Settled(In({"consumer"}, z))
    BY EarlyIsSettled DEF In
  <1> QED BY <1>1, <1>2, <1>3, FitsWhen

LEMMA FetchFits == Fits(Outside, fetch, Outside)
  <1>1. "no" \in Early /\ "consumer" \in Locks /\ Net \in Plain /\ Try \in Plain
    BY DEF Early, Locks, Plain
  <1>2. Fits(In({"consumer"}, "no"),
             When("no_conn", take_consumer_handle \o <<Step("connect", "")>>) \o <<Net>>,
             In({"consumer"}, "no"))
    BY <1>1, ConnectFits, FitsPlainIn, FitsSeq
  <1>3. Fits(In({}, "no"), with_consumer(<<Net>>), In({}, "no"))
    BY <1>1, <1>2, FitsAlone DEF with_consumer
  <1> QED BY <1>1, <1>3, FitsPlainIn, FitsSeq DEF Outside, fetch

\* A fetch that counts: from the zeroing on, and until it gives the consumer
\* back, the counters are its own.
Zeroed1(h) == View({ConsumerLock[h]}, {<<ConsumerLock[h], "received">>}, "", "due")
Counted(h) == View({ConsumerLock[h]}, Ours(h), "", "done")
Finished   == View({}, {}, "", "done")

LEMMA ConsumerLocks ==
    /\ ConsumerLock["engine"] = "consumer" /\ ConsumerLock["client"] = "slot"
    /\ \A h \in Handles: ConsumerLock[h] \in Locks
    /\ \A h, g \in Handles: ConsumerLock[h] = ConsumerLock[g] => h = g
  BY DEF ConsumerLock, Handles, Locks

LEMMA CountedIsSettled ==
    ASSUME NEW h \in Handles
    PROVE  Settled(Counted(h)) /\ Settled(Finished)
  BY ConsumerLocks DEF Settled, Counted, Finished, View

LEMMA ZeroFits ==
    ASSUME NEW h \in Handles
    PROVE  Fits(In({ConsumerLock[h]}, "due"), Zero(h), Counted(h))
  <1> DEFINE x == In({ConsumerLock[h]}, "due")
             y == Zeroed1(h)
             a == Step("zero_received", h)
             b == Step("zero_total", h)
  <1>1. x.held = {ConsumerLock[h]} /\ x.knows = {} /\ x.makes = "" /\ x.zero = "due"
    BY DEF View, In
  <1>2. /\ y.held = {ConsumerLock[h]} /\ y.knows = {<<ConsumerLock[h], "received">>}
        /\ y.makes = "" /\ y.zero = "due"
    BY DEF View, Zeroed1
  <1>3. a.op = "zero_received" /\ a.on = h /\ b.op = "zero_total" /\ b.on = h
    BY DEF Step
  <1>4. Settled(x) /\ Settled(y)
    BY <1>1, <1>2 DEF Settled
  <1>5. Zero(h) = <<a, b>>
    BY DEF Zero
  <1> HIDE DEF x, y, a, b
  <1>6. Allowed(x, a)
    BY <1>1, <1>3 DEF Allowed, Ops, Counters
  <1>7. Then(x, a) = y
    <2>1. {} \cup {<<ConsumerLock[h], "received">>} = {<<ConsumerLock[h], "received">>}
      OBVIOUS
    <2> QED BY <1>1, <1>3, <2>1 DEF Then, Held, Knows, Makes, y, Zeroed1
  <1>8. Fits(x, <<a>>, y)
    BY <1>3, <1>4, <1>6, <1>7, FitsStep
  <1>9. Allowed(y, b)
    BY <1>2, <1>3 DEF Allowed, Ops, Counters
  <1>10. Then(y, b) = Counted(h)
    <2>1. {<<ConsumerLock[h], "received">>} \cup {<<ConsumerLock[h], "total">>} = Ours(h)
      BY DEF Ours
    <2> QED BY <1>2, <1>3, <2>1 DEF Then, Held, Knows, Makes, Counted
  <1>11. Fits(y, <<b>>, Counted(h))
    BY <1>3, <1>4, <1>9, <1>10, FitsStep
  <1> QED BY <1>5, <1>8, <1>11, FitsTwo DEF x

LEMMA ReportFits ==
    ASSUME NEW h \in Handles
    PROVE  Fits(Counted(h), Report(h), Counted(h))
  <1> DEFINE x == Counted(h)
             a == Step("count_total", h)
             b == Step("count_received", h)
  <1>1. x.held = {ConsumerLock[h]} /\ x.knows = Ours(h) /\ x.makes = "" /\ x.zero = "done"
    BY DEF View, Counted
  <1>2. a.op = "count_total" /\ a.on = h /\ b.op = "count_received" /\ b.on = h
    BY DEF Step
  <1>3. Settled(x) /\ x = View({ConsumerLock[h]}, Ours(h), "", "done")
    BY CountedIsSettled DEF Counted
  <1>4. Report(h) = <<a, b>>
    BY DEF Report
  <1> HIDE DEF x, a, b
  <1>5. Allowed(x, a) /\ Allowed(x, b)
    BY <1>1, <1>2 DEF Allowed, Ops, Counters
  <1>6. Then(x, a) = x /\ Then(x, b) = x
    BY <1>1, <1>2, <1>3 DEF Then, Held, Knows, Makes
  <1>7. Fits(x, <<a>>, x) /\ Fits(x, <<b>>, x)
    BY <1>2, <1>3, <1>5, <1>6, FitsStep
  <1>8. Fits(x, Report(h), x)
    BY <1>4, <1>7, FitsTwo
  <1> QED BY <1>8 DEF x

LEMMA CountingFits ==
    ASSUME NEW h \in Handles
    PROVE  Fits(In({ConsumerLock[h]}, "due"),
                (Zero(h) \o <<Net>>) \o Perhaps(Report(h) \o <<Net>>), Counted(h))
  <1>1. Net \in Plain
    BY DEF Plain
  <1>2. Settled(Counted(h))
    BY CountedIsSettled
  <1>3. Fits(Counted(h), <<Net>>, Counted(h))
    BY <1>1, <1>2, FitsPlain DEF Counted
  <1>4. Fits(In({ConsumerLock[h]}, "due"), Zero(h) \o <<Net>>, Counted(h))
    BY <1>3, ZeroFits, FitsSeq
  <1>5. Fits(Counted(h), Report(h) \o <<Net>>, Counted(h))
    BY <1>3, ReportFits, FitsSeq
  <1>6. Fits(Counted(h), Perhaps(Report(h) \o <<Net>>), Counted(h))
    BY <1>2, <1>5, FitsPerhaps
  <1> QED BY <1>4, <1>6, FitsSeq

\* The consumer is locked around a block that ends with the counters ours.
LEMMA FitsConsumer ==
    ASSUME NEW h \in Handles, NEW body,
           Fits(In({ConsumerLock[h]}, "due"), body, Counted(h))
    PROVE  Fits(In({}, "due"), Under(ConsumerLock[h], body), Finished)
  <1> DEFINE l == ConsumerLock[h]
  <1>1. /\ l \in Locks /\ l \notin {} /\ {} \cup {l} = {l} /\ l # "inner"
        /\ \A i \in {}: Rank(i) < Rank(l)
    BY ConsumerLocks DEF Handles
  <1>2. Settled(View({}, {}, "", "due"))
    BY EarlyIsSettled DEF Early
  <1>3. Settled(View({} \cup {l}, Ours(h), "", "done"))
    BY <1>1, CountedIsSettled DEF Counted
  <1>4. Fits(View({} \cup {l}, {}, "", "due"), body, View({} \cup {l}, Ours(h), "", "done"))
    BY <1>1 DEF In, Counted
  <1>5. {} \in SUBSET Ours(h) /\ (\A f \in {}: f[1] # l) /\ (l = "inner" => "" \notin Radios)
    BY <1>1
  <1> HIDE DEF l
  <1>6. Fits(View({}, {}, "", "due"), Under(l, body), View({}, {}, "", "done"))
    BY <1>1, <1>2, <1>3, <1>4, <1>5, FitsUnder
  <1> QED BY <1>6 DEF l, In, Finished

LEMMA FetchToFdFits == Fits(In({}, "due"), fetch_object_to_fd, Finished)
  <1> DEFINE run == (Zero("engine") \o <<Net>>) \o Perhaps(Report("engine") \o <<Net>>)
             conn1 == When("no_conn", take_consumer_handle \o <<Step("connect", "")>>)
  <1>1. /\ "engine" \in Handles /\ ConsumerLock["engine"] = "consumer"
        /\ "due" \in Early /\ Try \in Plain
    BY ConsumerLocks DEF Handles, Early, Plain
  <1>2. Fits(In({"consumer"}, "due"), conn1, In({"consumer"}, "due"))
    BY <1>1, ConnectFits
  <1>3. Fits(In({"consumer"}, "due"), run, Counted("engine"))
    BY <1>1, CountingFits
  <1> HIDE DEF run, conn1
  <1>4. Fits(In({"consumer"}, "due"), conn1 \o run, Counted("engine"))
    BY <1>2, <1>3, FitsSeq
  <1>5. Fits(In({}, "due"), Under("consumer", conn1 \o run), Finished)
    BY <1>1, <1>4, FitsConsumer
  <1>6. Fits(Finished, <<Try>>, Finished)
    BY <1>1, CountedIsSettled, FitsPlain DEF Finished
  <1>7. Fits(In({}, "due"), Under("consumer", conn1 \o run) \o <<Try>>, Finished)
    BY <1>5, <1>6, FitsSeq
  <1> QED BY <1>7 DEF run, conn1, fetch_object_to_fd, with_consumer

LEMMA ClientHintedFits == Fits(In({}, "due"), client_fetch_hinted, Finished)
  <1> DEFINE run == (Zero("client") \o <<Net>>) \o Perhaps(Report("client") \o <<Net>>)
  <1>1. /\ "client" \in Handles /\ ConsumerLock["client"] = "slot" /\ "due" \in Early
        /\ Try \in Plain /\ "strategy" \in Locks
    BY ConsumerLocks DEF Handles, Early, Plain, Locks
  <1>2. Fits(In({}, "due"), Under("strategy", <<>>), In({}, "due"))
    BY <1>1, FitsAloneTouch
  <1>3. Fits(In({"slot"}, "due"), run, Counted("client"))
    BY <1>1, CountingFits
  <1> HIDE DEF run
  <1>5. Fits(In({}, "due"), Under("slot", run), Finished)
    BY <1>1, <1>3, FitsConsumer
  <1>6. Fits(Finished, <<Try>>, Finished)
    BY <1>1, CountedIsSettled, FitsPlain DEF Finished
  <1>7. Fits(In({}, "due"), (Under("strategy", <<>>) \o Under("slot", run)) \o <<Try>>, Finished)
    BY <1>2, <1>5, <1>6, FitsSeq
  <1> QED BY <1>7 DEF run, client_fetch_hinted

----------------------------------------------------------------------------
(* The scripts: radio seams                                                *)

\* Radio callbacks, also from inside an attach call that holds `inner`.
LEMMA NanMatchFits ==
    ASSUME NEW h, NEW k \in SUBSET {EngineUp}, NEW m, NEW z \in Early,
           "nan" \notin h, "matches" \notin h, \A i \in h: Rank(i) < 4,
           \A i \in h: Rank(i) \in Nat
    PROVE  Fits(View(h, k, m, z), nan_on_match, View(h, k, m, z))
  <1> DEFINE two   == h \cup {"nan"}
             three == two \cup {"matches"}
  <1>1. /\ "nan" \in Locks /\ "matches" \in Locks /\ "matches" \notin two
        /\ \A i \in h: Rank(i) < Rank("nan")
        /\ \A i \in two: Rank(i) < Rank("matches")
    BY DEF Locks, Rank
  <1>2. k \in SUBSET k /\ (\A f \in k: f[1] # "nan") /\ (\A f \in k: f[1] # "matches")
    BY DEF EngineUp
  <1>3. /\ Settled(View(h, k, m, z)) /\ Settled(View(two, k, m, z))
        /\ Settled(View(three, k, m, z))
    BY EarlyIsSettled
  <1> HIDE DEF three
  <1>4. Fits(View(three, k, m, z), <<>>, View(three, k, m, z))
    BY FitsSkip, WeakerThanItself
  <1>5. Fits(View(two, k, m, z), Under("matches", <<>>), View(two, k, m, z))
    BY <1>1, <1>2, <1>3, <1>4, FitsUnder DEF three
  <1> HIDE DEF two
  <1>6. "nan_seam" # "up"
    OBVIOUS
  <1>7. Fits(View(two, k, m, z), When("nan_seam", Under("matches", <<>>)), View(two, k, m, z))
    BY <1>3, <1>5, <1>6, FitsWhen
  <1>8. Fits(View(h \cup {"nan"}, k, m, z), When("nan_seam", Under("matches", <<>>)),
             View(h \cup {"nan"}, k, m, z))
    BY <1>7 DEF two
  <1>9. Settled(View(h \cup {"nan"}, k, m, z)) /\ "nan" # "inner"
    BY <1>3 DEF two
  <1> QED BY <1>1, <1>2, <1>3, <1>8, <1>9, FitsUnder DEF nan_on_match

LEMMA NanMatchAlone == Fits(Outside, nan_on_match, Outside)
  <1>1. "no" \in Early /\ {} \in SUBSET {EngineUp}
    BY DEF Early
  <1>2. /\ "nan" \notin {} /\ "matches" \notin {}
        /\ (\A i \in {}: Rank(i) < 4) /\ (\A i \in {}: Rank(i) \in Nat)
    OBVIOUS
  <1> QED BY <1>1, <1>2, NanMatchFits DEF Outside, In

LEMMA FitsDeliver ==
    ASSUME NEW r \in Radios
    PROVE  Fits(In({r}, "no"), <<Step("deliver", r)>>, In({r}, "no"))
  <1> DEFINE x == In({r}, "no")
             e == Step("deliver", r)
  <1>1. x.held = {r} /\ x.knows = {} /\ x.makes = "" /\ x.zero = "no" /\ x = View({r}, {}, "", "no")
    BY DEF View, In
  <1>2. e.op = "deliver" /\ e.on = r
    BY DEF Step
  <1>3. Settled(x)
    BY <1>1 DEF Settled
  <1> HIDE DEF x, e
  <1>4. Allowed(x, e)
    BY <1>1, <1>2 DEF Allowed, Ops, Counters
  <1>5. Then(x, e) = x
    BY <1>1, <1>2 DEF Then, Held, Knows, Makes
  <1>6. e.op # "if"
    BY <1>2
  <1>7. Fits(x, <<e>>, x)
    BY <1>3, <1>4, <1>5, <1>6, FitsStep
  <1> QED BY <1>7 DEF x, e

LEMMA DeliverFits ==
    ASSUME NEW r \in Radios, NEW seam, seam # "up"
    PROVE  Fits(Outside, Under(r, When(seam, <<Step("deliver", r)>>)), Outside)
  <1> DEFINE body == <<Step("deliver", r)>>
  <1>1. "no" \in Early /\ r \in Locks
    BY DEF Early, Locks, Radios
  <1>2. Fits(In({r}, "no"), body, In({r}, "no"))
    BY FitsDeliver
  <1>3. Settled(In({r}, "no"))
    BY <1>1, EarlyIsSettled DEF In
  <1> HIDE DEF body
  <1>4. Fits(In({r}, "no"), When(seam, body), In({r}, "no"))
    BY <1>2, <1>3, FitsWhen
  <1>5. Fits(In({}, "no"), Under(r, When(seam, body)), In({}, "no"))
    BY <1>1, <1>4, FitsAlone
  <1> QED BY <1>5 DEF body, Outside

LEMMA NanDeliverFits == Fits(Outside, nan_deliver_followup, Outside)
  BY DeliverFits DEF nan_deliver_followup, Radios

LEMMA BleDeliverFits == Fits(Outside, ble_deliver_frame, Outside)
  BY DeliverFits DEF ble_deliver_frame, Radios

\* Between the new face and the store of its seam the call has made a face.
Attaching(r) == View({"inner"}, {EngineUp}, r, "no")

LEMMA AddFaceFits ==
    ASSUME NEW r \in Radios
    PROVE  Fits(In({"inner"}, "no"), <<Need, Step("add_face", r)>>, Attaching(r))
  <1> DEFINE x == Up({"inner"}, "no")
             e == Step("add_face", r)
  <1>1. x.held = {"inner"} /\ x.knows = {EngineUp} /\ x.makes = "" /\ x.zero = "no"
    BY DEF View, Up
  <1>2. e.op = "add_face" /\ e.on = r
    BY DEF Step
  <1>3. Settled(x) /\ "no" \in Early
    BY <1>1 DEF Settled, Early
  <1>4. Fits(In({"inner"}, "no"), <<Need>>, x)
    BY <1>3, FitsNeed
  <1> HIDE DEF x, e
  <1>5. Allowed(x, e)
    BY <1>1, <1>2 DEF Allowed, Ops, Counters
  <1>6. Then(x, e) = Attaching(r)
    BY <1>1, <1>2 DEF Then, Held, Knows, Makes, Attaching
  <1>7. Fits(x, <<e>>, Attaching(r))
    BY <1>2, <1>3, <1>5, <1>6, FitsStep
  <1>8. Fits(In({"inner"}, "no"), <<Need, e>>, Attaching(r))
    BY <1>4, <1>7, FitsTwo
  <1> QED BY <1>8 DEF e

LEMMA StoreSeamFits ==
    ASSUME NEW r \in Radios
    PROVE  Fits(Attaching(r), Under(r, <<Step("store_seam", r)>>), In({"inner"}, "no"))
  <1> DEFINE two == {"inner"} \cup {r}
             x == View(two, {EngineUp}, r, "no")
             e == Step("store_seam", r)
  <1>1. x.held = two /\ x.knows = {EngineUp} /\ x.makes = r /\ x.zero = "no"
    BY DEF View
  <1>2. e.op = "store_seam" /\ e.on = r
    BY DEF Step
  <1>3. /\ Settled(x) /\ "no" \in Early /\ Settled(View({"inner"}, {EngineUp}, r, "no"))
        /\ Settled(View(two, {EngineUp}, "", "no"))
    BY EarlyIsSettled DEF Early
  <1>4. /\ r \in Locks /\ r \notin {"inner"} /\ (r = "inner" => "" \notin Radios)
        /\ \A i \in {"inner"}: Rank(i) < Rank(r)
    BY DEF Radios, Locks, Rank
  <1>5. {EngineUp} \in SUBSET {EngineUp} /\ \A f \in {EngineUp}: f[1] # r
    <2>1. EngineUp[1] = "inner" /\ r # "inner"
      BY <1>4 DEF EngineUp
    <2> QED BY <2>1
  <1> HIDE DEF x, e, two
  <1>6. Allowed(x, e)
    BY <1>1, <1>2 DEF Allowed, Ops, Counters
  <1>7. Then(x, e) = View(two, {EngineUp}, "", "no")
    BY <1>1, <1>2 DEF Then, Held, Knows, Makes
  <1>8. Fits(x, <<e>>, View(two, {EngineUp}, "", "no"))
    BY <1>2, <1>3, <1>6, <1>7, FitsStep
  <1>9. Fits(View({"inner"} \cup {r}, {EngineUp}, r, "no"), <<e>>,
             View({"inner"} \cup {r}, {EngineUp}, "", "no"))
    BY <1>8 DEF x, two
  <1>10. Settled(View({"inner"} \cup {r}, {EngineUp}, "", "no"))
    BY <1>3 DEF two
  <1>11. Fits(View({"inner"}, {EngineUp}, r, "no"), Under(r, <<e>>),
              View({"inner"}, {EngineUp}, "", "no"))
    BY <1>3, <1>4, <1>5, <1>9, <1>10, FitsUnder
  <1>12. Fits(Attaching(r), Under(r, <<e>>), Up({"inner"}, "no"))
    BY <1>11 DEF Attaching, Up
  <1>13. Fits(Attaching(r), Under(r, <<e>>), In({"inner"}, "no"))
    BY <1>12, ForgetAfter
  <1> QED BY <1>13 DEF e

LEMMA AttachNanFits == Fits(Outside, attach_wifi_aware, Outside)
  <1> DEFINE add   == <<Need, Step("add_face", "nan")>>
             store == <<Step("store_seam", "nan")>>
  <1>1. "no" \in Early /\ "inner" \in Locks /\ "nan" \in Radios
    BY DEF Early, Locks, Radios
  <1>2. Fits(In({"inner"}, "no"), add, Attaching("nan"))
    BY <1>1, AddFaceFits
  <1>3. Fits(Attaching("nan"), nan_on_match, Attaching("nan"))
    <2>1. {EngineUp} \in SUBSET {EngineUp} /\ "nan" \notin {"inner"} /\ "matches" \notin {"inner"}
      OBVIOUS
    <2>2. (\A i \in {"inner"}: Rank(i) < 4) /\ (\A i \in {"inner"}: Rank(i) \in Nat)
      BY DEF Rank
    <2> QED BY <1>1, <2>1, <2>2, NanMatchFits DEF Attaching
  <1>4. Settled(Attaching("nan"))
    BY <1>1, EarlyIsSettled DEF Attaching
  <1>5. Fits(Attaching("nan"), Perhaps(nan_on_match), Attaching("nan"))
    BY <1>3, <1>4, FitsPerhaps
  <1>6. Fits(Attaching("nan"), Under("nan", store), In({"inner"}, "no"))
    BY <1>1, StoreSeamFits
  <1> HIDE DEF add, store
  <1>7. Fits(In({"inner"}, "no"), (add \o Perhaps(nan_on_match)) \o Under("nan", store),
             In({"inner"}, "no"))
    BY <1>2, <1>5, <1>6, FitsSeq
  <1>8. Fits(In({}, "no"), Under("inner", (add \o Perhaps(nan_on_match)) \o Under("nan", store)),
             In({}, "no"))
    BY <1>1, <1>7, FitsAlone
  <1> QED BY <1>8 DEF add, store, Outside, attach_wifi_aware

LEMMA AttachBleFits == Fits(Outside, attach_ble, Outside)
  <1> DEFINE add   == <<Need, Step("add_face", "ble")>>
             store == <<Step("store_seam", "ble")>>
  <1>1. "no" \in Early /\ "inner" \in Locks /\ "ble" \in Radios
    BY DEF Early, Locks, Radios
  <1>2. Fits(In({"inner"}, "no"), add, Attaching("ble"))
    BY <1>1, AddFaceFits
  <1>3. Fits(Attaching("ble"), Under("ble", store), In({"inner"}, "no"))
    BY <1>1, StoreSeamFits
  <1> HIDE DEF add, store
  <1>4. Fits(In({"inner"}, "no"), add \o Under("ble", store), In({"inner"}, "no"))
    BY <1>2, <1>3, FitsSeq
  <1>5. Fits(In({}, "no"), Under("inner", add \o Under("ble", store)), In({}, "no"))
    BY <1>1, <1>4, FitsAlone
  <1> QED BY <1>5 DEF add, store, Outside, attach_ble

----------------------------------------------------------------------------
(* The scripts: nearby peers                                               *)

\* A server whose guard is not stored yet, and the cell locked to store it.
Serving == View({}, {}, "dataset", "no")

LEMMA ServeDatasetFits == Fits(Outside, serve_peers_dataset(Self), Serving)
  <1> DEFINE x == In({}, "no")
             e == Step("serve_dataset", Self)
  <1>1. x.held = {} /\ x.knows = {} /\ x.makes = "" /\ x.zero = "no"
    BY DEF View, In
  <1>2. e.op = "serve_dataset" /\ e.on = Self
    BY DEF Step
  <1>3. Settled(x) /\ "no" \in Early /\ Net \in Plain
    BY <1>1 DEF Settled, Early, Plain
  <1>4. Fits(x, <<Net>>, x)
    BY <1>3, FitsPlainIn
  <1> HIDE DEF x, e
  <1>5. Allowed(x, e)
    BY <1>1, <1>2 DEF Allowed, Ops, Counters
  <1>6. Then(x, e) = Serving
    BY <1>1, <1>2 DEF Then, Held, Knows, Makes, Serving
  <1>7. Fits(x, <<e>>, Serving)
    BY <1>2, <1>3, <1>5, <1>6, FitsStep
  <1>8. Fits(x, <<Net, e>>, Serving)
    BY <1>4, <1>7, FitsTwo
  <1> QED BY <1>8 DEF x, e, Outside, serve_peers_dataset

LEMMA StoreDatasetFits == Fits(Serving, Under("discovery", <<Step("store_dataset", "")>>), Outside)
  <1> DEFINE one == {} \cup {"discovery"}
             x   == View(one, {}, "dataset", "no")
             e   == Step("store_dataset", "")
  <1>1. x.held = one /\ x.knows = {} /\ x.makes = "dataset" /\ x.zero = "no"
    BY DEF View
  <1>2. e.op = "store_dataset"
    BY DEF Step
  <1>3. /\ Settled(x) /\ Settled(View({}, {}, "dataset", "no"))
        /\ Settled(View(one, {}, "", "no"))
    BY EarlyIsSettled DEF Early
  <1>4. /\ "discovery" \in Locks /\ "discovery" \notin {} /\ "discovery" # "inner"
        /\ (\A i \in {}: Rank(i) < Rank("discovery"))
        /\ {} \in SUBSET {} /\ (\A f \in {}: f[1] # "discovery")
    BY DEF Locks
  <1> HIDE DEF x, e, one
  <1>5. Allowed(x, e)
    BY <1>1, <1>2 DEF Allowed, Ops, Counters
  <1>6. Then(x, e) = View(one, {}, "", "no")
    BY <1>1, <1>2 DEF Then, Held, Knows, Makes
  <1>7. Fits(x, <<e>>, View(one, {}, "", "no"))
    BY <1>2, <1>3, <1>5, <1>6, FitsStep
  <1>8. Fits(View({} \cup {"discovery"}, {}, "dataset", "no"), <<e>>,
             View({} \cup {"discovery"}, {}, "", "no"))
    BY <1>7 DEF x, one
  <1>9. Settled(View({} \cup {"discovery"}, {}, "", "no"))
    BY <1>3 DEF one
  <1>10. Fits(View({}, {}, "dataset", "no"), Under("discovery", <<e>>), View({}, {}, "", "no"))
    BY <1>3, <1>4, <1>8, <1>9, FitsUnder
  <1> QED BY <1>10 DEF e, Serving, Outside, In

LEMMA DiscoverFits == Fits(Outside, start_discovery(Self), Outside)
  <1> DEFINE store == Under("discovery", <<Step("store_dataset", "")>>)
             look  == Under("inner", When("up", <<Use>>))
  <1>1. Fits(Outside, look, Outside)
    BY InnerUseWhenUp
  <1>2. Fits(Serving, store, Outside)
    BY StoreDatasetFits
  <1> HIDE DEF store, look
  <1>3. Fits(Outside, (look \o serve_peers_dataset(Self)) \o store, Outside)
    BY <1>1, <1>2, ServeDatasetFits, FitsSeq
  <1> QED BY <1>3 DEF store, look, start_discovery

\* The cells of the infra tunnel are locked one after the other, under inner.
LEMMA TunnelFits ==
    Fits(Up({"inner"}, "no"), maybe_attach_infra_tunnel, Up({"inner"}, "no"))
  <1> DEFINE x == Up({"inner"}, "no")
             addr   == Under("addr", <<>>)
             infra  == Under("infra", <<>>)
             socket == Under("socket", <<>>)
  <1>1. "no" \in Early
    BY DEF Early
  <1>2. /\ "addr" \in Locks /\ "infra" \in Locks /\ "socket" \in Locks
        /\ "addr" \notin {"inner"} /\ "infra" \notin {"inner"} /\ "socket" \notin {"inner"}
    BY DEF Locks
  <1>3. \A l \in {"addr", "infra", "socket"}: \A i \in {"inner"}: Rank(i) < Rank(l)
    BY DEF Rank
  <1>4. /\ \A i \in {"inner"}: Rank(i) < Rank("addr")
        /\ \A i \in {"inner"}: Rank(i) < Rank("infra")
        /\ \A i \in {"inner"}: Rank(i) < Rank("socket")
    BY <1>3
  <1>5. Fits(x, addr, x)
    BY <1>1, <1>2, <1>4, FitsTouchUp
  <1>6. Fits(x, infra, x)
    BY <1>1, <1>2, <1>4, FitsTouchUp
  <1>7. Fits(x, socket, x)
    BY <1>1, <1>2, <1>4, FitsTouchUp
  <1>8. Fits(x, <<Use>>, x)
    BY <1>1, FitsUse
  <1>9. Settled(x) /\ "chance" # "up"
    BY <1>1, EarlyIsSettled DEF Up
  <1> HIDE DEF x, addr, infra, socket
  <1>10. Fits(x, <<Use>> \o Perhaps(infra), x)
    BY <1>6, <1>8, <1>9, FitsPerhaps, FitsSeq
  <1>11. Fits(x, If("chance", <<Use>> \o Perhaps(infra), infra), x)
    BY <1>6, <1>9, <1>10, FitsEither
  <1>12. Fits(x, Perhaps(socket \o If("chance", <<Use>> \o Perhaps(infra), infra)), x)
    BY <1>7, <1>9, <1>11, FitsPerhaps, FitsSeq
  <1>13. Fits(x, Perhaps(infra \o Perhaps(socket
                     \o If("chance", <<Use>> \o Perhaps(infra), infra))), x)
    BY <1>6, <1>9, <1>12, FitsPerhaps, FitsSeq
  <1>14. Fits(x, addr \o Perhaps(infra \o Perhaps(socket
                        \o If("chance", <<Use>> \o Perhaps(infra), infra))), x)
    BY <1>5, <1>13, FitsSeq
  <1> QED BY <1>14 DEF x, addr, infra, socket, maybe_attach_infra_tunnel

LEMMA FitsNote ==
    ASSUME NEW h, NEW id \in Ids \cup {Self}
    PROVE  Fits(In(h, "no"), <<Step("note", id)>>, In(h, "no"))
  <1> DEFINE x == In(h, "no")
             e == Step("note", id)
  <1>1. x.held = h /\ x.knows = {} /\ x.makes = "" /\ x.zero = "no" /\ x = View(h, {}, "", "no")
    BY DEF View, In
  <1>2. e.op = "note" /\ e.on = id
    BY DEF Step
  <1>3. Settled(x)
    BY <1>1 DEF Settled
  <1> HIDE DEF x, e
  <1>4. Allowed(x, e)
    BY <1>1, <1>2 DEF Allowed, Ops, Counters
  <1>5. Then(x, e) = x
    BY <1>1, <1>2 DEF Then, Held, Knows, Makes
  <1>6. e.op # "if"
    BY <1>2
  <1>7. Fits(x, <<e>>, x)
    BY <1>3, <1>4, <1>5, <1>6, FitsStep
  <1> QED BY <1>7 DEF x, e

LEMMA NotePeerFits ==
    ASSUME NEW id \in Ids \cup {Self}
    PROVE  Fits(Outside, note_peer(id), Outside)
  <1> DEFINE note == <<Step("note", id)>>
             one  == {"discovery"}
             attach == <<Use>> \o Perhaps(maybe_attach_infra_tunnel)
  <1>1. /\ "no" \in Early /\ "discovery" \in Locks /\ "peers" \in Locks /\ "inner" \in Locks
        /\ "peers" \notin one /\ "discovering" # "up" /\ "inner" \in {"inner"}
    BY DEF Early, Locks
  <1>2. \A i \in one: Rank(i) < Rank("peers")
    BY DEF Rank
  <1>3. Fits(In(one \cup {"peers"}, "no"), note, In(one \cup {"peers"}, "no"))
    BY FitsNote
  <1>4. Settled(In({"discovery"}, "no")) /\ Settled(Up({"inner"}, "no"))
    BY <1>1, EarlyIsSettled DEF In, Up
  <1> HIDE DEF note
  <1>5. Fits(In(one, "no"), Under("peers", note), In(one, "no"))
    BY <1>1, <1>2, <1>3, FitsUnderIn
  <1>6. Fits(In({"discovery"}, "no"), When("discovering", Under("peers", note)),
             In({"discovery"}, "no"))
    BY <1>1, <1>4, <1>5, FitsWhen
  <1>7. Fits(In({}, "no"), Under("discovery", When("discovering", Under("peers", note))),
             In({}, "no"))
    BY <1>1, <1>6, FitsAlone
  <1>8. Fits(Up({"inner"}, "no"), attach, Up({"inner"}, "no"))
    BY <1>1, <1>4, TunnelFits, FitsUse, FitsPerhaps, FitsSeq
  <1> HIDE DEF attach
  <1>9. Fits(In({"inner"}, "no"), When("up", attach), In({"inner"}, "no"))
    BY <1>1, <1>8, ForgetAfter, FitsWhenUp
  <1>10. Fits(In({}, "no"), Under("inner", When("up", attach)), In({}, "no"))
    BY <1>1, <1>9, FitsAlone
  <1>11. Fits(Outside, Under("discovery", When("discovering", Under("peers", note)))
                       \o Under("inner", When("up", attach)), Outside)
    BY <1>7, <1>10, FitsSeq DEF Outside
  <1> QED BY <1>11 DEF note, attach, note_peer

LEMMA InfraAddrFits == Fits(Outside, set_infra_addr, Outside)
  <1>1. /\ "no" \in Early /\ "addr" \in Locks /\ "infra" \in Locks /\ "infra" \notin {"addr"}
    BY DEF Early, Locks
  <1>2. \A i \in {"addr"}: Rank(i) < Rank("infra")
    BY DEF Rank
  <1>3. Fits(In({"addr"}, "no"), Under("infra", <<>>), In({"addr"}, "no"))
    BY <1>1, <1>2, FitsTouchIn
  <1>4. Settled(In({"addr"}, "no"))
    BY <1>1, EarlyIsSettled DEF In
  <1>5. Fits(In({"addr"}, "no"), Perhaps(Under("infra", <<>>)), In({"addr"}, "no"))
    BY <1>3, <1>4, FitsPerhaps
  <1> QED BY <1>1, <1>5, FitsAlone DEF Outside, set_infra_addr

LEMMA InfraSocketFits == Fits(Outside, set_infra_socket, Outside)
  <1>1. "no" \in Early /\ "socket" \in Locks /\ "infra" \in Locks
    BY DEF Early, Locks
  <1> QED BY <1>1, FitsAloneTouch, FitsSeq DEF Outside, set_infra_socket

----------------------------------------------------------------------------
(* The scripts: offers, producers, faces, enrollment, client and console    *)

LEMMA PlainOutside ==
    ASSUME NEW e \in Plain
    PROVE  Fits(Outside, <<e>>, Outside)
  BY FitsPlainIn DEF Outside, Early

LEMMA Waits == Net \in Plain /\ Try \in Plain /\ Ask \in Plain /\ Serve \in Plain
  BY DEF Plain

LEMMA OpenBoardFits == Fits(Outside, start_offer_board, Outside)
  <1>1. "no" \in Early /\ "board" \in Locks /\ Settled(Outside)
    BY EarlyIsSettled DEF Early, Locks, Outside, In
  <1>2. Fits(Outside, Under("board", <<>>), Outside)
    BY <1>1, FitsAloneTouch DEF Outside
  <1>3. Fits(Outside, <<Try>>, Outside)
    BY Waits, PlainOutside
  <1>4. Fits(Outside, Perhaps(<<Ask>>), Outside)
    BY <1>1, Waits, PlainOutside, FitsPerhaps
  <1> QED BY <1>2, <1>3, <1>4, InnerUseWhenUp, FitsSeq DEF start_offer_board

LEMMA RelayFits == Fits(Outside, register_object_relay, Outside)
  <1>1. Fits(Outside, <<Try>>, Outside)
    BY Waits, PlainOutside
  <1> QED BY <1>1, InnerNeedUse, FitsSeq DEF register_object_relay

\* A board's own call may be waited for, and may fail.
LEMMA BoardCallFits ==
    ASSUME NEW l \in Locks
    PROVE  Fits(Outside, Under(l, Perhaps(Registration)) \o <<Try>>, Outside)
  <1>1. "no" \in Early /\ Settled(In({l}, "no"))
    BY EarlyIsSettled DEF Early, In
  <1>2. Fits(In({l}, "no"), Registration, In({l}, "no"))
    <2>1. Fits(In({l}, "no"), <<Net>>, In({l}, "no"))
      BY <1>1, Waits, FitsPlainIn
    <2>2. Fits(In({l}, "no"), <<Ask>>, In({l}, "no"))
      BY <1>1, Waits, FitsPlainIn
    <2> QED BY <1>1, <2>1, <2>2, FitsPerhaps, FitsSeq DEF Registration
  <1>3. Fits(In({l}, "no"), Perhaps(Registration), In({l}, "no"))
    BY <1>1, <1>2, FitsPerhaps
  <1>4. Fits(Outside, Under(l, Perhaps(Registration)), Outside)
    BY <1>1, <1>3, FitsAlone DEF Outside
  <1>5. Fits(Outside, <<Try>>, Outside)
    BY Waits, PlainOutside
  <1> QED BY <1>4, <1>5, FitsSeq

LEMMA OffersFits == Fits(Outside, offers, Outside) /\ Fits(Outside, client_offers, Outside)
  <1>1. "board" \in Locks /\ "clientBoard" \in Locks
    BY DEF Locks
  <1> QED BY <1>1, BoardCallFits DEF offers, client_offers

LEMMA ServeFits == Fits(Outside, serve, Outside) /\ Fits(Outside, client_serve, Outside)
  <1>1. Fits(Outside, <<Serve>>, Outside)
    BY Waits, PlainOutside
  <1>2. Fits(Outside, register_producer_internal, Outside)
    BY InnerNeedUse DEF register_producer_internal
  <1> QED BY <1>1, <1>2, FitsSeq DEF serve, client_serve

LEMMA BulkFacesFits == Fits(Outside, bulk_faces, Outside)
  <1> DEFINE body == <<Need, Net, Use>>
  <1>1. "no" \in Early /\ "inner" \in Locks /\ "inner" \in {"inner"}
    BY DEF Early, Locks
  <1>2. Fits(Up({"inner"}, "no"), <<Net, Use>>, Up({"inner"}, "no"))
    BY <1>1, Waits, FitsPlainUp, FitsUse, FitsTwo
  <1>3. Fits(In({"inner"}, "no"), body, Up({"inner"}, "no"))
    BY <1>1, <1>2, FitsNeed, FitsThree
  <1> HIDE DEF body
  <1>4. Fits(Outside, Under("inner", body), Outside)
    BY <1>1, <1>3, ForgetAfter, FitsAlone DEF Outside
  <1>5. Fits(Outside, <<Try>>, Outside)
    BY Waits, PlainOutside
  <1> QED BY <1>4, <1>5, FitsSeq DEF body, bulk_faces

LEMMA SubscribeFits == Fits(Outside, subscribe, Outside)
  <1>1. Fits(Outside, <<Try, Serve>>, Outside)
    BY Waits, PlainOutside, FitsTwo
  <1>2. Fits(Outside, alloc_app_handle, Outside)
    BY InnerNeedUse DEF alloc_app_handle
  <1> QED BY <1>1, <1>2, FitsSeq DEF subscribe

LEMMA EnrollFits == Fits(Outside, enroll, Outside)
  <1> DEFINE x == Up({"inner"}, "no")
             first  == <<Need, Use, Net, Try>>
             prompt == <<Ask, Net, Try>>
  <1>1. "no" \in Early /\ "inner" \in Locks /\ "inner" \in {"inner"}
    BY DEF Early, Locks
  <1>2. Fits(x, <<Net>>, x) /\ Fits(x, <<Try>>, x) /\ Fits(x, <<Ask>>, x) /\ Fits(x, <<Use>>, x)
    BY <1>1, Waits, FitsPlainUp, FitsUse
  <1>3. Settled(x)
    BY <1>1, EarlyIsSettled DEF Up
  <1>4. Fits(In({"inner"}, "no"), <<Need>>, x)
    BY <1>1, FitsNeed
  <1> HIDE DEF x
  <1>5. Fits(x, <<Net, Try>>, x)
    BY <1>2, FitsTwo
  <1>6. Fits(x, <<Use, Net, Try>>, x) /\ Fits(x, prompt, x)
    BY <1>2, <1>5, FitsThree
  <1>7. Fits(In({"inner"}, "no"), first, x)
    BY <1>4, <1>6, FitsFour
  <1> HIDE DEF first, prompt
  <1>8. Fits(x, Perhaps(prompt), x)
    BY <1>3, <1>6, FitsPerhaps
  <1>9. Fits(In({"inner"}, "no"), (first \o Perhaps(prompt)) \o <<Use>>, x)
    BY <1>2, <1>7, <1>8, FitsSeq
  <1>10. Fits(In({"inner"}, "no"), (first \o Perhaps(prompt)) \o <<Use>>, In({"inner"}, "no"))
    BY <1>9, ForgetAfter DEF x
  <1>11. Fits(Outside, Under("inner", (first \o Perhaps(prompt)) \o <<Use>>), Outside)
    BY <1>1, <1>10, FitsAlone DEF Outside
  <1>12. Fits(Outside, <<Try>>, Outside)
    BY Waits, PlainOutside
  <1> QED BY <1>11, <1>12, FitsSeq DEF first, prompt, enroll

LEMMA StrategyFits == Fits(Outside, set_congestion_strategy, Outside)
  <1>1. "no" \in Early /\ "strategy" \in Locks
    BY DEF Early, Locks
  <1> QED BY <1>1, FitsAloneTouch DEF Outside, set_congestion_strategy

\* A command under one lock that waits for the network.
LEMMA CommandFits ==
    ASSUME NEW l \in Locks
    PROVE  Fits(Outside, Under(l, <<Net>>) \o <<Try>>, Outside)
  <1>1. "no" \in Early
    BY DEF Early
  <1>2. Fits(In({l}, "no"), <<Net>>, In({l}, "no"))
    BY <1>1, Waits, FitsPlainIn
  <1>3. Fits(Outside, Under(l, <<Net>>), Outside)
    BY <1>1, <1>2, FitsAlone DEF Outside
  <1>4. Fits(Outside, <<Try>>, Outside)
    BY Waits, PlainOutside
  <1> QED BY <1>3, <1>4, FitsSeq

LEMMA ClientFits ==
    Fits(Outside, client_fetch, Outside) /\ Fits(Outside, console_command, Outside)
  <1>1. "slot" \in Locks /\ "console" \in Locks
    BY DEF Locks
  <1> QED BY <1>1, CommandFits DEF client_fetch, console_command

\* The script of each call.
LEMMA ScriptOf ==
    ASSUME NEW c \in Calls
    PROVE
    /\ c = "suspend" => Script(c) = suspend_network_faces
    /\ c = "resume" => Script(c) = resume_network_faces
    /\ c = "shutdown" => Script(c) = shutdown
    /\ c = "fetch" => Script(c) = fetch
    /\ c = "fetch_hinted" => Script(c) = fetch_object_verified_hinted
    /\ c = "attach_nan" => Script(c) = attach_wifi_aware
    /\ c = "attach_ble" => Script(c) = attach_ble
    /\ c = "nan_match" => Script(c) = nan_on_match
    /\ c = "nan_deliver" => Script(c) = nan_deliver_followup
    /\ c = "ble_deliver" => Script(c) = ble_deliver_frame
    /\ c = "discover" => Script(c) = start_discovery(Self)
    /\ c = "infra_addr" => Script(c) = set_infra_addr
    /\ c = "infra_socket" => Script(c) = set_infra_socket
    /\ c = "open_board" => Script(c) = start_offer_board
    /\ c = "relay" => Script(c) = register_object_relay
    /\ c = "offers" => Script(c) = offers
    /\ c = "serve" => Script(c) = serve
    /\ c = "bulk_face" => Script(c) = bulk_faces
    /\ c = "detach" => Script(c) = detach_ndp_face
    /\ c = "subscribe" => Script(c) = subscribe
    /\ c = "enroll" => Script(c) = enroll
    /\ c = "set_strategy" => Script(c) = set_congestion_strategy
    /\ c = "client_fetch" => Script(c) = client_fetch
    /\ c = "client_serve" => Script(c) = client_serve
    /\ c = "client_offers" => Script(c) = client_offers
    /\ c = "console" => Script(c) = console_command
    /\ c = "fetch_to_fd" => Script(c) = fetch_object_to_fd
    /\ c = "client_hinted" => Script(c) = client_fetch_hinted
    /\ c = "client_to_fd" => Script(c) = client_fetch_to_fd
  <1>1. c \notin Ids \cup {Self}
    BY NameAssumption DEF Calls, Self
  <1> QED BY <1>1 DEF Script

LEMMA ScriptOfPeer ==
    ASSUME NEW c \in Ids \cup {Self}
    PROVE  Script(c) = note_peer(c) /\ Kind(c) = "slow"
  <1>1. c \notin Calls
    BY NameAssumption DEF Calls, Self
  <1>2. Script(c) = note_peer(c)
    BY <1>1 DEF Script, Calls
  <1>3. Kind(c) = "slow"
    BY <1>1 DEF Kind, QuickCalls, Counting, Calls
  <1> QED BY <1>2, <1>3

LEMMA CountingCalls ==
    ASSUME NEW c \in Calls
    PROVE  Kind(c) = "counting" <=> c \in {"fetch_to_fd", "client_hinted", "client_to_fd"}
  BY DEF Kind, QuickCalls, Counting

\* Where a call starts and where it ends.
Before(c) == In({}, IF Kind(c) = "counting" THEN "due" ELSE "no")

LEMMA SlowFits ==
    ASSUME NEW c \in Calls, c \notin {"fetch_to_fd", "client_hinted", "client_to_fd"}
    PROVE  Fits(Outside, Script(c), Outside)
  <1>1. Fits(Outside, suspend_network_faces, Outside)
    BY InnerUseWhenUp DEF suspend_network_faces
  <1>2. Fits(Outside, resume_network_faces, Outside)
    BY ResumeFits
  <1>3. Fits(Outside, shutdown, Outside)
    BY ShutdownFits
  <1>4. Fits(Outside, fetch, Outside)
    BY FetchFits
  <1>5. Fits(Outside, fetch_object_verified_hinted, Outside)
    BY FetchFits DEF fetch, fetch_object_verified_hinted
  <1>6. Fits(Outside, attach_wifi_aware, Outside)
    BY AttachNanFits
  <1>7. Fits(Outside, attach_ble, Outside)
    BY AttachBleFits
  <1>8. Fits(Outside, nan_on_match, Outside)
    BY NanMatchAlone
  <1>9. Fits(Outside, nan_deliver_followup, Outside)
    BY NanDeliverFits
  <1>10. Fits(Outside, ble_deliver_frame, Outside)
    BY BleDeliverFits
  <1>11. Fits(Outside, start_discovery(Self), Outside)
    BY DiscoverFits
  <1>12. Fits(Outside, set_infra_addr, Outside)
    BY InfraAddrFits
  <1>13. Fits(Outside, set_infra_socket, Outside)
    BY InfraSocketFits
  <1>14. Fits(Outside, start_offer_board, Outside)
    BY OpenBoardFits
  <1>15. Fits(Outside, register_object_relay, Outside)
    BY RelayFits
  <1>16. Fits(Outside, offers, Outside)
    BY OffersFits
  <1>17. Fits(Outside, serve, Outside)
    BY ServeFits
  <1>18. Fits(Outside, bulk_faces, Outside)
    BY BulkFacesFits
  <1>19. Fits(Outside, detach_ndp_face, Outside)
    BY InnerUseWhenUp DEF detach_ndp_face
  <1>20. Fits(Outside, subscribe, Outside)
    BY SubscribeFits
  <1>21. Fits(Outside, enroll, Outside)
    BY EnrollFits
  <1>22. Fits(Outside, set_congestion_strategy, Outside)
    BY StrategyFits
  <1>23. Fits(Outside, client_fetch, Outside)
    BY ClientFits
  <1>24. Fits(Outside, client_serve, Outside)
    BY ServeFits
  <1>25. Fits(Outside, client_offers, Outside)
    BY OffersFits
  <1>26. Fits(Outside, console_command, Outside)
    BY ClientFits
  <1> QED BY ScriptOf,
             <1>1, <1>2, <1>3, <1>4, <1>5, <1>6, <1>7, <1>8, <1>9, <1>10, <1>11, <1>12, <1>13,
             <1>14, <1>15, <1>16, <1>17, <1>18, <1>19, <1>20, <1>21, <1>22, <1>23, <1>24, <1>25,
             <1>26
          DEF Calls

LEMMA CountingScriptFits ==
    ASSUME NEW c \in {"fetch_to_fd", "client_hinted", "client_to_fd"}
    PROVE  Fits(In({}, "due"), Script(c), Finished)
  <1>1. /\ c = "fetch_to_fd" => Script(c) = fetch_object_to_fd
        /\ c = "client_hinted" => Script(c) = client_fetch_hinted
        /\ c = "client_to_fd" => Script(c) = client_fetch_to_fd
    BY ScriptOf DEF Calls
  <1>2. client_fetch_to_fd = client_fetch_hinted
    BY DEF client_fetch_to_fd
  <1> QED BY <1>1, <1>2, FetchToFdFits, ClientHintedFits

\* The end of a script, with no lock held and nothing made.
LEMMA EndIsGood ==
    ASSUME NEW z \in {"no", "done"}
    PROVE  Good(In({}, z), <<>>)
  <1> DEFINE x == In({}, z)
  <1>1. x.held = {} /\ x.makes = "" /\ x.zero = z /\ x.zero # "due"
    BY DEF In, View
  <1>2. Fine(x, <<>>)
    <2>1. IsSeq(<<>>)
      BY EmptyIsSeq
    <2>2. \A h \in Handles: ConsumerLock[h] \notin x.held
      BY <1>1
    <2> QED BY <1>1, <2>1, <2>2 DEF Fine, Settled
  <1> HIDE DEF x
  <1>3. Good(x, <<>>)
    BY <1>2, Fold
  <1> QED BY <1>3 DEF x

LEMMA FitsIsGood ==
    ASSUME NEW x, NEW y, NEW b, Fits(x, b, y), Good(y, <<>>)
    PROVE  Good(x, b)
  <1>1. IsSeq(b) /\ Good(x, b \o <<>>)
    BY DEF Fits
  <1> QED BY <1>1, ConcatEmpty

\* Every script can be run to its end by a thread that holds no lock.
LEMMA ScriptIsGood ==
    ASSUME NEW c \in Calls \cup Ids \cup {Self}
    PROVE  Good(Before(c), Script(c))
  <1>1. Good(Outside, <<>>) /\ Good(Finished, <<>>)
    BY EndIsGood DEF Outside, Finished, In
  <1>2. CASE c \in {"fetch_to_fd", "client_hinted", "client_to_fd"}
    <2>1. Kind(c) = "counting"
      BY <1>2, CountingCalls DEF Calls
    <2>2. Good(In({}, "due"), Script(c))
      BY <1>1, <1>2, CountingScriptFits, FitsIsGood
    <2> QED BY <2>1, <2>2 DEF Before
  <1>3. CASE c \in Calls /\ c \notin {"fetch_to_fd", "client_hinted", "client_to_fd"}
    <2>1. Kind(c) # "counting"
      BY <1>3, CountingCalls
    <2>2. Good(Outside, Script(c))
      BY <1>1, <1>3, SlowFits, FitsIsGood
    <2> QED BY <2>1, <2>2 DEF Before, Outside
  <1>4. CASE c \in Ids \cup {Self}
    <2>1. Kind(c) = "slow" /\ Script(c) = note_peer(c)
      BY <1>4, ScriptOfPeer
    <2>2. Good(Outside, note_peer(c))
      BY <1>1, <1>4, NotePeerFits, FitsIsGood
    <2> QED BY <2>1, <2>2 DEF Before, Outside
  <1> QED BY <1>2, <1>3, <1>4

----------------------------------------------------------------------------
(* No script is empty                                                      *)

Solid(s) == IsSeq(s) /\ s # <<>>

LEMMA SolidConcat ==
    ASSUME NEW a, NEW b, IsSeq(a), IsSeq(b), a # <<>> \/ b # <<>>
    PROVE  Solid(a \o b)
  <1>1. PICK S: a \in Seq(S) /\ b \in Seq(S)
    BY CommonSet
  <1>2. a \o b \in Seq(S) /\ Len(a \o b) = Len(a) + Len(b)
    BY <1>1, ConcatProperties
  <1>3. Len(a) \in Nat /\ Len(b) \in Nat /\ (Len(a) # 0 \/ Len(b) # 0)
    BY <1>1, LenProperties, EmptySeq
  <1>4. Len(a \o b) # 0 /\ Len(<<>>) = 0
    BY <1>2, <1>3, EmptySeq
  <1>5. IsSeq(a \o b)
    BY <1>2 DEF IsSeq
  <1> QED BY <1>4, <1>5 DEF Solid

LEMMA SolidOne ==
    ASSUME NEW e
    PROVE  Solid(<<e>>)
  BY OneIsSeq DEF Solid

LEMMA SolidTwo ==
    ASSUME NEW a, NEW b
    PROVE  Solid(<<a, b>>)
  BY SolidOne, SolidConcat, PairIsConcat DEF Solid

LEMMA SolidMore ==
    ASSUME NEW a, NEW b, NEW c, NEW d
    PROVE  Solid(<<a, b, c>>) /\ Solid(<<a, b, c, d>>)
  <1>1. Solid(<<a>> \o <<b, c>>) /\ <<a, b, c>> = <<a>> \o <<b, c>>
    BY SolidOne, SolidTwo, SolidConcat, TripleIsConcat DEF Solid
  <1>2. Solid(<<b, c, d>>)
    <2>1. Solid(<<b>> \o <<c, d>>) /\ <<b, c, d>> = <<b>> \o <<c, d>>
      BY SolidOne, SolidTwo, SolidConcat, TripleIsConcat DEF Solid
    <2> QED BY <2>1, Zenon
  <1>3. Solid(<<a>> \o <<b, c, d>>) /\ <<a, b, c, d>> = <<a>> \o <<b, c, d>>
    BY <1>2, SolidOne, SolidConcat, FourIsConcat DEF Solid
  <1> QED BY <1>1, <1>3, Zenon

LEMMA SolidUnder ==
    ASSUME NEW l, NEW b, IsSeq(b)
    PROVE  Solid(Under(l, b))
  <1>1. Solid(<<Step("lock", l)>> \o b)
    BY SolidOne, SolidConcat DEF Solid
  <1>2. Solid((<<Step("lock", l)>> \o b) \o <<Step("unlock", l)>>)
    BY <1>1, SolidOne, SolidConcat DEF Solid
  <1> QED BY <1>2 DEF Under

LEMMA SolidIf ==
    ASSUME NEW cond, NEW a, NEW b
    PROVE  Solid(If(cond, a, b)) /\ Solid(When(cond, a)) /\ Solid(Perhaps(a))
  BY SolidOne DEF If, When, Perhaps

LEMMA SolidIsSeq ==
    ASSUME NEW s, Solid(s)
    PROVE  IsSeq(s)
  BY DEF Solid

LEMMA SolidEither ==
    ASSUME NEW a, NEW b, Solid(a), IsSeq(b)
    PROVE  Solid(a \o b) /\ Solid(b \o a)
  BY SolidConcat DEF Solid

\* A block under a lock, alone or before other steps.
LEMMA SolidLocked ==
    ASSUME NEW l, NEW b, NEW s, Solid(b), IsSeq(s)
    PROVE  Solid(Under(l, b)) /\ Solid(Under(l, b) \o s)
  <1>1. Solid(Under(l, b))
    BY SolidUnder DEF Solid
  <1> QED BY <1>1, SolidEither

LEMMA SolidTouch ==
    ASSUME NEW l, NEW s, IsSeq(s)
    PROVE  Solid(Under(l, <<>>)) /\ Solid(Under(l, <<>>) \o s)
  <1>1. Solid(Under(l, <<>>))
    BY EmptyIsSeq, SolidUnder
  <1> QED BY <1>1, SolidEither

LEMMA SlowIsSolid ==
    ASSUME NEW c \in Calls, c \notin {"fetch_to_fd", "client_hinted", "client_to_fd"}
    PROVE  Script(c) # <<>>
  <1>1. IsSeq(<<Try>>) /\ IsSeq(<<Serve>>) /\ IsSeq(<<Try, Serve>>) /\ IsSeq(<<>>)
    BY OneIsSeq, SolidTwo, EmptyIsSeq DEF Solid
  <1>2. Solid(suspend_network_faces) /\ Solid(detach_ndp_face) /\ Solid(resume_network_faces)
        /\ Solid(shutdown)
    BY <1>1, SolidIf, SolidLocked DEF suspend_network_faces, detach_ndp_face,
       resume_network_faces, shutdown
  <1>3. Solid(fetch) /\ Solid(fetch_object_verified_hinted)
    <2>1. Solid(When("no_conn", take_consumer_handle \o <<Step("connect", "")>>) \o <<Net>>)
      BY SolidIf, SolidOne, SolidEither DEF Solid
    <2>2. Solid(with_consumer(<<Net>>) \o <<Try>>)
      BY <1>1, <2>1, SolidLocked DEF with_consumer
    <2> QED BY <2>2 DEF fetch, fetch_object_verified_hinted
  <1>4. Solid(nan_on_match) /\ Solid(nan_deliver_followup) /\ Solid(ble_deliver_frame)
    BY <1>1, SolidIf, SolidLocked DEF nan_on_match, nan_deliver_followup, ble_deliver_frame
  <1>5. Solid(attach_wifi_aware) /\ Solid(attach_ble)
    <2> DEFINE add(r) == <<Need, Step("add_face", r)>>
               store(r) == Under(r, <<Step("store_seam", r)>>)
    <2>1. \A r: Solid(add(r)) /\ Solid(store(r))
      BY SolidOne, SolidTwo, SolidUnder DEF Solid
    <2> HIDE DEF add, store
    <2>2. Solid(add("nan") \o Perhaps(nan_on_match)) /\ Solid(add("ble") \o store("ble"))
      BY <2>1, SolidIf, SolidConcat DEF Solid
    <2>3. Solid((add("nan") \o Perhaps(nan_on_match)) \o store("nan"))
      BY <2>1, <2>2, SolidConcat DEF Solid
    <2>4. Solid(Under("inner", (add("nan") \o Perhaps(nan_on_match)) \o store("nan")))
      BY <1>1, <2>3, SolidLocked
    <2>5. Solid(Under("inner", add("ble") \o store("ble")))
      BY <1>1, <2>2, SolidLocked
    <2> QED BY <2>4, <2>5 DEF attach_wifi_aware, attach_ble, add, store
  <1>6. Solid(start_discovery(Self))
    <2>1. Solid(Under("inner", When("up", <<Use>>)))
      BY <1>1, SolidIf, SolidLocked
    <2>2. Solid(serve_peers_dataset(Self))
      BY SolidTwo DEF serve_peers_dataset
    <2>3. Solid(Under("discovery", <<Step("store_dataset", "")>>))
      BY <1>1, SolidOne, SolidLocked
    <2>4. Solid(Under("inner", When("up", <<Use>>)) \o serve_peers_dataset(Self))
      BY <2>1, <2>2, SolidConcat DEF Solid
    <2> QED BY <2>3, <2>4, SolidConcat DEF Solid, start_discovery
  <1>7. Solid(set_infra_addr) /\ Solid(set_infra_socket) /\ Solid(set_congestion_strategy)
    <2>1. Solid(Under("addr", Perhaps(Under("infra", <<>>))))
      BY <1>1, SolidIf, SolidLocked
    <2>2. Solid(Under("socket", <<>>) \o Under("infra", <<>>))
      BY <1>1, SolidTouch DEF Solid
    <2> QED BY <1>1, <2>1, <2>2, SolidTouch DEF set_infra_addr, set_infra_socket,
        set_congestion_strategy
  <1>8. Solid(start_offer_board) /\ Solid(offers) /\ Solid(client_offers)
    <2>1. Solid(Under("inner", When("up", <<Use>>)) \o <<Try>>)
      BY <1>1, SolidIf, SolidLocked
    <2>2. Solid(Under("board", <<>>))
      BY <1>1, SolidTouch
    <2>3. Solid(Under("inner", When("up", <<Use>>)) \o Perhaps(<<Ask>>) \o <<Try>>
                \o Under("board", <<>>))
      BY <1>1, <2>1, <2>2, SolidIf, SolidLocked, SolidEither, SolidConcat DEF Solid
    <2>4. \A l: Solid(Under(l, Perhaps(Registration)) \o <<Try>>)
      <3>1. Solid(Registration)
        BY SolidOne, SolidIf, SolidConcat DEF Registration, Solid
      <3> QED BY <1>1, <3>1, SolidIf, SolidLocked
    <2> QED BY <2>3, <2>4 DEF start_offer_board, offers, client_offers
  <1>9. Solid(register_object_relay) /\ Solid(serve) /\ Solid(client_serve) /\ Solid(subscribe)
    <2>1. Solid(Under("inner", <<Need, Use>>))
      BY <1>1, SolidTwo, SolidLocked
    <2>2. Solid(<<Try>> \o Under("inner", <<Need, Use>>))
      BY <1>1, <2>1, SolidEither
    <2>3. Solid(Under("inner", <<Need, Use>>) \o <<Serve>>)
          /\ Solid(Under("inner", <<Need, Use>>) \o <<Try, Serve>>)
      BY <1>1, <2>1, SolidEither
    <2> QED BY <2>2, <2>3, SolidOne DEF register_object_relay, serve, client_serve, subscribe,
        register_producer_internal, alloc_app_handle
  <1>10. Solid(bulk_faces)
    BY <1>1, SolidMore, SolidLocked DEF bulk_faces
  <1>11. Solid(enroll)
    <2> DEFINE first == <<Need, Use, Net, Try>>
               prompt == Perhaps(<<Ask, Net, Try>>)
    <2>1. Solid(first) /\ Solid(prompt) /\ Solid(<<Use>>)
      BY SolidMore, SolidIf, SolidOne
    <2> HIDE DEF first, prompt
    <2>2. Solid(first \o prompt)
      BY <2>1, SolidConcat DEF Solid
    <2>3. Solid((first \o prompt) \o <<Use>>)
      BY <2>1, <2>2, SolidConcat DEF Solid
    <2>4. Solid(Under("inner", (first \o prompt) \o <<Use>>) \o <<Try>>)
      BY <1>1, <2>3, SolidLocked
    <2> QED BY <2>4 DEF enroll, first, prompt
  <1>12. Solid(client_fetch) /\ Solid(console_command)
    BY <1>1, SolidOne, SolidLocked DEF client_fetch, console_command
  <1> QED BY ScriptOf, <1>2, <1>3, <1>4, <1>5, <1>6, <1>7, <1>8, <1>9, <1>10, <1>11, <1>12
          DEF Calls, Solid

\* Every call has a step to take.
LEMMA ScriptIsNotEmpty ==
    ASSUME NEW c \in Calls \cup Ids \cup {Self}
    PROVE  Script(c) # <<>>
  <1>1. CASE c \in {"fetch_to_fd", "client_hinted", "client_to_fd"}
    <2>1. Kind(c) = "counting"
      BY <1>1, CountingCalls DEF Calls
    <2>2. Before(c).zero = "due"
      BY <2>1 DEF Before, In, View
    <2>3. Due(Script(c))
      BY <2>2, ScriptIsGood, GoodIsFine
    <2> QED BY <2>3, EmptySeq DEF Due
  <1>2. CASE c \in Calls /\ c \notin {"fetch_to_fd", "client_hinted", "client_to_fd"}
    BY <1>2, SlowIsSolid
  <1>3. CASE c \in Ids \cup {Self}
    <2>1. Script(c) = note_peer(c)
      BY <1>3, ScriptOfPeer
    <2>2. Solid(Under("peers", <<Step("note", c)>>))
      BY SolidOne, SolidUnder DEF Solid
    <2>3. Solid(Under("discovery", When("discovering", Under("peers", <<Step("note", c)>>))))
      BY SolidIf, SolidUnder DEF Solid
    <2>4. Solid(<<Use>> \o Perhaps(maybe_attach_infra_tunnel))
      BY SolidOne, SolidIf, SolidConcat DEF Solid
    <2>5. Solid(Under("inner", When("up", <<Use>> \o Perhaps(maybe_attach_infra_tunnel))))
      BY SolidIf, SolidUnder DEF Solid
    <2>6. Solid(note_peer(c))
      BY <2>3, <2>5, SolidConcat DEF Solid, note_peer
    <2> QED BY <2>1, <2>6 DEF Solid
  <1> QED BY <1>1, <1>2, <1>3

----------------------------------------------------------------------------
(* The invariant                                                           *)

HeldBy(t) == {l \in Locks: owner[l] = t}

\* Fact f holds, and a lock that t holds protects it.
Known(t, f) ==
    /\ f[1] \in Locks /\ owner[f[1]] = t
    /\ f = EngineUp => up
    /\ \A h \in Handles:
        /\ f = <<ConsumerLock[h], "received">> => counts[h].received \in {t, Nobody}
        /\ f = <<ConsumerLock[h], "total">> => counts[h].total \in {t, Nobody}

\* A thread knows something that makes the steps that remain good. In a call
\* that counts the zeroing is due or done.
Follows(t) == \E k, z:
    /\ Good(View(HeldBy(t), k, mine[t].of, z), rest[t])
    /\ \A f \in k: Known(t, f)
    /\ z \in {"no", "due", "done"} /\ (call[t] = "counting" => z # "no")

\* A face is stored before `inner` is given back, so it is the newest.
FaceMade == \A t \in Threads, r \in Radios:
    mine[t].of = r => owner["inner"] = t /\ mine[t].id = radio[r].newest

\* A server that is not stored is served, by one thread, and is not the one in
\* the cell.
DatasetMade ==
    /\ \A t \in Threads: mine[t].of = "dataset" => mine[t].id \in served \ {cell}
    /\ \A t, u \in Threads: mine[t].of = "dataset" /\ mine[u] = mine[t] => u = t
NotItself == \A g \in 1 .. Len(tables): tables[g].self \notin tables[g].listed

Cells == FaceMade /\ SeamOfNewestFace /\ DatasetMade /\ NotItself /\ DatasetServed
IInv  == TypeOK /\ (\A t \in Threads: Follows(t)) /\ Cells

\* What a view that a thread follows says.
Matches(t, y) ==
    /\ y.held = HeldBy(t) /\ y.makes = mine[t].of
    /\ y.zero \in {"no", "due", "done"} /\ (call[t] = "counting" => y.zero # "no")
    /\ \A f \in y.knows: Known(t, f)

\* The view of a thread that can take a step.
LEMMA NextStep ==
    ASSUME NEW t, Follows(t), rest[t] # <<>>
    PROVE  \E y: /\ Matches(t, y) /\ Allowed(y, Head(rest[t])) /\ Settled(y)
                 /\ y.zero = "due" => Due(rest[t])
                 /\ \A p \in After(y, Head(rest[t]), Tail(rest[t])): Good(p[1], p[2])
  <1>1. PICK k, z: /\ Good(View(HeldBy(t), k, mine[t].of, z), rest[t])
                   /\ \A f \in k: Known(t, f)
                   /\ z \in {"no", "due", "done"} /\ (call[t] = "counting" => z # "no")
    BY DEF Follows
  <1> DEFINE x == View(HeldBy(t), k, mine[t].of, z)
  <1>2. x.held = HeldBy(t) /\ x.knows = k /\ x.makes = mine[t].of /\ x.zero = z
    BY DEF View
  <1>3. Good(x, rest[t])
    BY <1>1
  <1> HIDE DEF x
  <1>4. PICK y: /\ Weaker(y, x) /\ Fine(y, rest[t]) /\ Allowed(y, Head(rest[t]))
                /\ \A p \in After(y, Head(rest[t]), Tail(rest[t])): Good(p[1], p[2])
    BY <1>3, Unfold
  <1>5. Matches(t, y)
    BY <1>1, <1>2, <1>4 DEF Weaker, Matches
  <1> QED BY <1>4, <1>5 DEF Fine

\* A thread that is in no call holds no lock and has made nothing that is not
\* stored.
LEMMA IdleHoldsNothing ==
    ASSUME NEW t, Follows(t), rest[t] = <<>>
    PROVE  HeldBy(t) = {} /\ mine[t].of = ""
  <1>1. PICK k, z: Good(View(HeldBy(t), k, mine[t].of, z), rest[t])
    BY DEF Follows
  <1> DEFINE x == View(HeldBy(t), k, mine[t].of, z)
  <1>2. x.held = HeldBy(t) /\ x.makes = mine[t].of
    BY DEF View
  <1>3. Good(x, rest[t])
    BY <1>1
  <1> HIDE DEF x
  <1> QED BY <1>2, <1>3, GoodIsFine

\* A thread that has returned.
LEMMA ReturnedFollows ==
    ASSUME NEW t, rest'[t] = <<>>, call'[t] = Idle, HeldBy(t)' = {}, mine'[t].of = ""
    PROVE  Follows(t)'
  <1>1. Good(View({}, {}, "", "no"), <<>>)
    BY EndIsGood DEF In
  <1>2. \A f \in {}: Known(t, f)'
    OBVIOUS
  <1>3. Good(View(HeldBy(t)', {}, mine'[t].of, "no"), rest'[t])
    BY <1>1
  <1> QED BY <1>2, <1>3 DEF Follows, Idle

\* A thread that comes to view x, from which its steps are good.
LEMMA FollowsNext ==
    ASSUME NEW t, NEW x, Good(x, rest'[t]), x.held = HeldBy(t)', x.makes = mine'[t].of,
           x.zero \in {"no", "due", "done"}, call'[t] = "counting" => x.zero # "no",
           \A f \in x.knows: Known(t, f)'
    PROVE  Follows(t)'
  <1>1. Weaker(x, View(HeldBy(t)', x.knows, mine'[t].of, x.zero))
    BY DEF Weaker, View
  <1>2. Good(View(HeldBy(t)', x.knows, mine'[t].of, x.zero), rest'[t])
    BY <1>1, GoodWeaker
  <1> QED BY <1>2 DEF Follows

\* A step of thread t that is not a branch, at y before it.
LEMMA FollowsStep ==
    ASSUME NEW t \in Threads, NEW y, NEW e, e.op # "if",
           \A p \in After(y, e, Tail(rest[t])): Good(p[1], p[2]), Matches(t, y),
           rest'[t] = Tail(rest[t]), call'[t] = "counting" => call[t] = "counting",
           HeldBy(t)' = Held(y, e), mine'[t].of = Makes(y, e),
           \A f \in Knows(y, e): Known(t, f)'
    PROVE  Follows(t)'
  <1>1. \E x: /\ Good(x, Tail(rest[t]))
              /\ x.held = Held(y, e) /\ x.knows = Knows(y, e) /\ x.makes = Makes(y, e)
              /\ x.zero = IF e.op = "zero_total" /\ y.zero = "due" THEN "done" ELSE y.zero
    <2> DEFINE w == Then(y, e)
    <2>1. /\ w.held = Held(y, e) /\ w.knows = Knows(y, e) /\ w.makes = Makes(y, e)
          /\ w.zero = IF e.op = "zero_total" /\ y.zero = "due" THEN "done" ELSE y.zero
      BY DEF Then, View
    <2>2. <<w, Tail(rest[t])>> \in After(y, e, Tail(rest[t]))
      BY DEF After
    <2> HIDE DEF w
    <2> DEFINE p == <<w, Tail(rest[t])>>
    <2>3. p[1] = w /\ p[2] = Tail(rest[t]) /\ Good(p[1], p[2])
      BY <2>2
    <2> QED BY <2>1, <2>3
  <1>2. PICK x: /\ Good(x, Tail(rest[t]))
                /\ x.held = Held(y, e) /\ x.knows = Knows(y, e) /\ x.makes = Makes(y, e)
                /\ x.zero = IF e.op = "zero_total" /\ y.zero = "due" THEN "done" ELSE y.zero
    BY <1>1
  <1>3. x.zero \in {"no", "due", "done"} /\ (call'[t] = "counting" => x.zero # "no")
    BY <1>2 DEF Matches
  <1>4. Good(x, rest'[t])
    BY <1>2
  <1> QED BY <1>2, <1>3, <1>4, FollowsNext

\* A thread that takes no step.
LEMMA FollowsStill ==
    ASSUME NEW u \in Threads, Follows(u), rest'[u] = rest[u], call'[u] = call[u],
           mine'[u].of = mine[u].of, HeldBy(u)' = HeldBy(u),
           \A f: Known(u, f) => Known(u, f)'
    PROVE  Follows(u)'
  BY DEF Follows

----------------------------------------------------------------------------
(* What a step changes for the thread that takes it, and for the others    *)

\* The control state after a step of thread t, of which the steps s remain.
Control(t, s) ==
    /\ DOMAIN rest' = Threads /\ DOMAIN call' = Threads
    /\ \A u \in Threads: call'[u] = Idle <=> rest'[u] = <<>>
    /\ call' \in [Threads -> {Idle, "counting", "quick", "slow"}]
    /\ rest'[t] = s /\ (call'[t] = "counting" => call[t] = "counting")
    /\ \A u \in Threads \ {t}: rest'[u] = rest[u] /\ call'[u] = call[u]

LEMMA ControlAfter ==
    ASSUME NEW t \in Threads, NEW s, TypeOK, rest[t] # <<>>, GoOn(t, s)
    PROVE  Control(t, s)
  <1>1. /\ DOMAIN rest = Threads /\ DOMAIN call = Threads
        /\ \A u \in Threads: call[u] = Idle <=> rest[u] = <<>>
        /\ call \in [Threads -> {Idle, "counting", "quick", "slow"}]
    BY DEF TypeOK
  <1>2. /\ rest' = [rest EXCEPT ![t] = s]
        /\ call' = [call EXCEPT ![t] = IF s = <<>> THEN Idle ELSE @]
    BY DEF GoOn
  <1>3. /\ DOMAIN rest' = Threads /\ rest'[t] = s
        /\ \A u \in Threads \ {t}: rest'[u] = rest[u]
    BY <1>1, <1>2
  <1>4. /\ DOMAIN call' = Threads /\ call'[t] = IF s = <<>> THEN Idle ELSE call[t]
        /\ \A u \in Threads \ {t}: call'[u] = call[u]
    BY <1>1, <1>2
  <1>5. call' \in [Threads -> {Idle, "counting", "quick", "slow"}]
    BY <1>1, <1>2
  <1>6. call'[t] = "counting" => call[t] = "counting"
    BY <1>4 DEF Idle
  <1>7. call'[t] = Idle <=> rest'[t] = <<>>
    BY <1>1, <1>3, <1>4
  <1> QED BY <1>1, <1>3, <1>4, <1>5, <1>6, <1>7 DEF Control

\* The steps of a thread do not disturb what others follow, if it takes and
\* gives back only its own locks.
LEMMA OthersHold ==
    ASSUME NEW t \in Threads, NEW u \in Threads \ {t},
           \A l \in Locks: owner'[l] = owner[l]
                           \/ (owner[l] \in {t, Nobody} /\ owner'[l] \in {t, Nobody})
    PROVE  /\ HeldBy(u)' = HeldBy(u)
           /\ \A f: f[1] \in Locks /\ owner[f[1]] = u => owner'[f[1]] = u
           /\ UNCHANGED <<up, counts>> => \A f: Known(u, f) => Known(u, f)'
  <1>1. u # Nobody
    BY ThreadAssumption
  <1>2. \A l \in Locks: owner'[l] = u <=> owner[l] = u
    BY <1>1
  <1>3. HeldBy(u)' = HeldBy(u)
    BY <1>2 DEF HeldBy
  <1>4. UNCHANGED <<up, counts>> => \A f: Known(u, f) => Known(u, f)'
    BY <1>2 DEF Known
  <1> QED BY <1>2, <1>3, <1>4

LEMMA AllFollow ==
    ASSUME NEW t \in Threads, \A u \in Threads: Follows(u), Follows(t)',
           \A u \in Threads \ {t}:
               /\ rest'[u] = rest[u] /\ call'[u] = call[u] /\ mine'[u].of = mine[u].of
               /\ HeldBy(u)' = HeldBy(u) /\ \A f: Known(u, f) => Known(u, f)'
    PROVE  \A u \in Threads: Follows(u)'
  <1> SUFFICES ASSUME NEW u \in Threads, u # t PROVE Follows(u)'
    OBVIOUS
  <1> QED BY FollowsStill

\* The cells are as they were, and no attach call gives `inner` back.
LEMMA CellsStill ==
    ASSUME Cells, UNCHANGED <<mine, radio, datasetVars>>,
           \A t \in Threads, r \in Radios:
               owner["inner"] = t /\ mine[t].of = r => owner'["inner"] = t
    PROVE  Cells'
  <1>1. UNCHANGED <<mine, radio, tables, cell, served>>
    BY DEF datasetVars
  <1>2. FaceMade'
    BY <1>1 DEF Cells, FaceMade
  <1>3. SeamOfNewestFace'
    <2> SUFFICES ASSUME NEW r \in Radios, radio[r].seam # radio[r].newest
                 PROVE  \E t \in Threads: /\ owner'["inner"] = t
                                          /\ mine[t] = [of |-> r, id |-> radio[r].newest]
      BY <1>1 DEF SeamOfNewestFace
    <2>1. PICK t \in Threads: /\ owner["inner"] = t
                              /\ mine[t] = [of |-> r, id |-> radio[r].newest]
      BY DEF Cells, SeamOfNewestFace
    <2> QED BY <2>1
  <1>4. DatasetMade' /\ NotItself' /\ DatasetServed'
    BY <1>1 DEF Cells, DatasetMade, NotItself, DatasetServed
  <1> QED BY <1>2, <1>3, <1>4 DEF Cells

\* EngineUp is a fact about `inner` and about the engine alone.
LEMMA EngineFact ==
    /\ EngineUp[1] = "inner" /\ "inner" \in Locks
    /\ \A h \in Handles: /\ EngineUp # <<ConsumerLock[h], "received">>
                         /\ EngineUp # <<ConsumerLock[h], "total">>
  <1>1. EngineUp[1] = "inner" /\ EngineUp[2] = "up"
    BY DEF EngineUp
  <1>2. \A h \in Handles: <<ConsumerLock[h], "received">>[2] = "received"
                          /\ <<ConsumerLock[h], "total">>[2] = "total"
    OBVIOUS
  <1> QED BY <1>1, <1>2 DEF Locks

LEMMA KnowsEngine ==
    ASSUME NEW t, owner["inner"] = t, up
    PROVE  Known(t, EngineUp)
  BY EngineFact DEF Known

----------------------------------------------------------------------------
(* The actions preserve the invariant                                      *)

\* Waits and steps on cells of which nothing is required.
Quiet == {"use", "net", "try", "ask", "serve", "take_spare", "connect"}

LEMMA QuietStep ==
    ASSUME IInv, NEW t \in Threads, rest[t] # <<>>, Head(rest[t]).op \in Quiet, Continue(t),
           UNCHANGED <<owner, mine, up, radio, datasetVars, counts>>,
           spare' \in BOOLEAN, conn' \in BOOLEAN
    PROVE  IInv'
  <1> DEFINE e == Head(rest[t])
  <1>0. /\ TypeOK /\ (\A u \in Threads: Follows(u)) /\ Cells
        /\ GoOn(t, Tail(rest[t])) /\ UNCHANGED calls
    BY DEF IInv, Continue
  <1>1. Control(t, Tail(rest[t]))
    BY <1>0, ControlAfter
  <1>2. TypeOK'
    BY <1>0, <1>1 DEF TypeOK, datasetVars, Control
  <1>3. PICK y: /\ Matches(t, y) /\ \A p \in After(y, e, Tail(rest[t])): Good(p[1], p[2])
    BY <1>0, NextStep
  <1>4. e.op \in Quiet
    OBVIOUS
  <1> HIDE DEF e
  <1>5. Held(y, e) = y.held /\ Knows(y, e) = y.knows /\ Makes(y, e) = y.makes /\ e.op # "if"
    BY <1>4 DEF Held, Knows, Makes, Quiet
  <1>6. HeldBy(t)' = Held(y, e) /\ mine'[t].of = Makes(y, e)
    BY <1>3, <1>5 DEF Matches, HeldBy
  <1>7. \A f \in Knows(y, e): Known(t, f)'
    BY <1>3, <1>5 DEF Matches, Known
  <1>8. Follows(t)'
    BY <1>1, <1>3, <1>5, <1>6, <1>7, FollowsStep DEF Control
  <1>9. ASSUME NEW u \in Threads \ {t}
        PROVE  HeldBy(u)' = HeldBy(u) /\ \A f: Known(u, f) => Known(u, f)'
    BY DEF HeldBy, Known
  <1>10. \A u \in Threads: Follows(u)'
    BY <1>0, <1>1, <1>8, <1>9, AllFollow DEF Control
  <1>11. Cells'
    BY <1>0, CellsStill
  <1> QED BY <1>2, <1>10, <1>11 DEF IInv

\* A thread that returns early has made nothing that it has not stored.
LEMMA EarlyReturn ==
    ASSUME IInv, NEW t \in Threads, rest[t] # <<>>, Head(rest[t]).op \in {"need", "try"},
           Return(t), Unaffected
    PROVE  IInv'
  <1> DEFINE e == Head(rest[t])
  <1>0. /\ TypeOK /\ (\A u \in Threads: Follows(u)) /\ Cells
        /\ GoOn(t, <<>>) /\ UNCHANGED calls
        /\ owner' = [l \in Locks |-> IF owner[l] = t THEN Nobody ELSE owner[l]]
        /\ UNCHANGED <<mine, up, spare, conn, radio, datasetVars, counts>>
    BY DEF IInv, Return, Unaffected, engineVars
  <1>1. Control(t, <<>>)
    BY <1>0, ControlAfter
  <1>2. owner \in [Locks -> Threads \cup {Nobody}] /\ owner' \in [Locks -> Threads \cup {Nobody}]
    BY <1>0 DEF TypeOK
  <1>3. TypeOK'
    BY <1>0, <1>1, <1>2 DEF TypeOK, datasetVars, Control
  <1>4. PICK y: Matches(t, y) /\ Allowed(y, e)
    BY <1>0, NextStep
  <1>5. mine[t].of = ""
    BY <1>4 DEF Matches, Allowed
  <1>6. \A l \in Locks: owner'[l] # t
    BY <1>0, ThreadAssumption
  <1>7. HeldBy(t)' = {} /\ call'[t] = Idle /\ mine'[t].of = ""
    BY <1>0, <1>1, <1>5, <1>6 DEF HeldBy, Control
  <1>8. Follows(t)'
    BY <1>1, <1>7, ReturnedFollows DEF Control
  <1>9. ASSUME NEW u \in Threads \ {t}
        PROVE  HeldBy(u)' = HeldBy(u) /\ \A f: Known(u, f) => Known(u, f)'
    <2>1. \A l \in Locks: owner'[l] = owner[l]
                          \/ (owner[l] \in {t, Nobody} /\ owner'[l] \in {t, Nobody})
      BY <1>0
    <2>2. UNCHANGED <<up, counts>>
      BY <1>0
    <2> QED BY <2>1, <2>2, OthersHold
  <1>10. \A u \in Threads: Follows(u)'
    BY <1>0, <1>1, <1>8, <1>9, AllFollow DEF Control
  <1>11. Cells'
    <2>1. ASSUME NEW u \in Threads, NEW r \in Radios, owner["inner"] = u, mine[u].of = r
          PROVE  owner'["inner"] = u
      <3>1. u # t
        BY <1>5, <2>1 DEF Radios
      <3> QED BY <1>0, <2>1, <3>1, EngineFact
    <2> QED BY <1>0, <2>1, CellsStill
  <1> QED BY <1>3, <1>10, <1>11 DEF IInv

LEMMA CallStep ==
    ASSUME IInv, NEW t \in Threads, NEW c \in MayCall[t], Call(t, c)
    PROVE  IInv'
  <1>0. /\ TypeOK /\ (\A u \in Threads: Follows(u)) /\ Cells
        /\ rest[t] = <<>> /\ calls < MaxCalls /\ calls' = calls + 1
        /\ rest' = [rest EXCEPT ![t] = Script(c)]
        /\ call' = [call EXCEPT ![t] = Kind(c)]
        /\ UNCHANGED <<owner, mine, up, spare, conn, radio, datasetVars, counts>>
    BY DEF IInv, Call, Unaffected, engineVars
  <1>1. c \in Calls \cup Ids \cup {Self}
    BY CallAssumption
  <1>2. Script(c) # <<>> /\ Kind(c) \in {"counting", "quick", "slow"} /\ Kind(c) # Idle
    BY <1>1, ScriptIsNotEmpty DEF Kind, Idle
  <1>3. /\ DOMAIN rest' = Threads /\ DOMAIN call' = Threads
        /\ rest'[t] = Script(c) /\ call'[t] = Kind(c)
        /\ \A u \in Threads \ {t}: rest'[u] = rest[u] /\ call'[u] = call[u]
    BY <1>0 DEF TypeOK
  <1>4. \A u \in Threads: call'[u] = Idle <=> rest'[u] = <<>>
    BY <1>0, <1>2, <1>3 DEF TypeOK
  <1>5. call' \in [Threads -> {Idle, "counting", "quick", "slow"}]
    BY <1>0, <1>2 DEF TypeOK
  <1>6. calls' \in 0 .. MaxCalls
    <2>1. calls \in 0 .. MaxCalls /\ calls < MaxCalls /\ calls' = calls + 1
      BY <1>0 DEF TypeOK
    <2>2. MaxCalls \in Nat
      BY CallAssumption
    <2> QED BY <2>1, <2>2
  <1>7. TypeOK'
    BY <1>0, <1>3, <1>4, <1>5, <1>6 DEF TypeOK, datasetVars
  <1>8. HeldBy(t) = {} /\ mine[t].of = ""
    BY <1>0, IdleHoldsNothing
  <1> DEFINE x == Before(c)
  <1>9. x.held = {} /\ x.knows = {} /\ x.makes = ""
        /\ x.zero = IF Kind(c) = "counting" THEN "due" ELSE "no"
    BY DEF Before, In, View
  <1>10. Good(x, Script(c))
    BY <1>1, ScriptIsGood
  <1> HIDE DEF x
  <1>11. HeldBy(t)' = HeldBy(t) /\ mine'[t].of = mine[t].of
    BY <1>0 DEF HeldBy
  <1>12. Follows(t)'
    <2>1. Good(x, rest'[t])
      BY <1>3, <1>10
    <2>2. \A f \in x.knows: Known(t, f)'
      BY <1>9
    <2>3. x.zero \in {"no", "due", "done"} /\ (call'[t] = "counting" => x.zero # "no")
      BY <1>3, <1>9
    <2>4. x.held = HeldBy(t)' /\ x.makes = mine'[t].of
      BY <1>8, <1>9, <1>11
    <2> QED BY <2>1, <2>2, <2>3, <2>4, FollowsNext
  <1>13. ASSUME NEW u \in Threads \ {t}
         PROVE  HeldBy(u)' = HeldBy(u) /\ \A f: Known(u, f) => Known(u, f)'
    BY <1>0 DEF HeldBy, Known
  <1>14. \A u \in Threads: Follows(u)'
    BY <1>0, <1>3, <1>12, <1>13, AllFollow
  <1>15. Cells'
    BY <1>0, CellsStill
  <1> QED BY <1>7, <1>14, <1>15 DEF IInv

LEMMA AcquireStep ==
    ASSUME IInv, NEW t \in Threads, Acquire(t)
    PROVE  IInv'
  <1> DEFINE e == Head(rest[t])
  <1>0. /\ TypeOK /\ (\A u \in Threads: Follows(u)) /\ Cells
        /\ rest[t] # <<>> /\ e.op = "lock" /\ owner[e.on] = Nobody
        /\ owner' = [owner EXCEPT ![e.on] = t]
        /\ GoOn(t, Tail(rest[t])) /\ UNCHANGED calls
        /\ UNCHANGED <<mine, up, spare, conn, radio, datasetVars, counts>>
    BY DEF IInv, Acquire, At, On, Continue, Unaffected, engineVars
  <1> HIDE DEF e
  <1>1. Control(t, Tail(rest[t]))
    BY <1>0, ControlAfter
  <1>2. owner \in [Locks -> Threads \cup {Nobody}] /\ owner' \in [Locks -> Threads \cup {Nobody}]
    BY <1>0 DEF TypeOK
  <1>3. TypeOK'
    BY <1>0, <1>1, <1>2 DEF TypeOK, datasetVars, Control
  <1>4. PICK y: /\ Matches(t, y) /\ Allowed(y, e)
                /\ \A p \in After(y, e, Tail(rest[t])): Good(p[1], p[2])
    BY <1>0, NextStep DEF e
  <1>5. e.on \in Locks /\ t # Nobody
    BY <1>0, <1>4, ThreadAssumption DEF Allowed
  <1>6. owner'[e.on] = t /\ \A l \in Locks: l # e.on => owner'[l] = owner[l]
    BY <1>0, <1>2, <1>5
  <1>7. Held(y, e) = y.held \cup {e.on} /\ Knows(y, e) = y.knows /\ Makes(y, e) = y.makes
        /\ e.op # "if"
    BY <1>0 DEF Held, Knows, Makes
  <1>8. HeldBy(t)' = Held(y, e) /\ mine'[t].of = Makes(y, e)
    <2>1. \A l \in Locks: owner'[l] = t <=> l = e.on \/ owner[l] = t
      BY <1>5, <1>6
    <2>2. HeldBy(t)' = HeldBy(t) \cup {e.on}
      BY <1>5, <2>1 DEF HeldBy
    <2>3. y.held = HeldBy(t) /\ y.makes = mine[t].of
      BY <1>4 DEF Matches
    <2> QED BY <1>0, <1>7, <2>2, <2>3
  <1>9. \A f \in Knows(y, e): Known(t, f)'
    <2>1. \A f: Known(t, f) => f[1] # e.on
      BY <1>0, <1>5 DEF Known
    <2>2. \A f: Known(t, f) => Known(t, f)'
      BY <1>0, <1>6, <2>1 DEF Known
    <2> QED BY <1>4, <1>7, <2>2 DEF Matches
  <1>10. Follows(t)'
    BY <1>1, <1>4, <1>7, <1>8, <1>9, FollowsStep DEF Control
  <1>11. ASSUME NEW u \in Threads \ {t}
         PROVE  HeldBy(u)' = HeldBy(u) /\ \A f: Known(u, f) => Known(u, f)'
    <2>1. \A l \in Locks: owner'[l] = owner[l]
                          \/ (owner[l] \in {t, Nobody} /\ owner'[l] \in {t, Nobody})
      BY <1>0, <1>6
    <2>2. UNCHANGED <<up, counts>>
      BY <1>0
    <2> QED BY <2>1, <2>2, OthersHold
  <1>12. \A u \in Threads: Follows(u)'
    BY <1>0, <1>1, <1>10, <1>11, AllFollow DEF Control
  <1>13. Cells'
    <2>1. ASSUME NEW u \in Threads, NEW r \in Radios, owner["inner"] = u, mine[u].of = r
          PROVE  owner'["inner"] = u
      <3>1. e.on # "inner"
        BY <1>0, <2>1, ThreadAssumption
      <3> QED BY <1>6, <2>1, <3>1, EngineFact
    <2> QED BY <1>0, <2>1, CellsStill
  <1> QED BY <1>3, <1>12, <1>13 DEF IInv

LEMMA ReleaseStep ==
    ASSUME IInv, NEW t \in Threads, Release(t)
    PROVE  IInv'
  <1> DEFINE e == Head(rest[t])
  <1>0. /\ TypeOK /\ (\A u \in Threads: Follows(u)) /\ Cells
        /\ rest[t] # <<>> /\ e.op = "unlock"
        /\ owner' = [owner EXCEPT ![e.on] = Nobody]
        /\ GoOn(t, Tail(rest[t])) /\ UNCHANGED calls
        /\ UNCHANGED <<mine, up, spare, conn, radio, datasetVars, counts>>
    BY DEF IInv, Release, At, On, Continue, Unaffected, engineVars
  <1> HIDE DEF e
  <1>1. Control(t, Tail(rest[t]))
    BY <1>0, ControlAfter
  <1>2. owner \in [Locks -> Threads \cup {Nobody}] /\ owner' \in [Locks -> Threads \cup {Nobody}]
    BY <1>0 DEF TypeOK
  <1>3. TypeOK'
    BY <1>0, <1>1, <1>2 DEF TypeOK, datasetVars, Control
  <1>4. PICK y: /\ Matches(t, y) /\ Allowed(y, e)
                /\ \A p \in After(y, e, Tail(rest[t])): Good(p[1], p[2])
    BY <1>0, NextStep DEF e
  <1>5. e.on \in Locks /\ owner[e.on] = t /\ t # Nobody
        /\ (e.on = "inner" => mine[t].of \notin Radios)
    BY <1>0, <1>4, ThreadAssumption DEF Allowed, Matches, HeldBy
  <1>6. owner'[e.on] = Nobody /\ \A l \in Locks: l # e.on => owner'[l] = owner[l]
    BY <1>0, <1>2, <1>5
  <1>7. Held(y, e) = y.held \ {e.on} /\ Knows(y, e) = {f \in y.knows: f[1] # e.on}
        /\ Makes(y, e) = y.makes /\ e.op # "if"
    BY <1>0 DEF Held, Knows, Makes
  <1>8. HeldBy(t)' = Held(y, e) /\ mine'[t].of = Makes(y, e)
    <2>1. \A l \in Locks: owner'[l] = t <=> l # e.on /\ owner[l] = t
      BY <1>5, <1>6
    <2>2. HeldBy(t)' = HeldBy(t) \ {e.on}
      BY <1>5, <2>1 DEF HeldBy
    <2>3. y.held = HeldBy(t) /\ y.makes = mine[t].of
      BY <1>4 DEF Matches
    <2> QED BY <1>0, <1>7, <2>2, <2>3
  <1>9. \A f \in Knows(y, e): Known(t, f)'
    <2>1. ASSUME NEW f, Known(t, f), f[1] # e.on
          PROVE  Known(t, f)'
      BY <1>0, <1>6, <2>1 DEF Known
    <2> QED BY <1>4, <1>7, <2>1 DEF Matches
  <1>10. Follows(t)'
    BY <1>1, <1>4, <1>7, <1>8, <1>9, FollowsStep DEF Control
  <1>11. ASSUME NEW u \in Threads \ {t}
         PROVE  HeldBy(u)' = HeldBy(u) /\ \A f: Known(u, f) => Known(u, f)'
    <2>1. \A l \in Locks: owner'[l] = owner[l]
                          \/ (owner[l] \in {t, Nobody} /\ owner'[l] \in {t, Nobody})
      BY <1>5, <1>6
    <2>2. UNCHANGED <<up, counts>>
      BY <1>0
    <2> QED BY <2>1, <2>2, OthersHold
  <1>12. \A u \in Threads: Follows(u)'
    BY <1>0, <1>1, <1>10, <1>11, AllFollow DEF Control
  <1>13. Cells'
    <2>1. ASSUME NEW u \in Threads, NEW r \in Radios, owner["inner"] = u, mine[u].of = r
          PROVE  owner'["inner"] = u
      <3>1. e.on # "inner"
        BY <1>5, <2>1
      <3> QED BY <1>6, <2>1, <3>1, EngineFact
    <2> QED BY <1>0, <2>1, CellsStill
  <1> QED BY <1>3, <1>12, <1>13 DEF IInv

LEMMA BranchStep ==
    ASSUME IInv, NEW t \in Threads, Branch(t)
    PROVE  IInv'
  <1> DEFINE e == Head(rest[t])
             s == Tail(rest[t])
  <1>0. /\ TypeOK /\ (\A u \in Threads: Follows(u)) /\ Cells
        /\ rest[t] # <<>> /\ e.op = "if" /\ UNCHANGED calls
        /\ UNCHANGED <<owner, mine, up, spare, conn, radio, datasetVars, counts>>
    BY DEF IInv, Branch, At, On, Unaffected, engineVars
  <1>1. PICK yes \in IF e.on = "chance" THEN BOOLEAN ELSE {Holds(e.on)}:
             GoOn(t, (IF yes THEN e.yes ELSE e.no) \o s)
    BY DEF Branch, On
  <1>2. yes /\ e.on = "up" => up
    BY <1>1 DEF Holds
  <1> DEFINE next == (IF yes THEN e.yes ELSE e.no) \o s
  <1>3. \/ next = e.yes \o s /\ (e.on = "up" => up)
        \/ next = e.no \o s
    BY <1>2
  <1> HIDE DEF e, s, next
  <1>4. Control(t, next)
    <2>1. GoOn(t, next)
      BY <1>1 DEF next
    <2> QED BY <1>0, <2>1, ControlAfter
  <1>5. TypeOK'
    BY <1>0, <1>4 DEF TypeOK, datasetVars, Control
  <1>6. PICK y: /\ Matches(t, y)
                /\ \A p \in After(y, e, s): Good(p[1], p[2])
    BY <1>0, NextStep DEF e, s
  <1>7. Good(Yes(y, e.on), e.yes \o s) /\ Good(y, e.no \o s)
    <2> DEFINE p == <<Yes(y, e.on), e.yes \o s>>
               q == <<y, e.no \o s>>
    <2>1. p \in After(y, e, s) /\ q \in After(y, e, s)
      BY <1>0 DEF After
    <2>2. p[1] = Yes(y, e.on) /\ p[2] = e.yes \o s /\ q[1] = y /\ q[2] = e.no \o s
      OBVIOUS
    <2> HIDE DEF p, q
    <2>3. Good(p[1], p[2]) /\ Good(q[1], q[2])
      BY <1>6, <2>1
    <2> QED BY <2>2, <2>3
  <1>8. HeldBy(t)' = y.held /\ mine'[t].of = y.makes
    BY <1>0, <1>6 DEF Matches, HeldBy
  <1>9. \A f: Known(t, f) => Known(t, f)'
    BY <1>0 DEF Known
  <1>10. y.zero \in {"no", "due", "done"} /\ (call'[t] = "counting" => y.zero # "no")
    BY <1>4, <1>6 DEF Matches, Control
  <1>11. Follows(t)'
    <2>1. CASE next = e.yes \o s /\ (e.on = "up" => up)
      <3> DEFINE x == Yes(y, e.on)
      <3>1. /\ x.held = y.held /\ x.makes = y.makes /\ x.zero = y.zero
            /\ \A f \in x.knows:
                f \in y.knows \/ (f = EngineUp /\ e.on = "up" /\ "inner" \in y.held)
        BY DEF Yes, View
      <3>2. Good(x, rest'[t])
        BY <1>4, <1>7, <2>1 DEF Control
      <3> HIDE DEF x
      <3>3. ASSUME NEW f \in x.knows
            PROVE  Known(t, f)'
        <4>1. CASE f \in y.knows
          BY <1>6, <1>9, <4>1 DEF Matches
        <4>2. CASE f = EngineUp /\ e.on = "up" /\ "inner" \in y.held
          <5>1. owner["inner"] = t /\ up
            BY <1>6, <2>1, <4>2 DEF Matches, HeldBy
          <5> QED BY <1>9, <4>2, <5>1, KnowsEngine
        <4> QED BY <3>1, <4>1, <4>2
      <3> QED BY <1>8, <1>10, <3>1, <3>2, <3>3, FollowsNext
    <2>2. CASE next = e.no \o s
      <3>1. Good(y, rest'[t])
        BY <1>4, <1>7, <2>2 DEF Control
      <3>2. \A f \in y.knows: Known(t, f)'
        BY <1>6, <1>9 DEF Matches
      <3> QED BY <1>8, <1>10, <3>1, <3>2, FollowsNext
    <2> QED BY <1>3, <2>1, <2>2
  <1>12. ASSUME NEW u \in Threads \ {t}
         PROVE  HeldBy(u)' = HeldBy(u) /\ \A f: Known(u, f) => Known(u, f)'
    BY <1>0 DEF HeldBy, Known
  <1>13. \A u \in Threads: Follows(u)'
    BY <1>0, <1>4, <1>11, <1>12, AllFollow DEF Control
  <1>14. Cells'
    BY <1>0, CellsStill
  <1> QED BY <1>5, <1>13, <1>14 DEF IInv

LEMMA NeedStep ==
    ASSUME IInv, NEW t \in Threads, NeedEngine(t)
    PROVE  IInv'
  <1> DEFINE e == Head(rest[t])
  <1>1. CASE ~up /\ Return(t)
    <2>1. rest[t] # <<>> /\ Head(rest[t]).op \in {"need", "try"} /\ Unaffected
      BY DEF NeedEngine, At
    <2> QED BY <1>1, <2>1, EarlyReturn
  <1>2. CASE up /\ Continue(t) /\ UNCHANGED owner
    <2>0. /\ TypeOK /\ (\A u \in Threads: Follows(u)) /\ Cells
          /\ rest[t] # <<>> /\ e.op = "need" /\ up
          /\ GoOn(t, Tail(rest[t])) /\ UNCHANGED calls
          /\ UNCHANGED <<owner, mine, up, spare, conn, radio, datasetVars, counts>>
      BY <1>2 DEF IInv, NeedEngine, At, Continue, Unaffected, engineVars
    <2> HIDE DEF e
    <2>1. Control(t, Tail(rest[t]))
      BY <2>0, ControlAfter
    <2>2. TypeOK'
      BY <2>0, <2>1 DEF TypeOK, datasetVars, Control
    <2>3. PICK y: /\ Matches(t, y) /\ Allowed(y, e)
                  /\ \A p \in After(y, e, Tail(rest[t])): Good(p[1], p[2])
      BY <2>0, NextStep DEF e
    <2>4. Held(y, e) = y.held /\ Knows(y, e) = y.knows \cup {EngineUp} /\ Makes(y, e) = y.makes
          /\ e.op # "if"
      BY <2>0 DEF Held, Knows, Makes
    <2>5. HeldBy(t)' = Held(y, e) /\ mine'[t].of = Makes(y, e)
      BY <2>0, <2>3, <2>4 DEF Matches, HeldBy
    <2>6. \A u \in Threads: \A f: Known(u, f) => Known(u, f)'
      BY <2>0 DEF Known
    <2>7. Known(t, EngineUp)
      <3>1. owner["inner"] = t
        BY <2>0, <2>3 DEF Allowed, Matches, HeldBy
      <3> QED BY <2>0, <3>1, KnowsEngine
    <2>8. \A f \in Knows(y, e): Known(t, f)'
      BY <2>3, <2>4, <2>6, <2>7 DEF Matches
    <2>9. Follows(t)'
      BY <2>1, <2>3, <2>4, <2>5, <2>8, FollowsStep DEF Control
    <2>10. \A u \in Threads \ {t}: HeldBy(u)' = HeldBy(u)
      BY <2>0 DEF HeldBy
    <2>11. \A u \in Threads: Follows(u)'
      BY <2>0, <2>1, <2>6, <2>9, <2>10, AllFollow DEF Control
    <2>12. Cells'
      BY <2>0, CellsStill
    <2> QED BY <2>2, <2>11, <2>12 DEF IInv
  <1> QED BY <1>1, <1>2 DEF NeedEngine

\* The steps that wait, and those on the spare handle and the connection.
LEMMA WaitStep ==
    ASSUME IInv, NEW t \in Threads,
           \/ UseEngine(t) \/ NetworkDone(t) \/ TryStep(t) \/ Answer(t) \/ ServeEnds(t)
           \/ TakeSpare(t) \/ Connect(t)
    PROVE  IInv'
  <1>0. TypeOK
    BY DEF IInv
  <1>1. CASE TryStep(t) /\ Return(t)
    <2>1. rest[t] # <<>> /\ Head(rest[t]).op \in {"need", "try"} /\ Unaffected
      BY <1>1 DEF TryStep, At
    <2> QED BY <1>1, <2>1, EarlyReturn
  <1>2. CASE \/ UseEngine(t) \/ NetworkDone(t) \/ Answer(t) \/ ServeEnds(t)
             \/ TryStep(t) /\ Continue(t) /\ UNCHANGED owner
    <2>1. /\ rest[t] # <<>> /\ Head(rest[t]).op \in Quiet /\ Continue(t)
          /\ UNCHANGED <<owner, mine, up, radio, datasetVars, counts>>
      BY <1>2 DEF UseEngine, NetworkDone, Answer, ServeEnds, TryStep, At, Quiet, Unaffected,
         engineVars
    <2>2. spare' \in BOOLEAN /\ conn' \in BOOLEAN
      BY <1>0, <1>2 DEF UseEngine, NetworkDone, Answer, ServeEnds, TryStep, Unaffected,
         engineVars, TypeOK
    <2> QED BY <2>1, <2>2, QuietStep
  <1>3. CASE TakeSpare(t) \/ Connect(t)
    <2>1. /\ rest[t] # <<>> /\ Head(rest[t]).op \in Quiet /\ Continue(t)
          /\ UNCHANGED <<owner, mine, up, radio, datasetVars, counts>>
      BY <1>3 DEF TakeSpare, Connect, At, Quiet
    <2>2. spare' \in BOOLEAN /\ conn' \in BOOLEAN
      BY <1>0, <1>3 DEF TakeSpare, Connect, TypeOK
    <2> QED BY <2>1, <2>2, QuietStep
  <1> QED BY <1>1, <1>2, <1>3 DEF TryStep

\* The engine that is taken was there under `inner`, which no other thread holds.
LEMMA TakeEngineStep ==
    ASSUME IInv, NEW t \in Threads, TakeEngine(t)
    PROVE  IInv'
  <1> DEFINE e == Head(rest[t])
  <1>0. /\ TypeOK /\ (\A u \in Threads: Follows(u)) /\ Cells
        /\ rest[t] # <<>> /\ e.op = "take_engine" /\ up' = FALSE
        /\ GoOn(t, Tail(rest[t])) /\ UNCHANGED calls
        /\ UNCHANGED <<owner, mine, spare, conn, radio, datasetVars, counts>>
    BY DEF IInv, TakeEngine, At, Continue
  <1> HIDE DEF e
  <1>1. Control(t, Tail(rest[t]))
    BY <1>0, ControlAfter
  <1>2. TypeOK'
    BY <1>0, <1>1 DEF TypeOK, datasetVars, Control
  <1>3. PICK y: /\ Matches(t, y) /\ Allowed(y, e)
                /\ \A p \in After(y, e, Tail(rest[t])): Good(p[1], p[2])
    BY <1>0, NextStep DEF e
  <1>4. owner["inner"] = t
    BY <1>0, <1>3 DEF Allowed, Matches, HeldBy
  <1>5. Held(y, e) = y.held /\ Knows(y, e) = y.knows \ {EngineUp} /\ Makes(y, e) = y.makes
        /\ e.op # "if"
    BY <1>0 DEF Held, Knows, Makes
  <1>6. HeldBy(t)' = Held(y, e) /\ mine'[t].of = Makes(y, e)
    BY <1>0, <1>3, <1>5 DEF Matches, HeldBy
  <1>7. \A u, f: f # EngineUp /\ Known(u, f) => Known(u, f)'
    BY <1>0 DEF Known
  <1>8. \A f \in Knows(y, e): Known(t, f)'
    BY <1>3, <1>5, <1>7 DEF Matches
  <1>9. Follows(t)'
    BY <1>1, <1>3, <1>5, <1>6, <1>8, FollowsStep DEF Control
  <1>10. ASSUME NEW u \in Threads \ {t}
         PROVE  HeldBy(u)' = HeldBy(u) /\ \A f: Known(u, f) => Known(u, f)'
    <2>1. ~Known(u, EngineUp)
      BY <1>4, EngineFact DEF Known
    <2> QED BY <1>0, <1>7, <2>1 DEF HeldBy
  <1>11. \A u \in Threads: Follows(u)'
    BY <1>0, <1>1, <1>9, <1>10, AllFollow DEF Control
  <1>12. Cells'
    BY <1>0, CellsStill
  <1> QED BY <1>2, <1>11, <1>12 DEF IInv

\* The counter of a consumer is set by the thread that has it locked: to
\* nothing, or to its own segments.
LEMMA CountStepKeeps ==
    ASSUME IInv, NEW t \in Threads, CountStep(t)
    PROVE  IInv'
  <1> DEFINE e == Head(rest[t])
             h == e.on
  <1>0. /\ TypeOK /\ (\A u \in Threads: Follows(u)) /\ Cells
        /\ rest[t] # <<>> /\ e.op \in Counters
        /\ GoOn(t, Tail(rest[t])) /\ UNCHANGED calls
        /\ UNCHANGED <<owner, mine, up, spare, conn, radio, datasetVars>>
    BY DEF IInv, CountStep, At, Continue, Counters, engineVars
  <1>1. \/ e.op = "zero_received" /\ counts' = [counts EXCEPT ![h].received = Nobody]
        \/ e.op = "zero_total" /\ counts' = [counts EXCEPT ![h].total = Nobody]
        \/ e.op = "count_total" /\ counts' = [counts EXCEPT ![h].total = t]
        \/ e.op = "count_received" /\ counts' = [counts EXCEPT ![h].received = t]
    BY DEF CountStep, At, On
  <1> HIDE DEF e
  <1>2. Control(t, Tail(rest[t]))
    BY <1>0, ControlAfter
  <1>3. PICK y: /\ Matches(t, y) /\ Allowed(y, e)
                /\ \A p \in After(y, e, Tail(rest[t])): Good(p[1], p[2])
    BY <1>0, NextStep DEF e
  <1>4. h \in Handles /\ owner[ConsumerLock[h]] = t
    BY <1>0, <1>3 DEF Allowed, Matches, HeldBy
  <1>5. counts \in [Handles -> [received: Threads \cup {Nobody}, total: Threads \cup {Nobody}]]
    BY <1>0 DEF TypeOK
  <1>6. /\ counts' \in [Handles -> [received: Threads \cup {Nobody}, total: Threads \cup {Nobody}]]
        /\ \A g \in Handles \ {h}: counts'[g] = counts[g]
        /\ counts'[h].received \in {counts[h].received, t, Nobody}
        /\ counts'[h].total \in {counts[h].total, t, Nobody}
        /\ e.op = "zero_received" => counts'[h].received = Nobody
        /\ e.op = "zero_total" => counts'[h].total = Nobody
    BY <1>1, <1>4, <1>5
  <1> HIDE DEF h
  <1>7. TypeOK'
    BY <1>0, <1>2, <1>6 DEF TypeOK, datasetVars, Control
  <1>8. /\ Held(y, e) = y.held /\ Makes(y, e) = y.makes /\ e.op # "if"
        /\ \A f \in Knows(y, e):
            \/ f \in y.knows
            \/ e.op = "zero_received" /\ f = <<ConsumerLock[h], "received">>
            \/ e.op = "zero_total" /\ f = <<ConsumerLock[h], "total">>
    BY <1>0 DEF Held, Knows, Makes, Counters, h
  <1>9. HeldBy(t)' = Held(y, e) /\ mine'[t].of = Makes(y, e)
    BY <1>0, <1>3, <1>8 DEF Matches, HeldBy
  <1>10. \A f: Known(t, f) => Known(t, f)'
    BY <1>0, <1>6 DEF Known
  <1>11. ASSUME NEW f \in Knows(y, e)
         PROVE  Known(t, f)'
    <2>1. CASE f \in y.knows
      BY <1>3, <1>10, <2>1 DEF Matches
    <2> DEFINE received(g) == <<ConsumerLock[g], "received">>
               total(g)    == <<ConsumerLock[g], "total">>
    <2>2. \A g \in Handles: /\ received(g)[1] = ConsumerLock[g] /\ received(g)[2] = "received"
                            /\ total(g)[1] = ConsumerLock[g] /\ total(g)[2] = "total"
                            /\ EngineUp # received(g) /\ EngineUp # total(g)
      BY EngineFact
    <2>3. EngineUp # f /\ f \in {received(h), total(h)} => f[1] \in Locks /\ owner[f[1]] = t
      BY <1>4, <2>2, ConsumerLocks
    <2> HIDE DEF received, total
    <2>4. \A g \in Handles: received(g) # total(h) /\ total(g) # received(h)
                            /\ (received(g) = received(h) \/ total(g) = total(h) => g = h)
      BY <1>4, <2>2, ConsumerLocks
    <2>5. CASE e.op = "zero_received" /\ f = received(h)
      <3>1. \A g \in Handles: /\ f = received(g) => counts'[g].received \in {t, Nobody}
                              /\ f # total(g)
        BY <1>6, <2>4, <2>5
      <3> QED BY <1>0, <1>4, <2>2, <2>3, <2>5, <3>1 DEF Known, received, total
    <2>6. CASE e.op = "zero_total" /\ f = total(h)
      <3>1. \A g \in Handles: /\ f = total(g) => counts'[g].total \in {t, Nobody}
                              /\ f # received(g)
        BY <1>6, <2>4, <2>6
      <3> QED BY <1>0, <1>4, <2>2, <2>3, <2>6, <3>1 DEF Known, received, total
    <2> QED BY <1>8, <2>1, <2>5, <2>6 DEF received, total
  <1>12. Follows(t)'
    BY <1>2, <1>3, <1>8, <1>9, <1>11, FollowsStep DEF Control
  <1>13. ASSUME NEW u \in Threads \ {t}
         PROVE  HeldBy(u)' = HeldBy(u) /\ \A f: Known(u, f) => Known(u, f)'
    <2>1. ASSUME NEW f, Known(u, f)
          PROVE  Known(u, f)'
      <3>1. f # <<ConsumerLock[h], "received">> /\ f # <<ConsumerLock[h], "total">>
        <4>1. f[1] # ConsumerLock[h]
          BY <1>4, <2>1 DEF Known
        <4> QED BY <4>1
      <3> QED BY <1>0, <1>6, <2>1, <3>1 DEF Known
    <2> QED BY <1>0, <2>1 DEF HeldBy
  <1>14. \A u \in Threads: Follows(u)'
    BY <1>0, <1>2, <1>12, <1>13, AllFollow DEF Control
  <1>15. Cells'
    BY <1>0, CellsStill
  <1> QED BY <1>7, <1>14, <1>15 DEF IInv

----------------------------------------------------------------------------
(* The steps on the cells: the radios and the dataset                      *)

CellOps == {"add_face", "store_seam", "deliver", "serve_dataset", "store_dataset", "note"}

\* A cell step changes what its thread has made and nothing that is known.
LEMMA CellStep ==
    ASSUME IInv, NEW t \in Threads, rest[t] # <<>>, Head(rest[t]).op \in CellOps, Continue(t),
           UNCHANGED <<owner, up, counts>>,
           \A u \in Threads \ {t}: mine'[u].of = mine[u].of,
           \A y: y.makes = mine[t].of => mine'[t].of = Makes(y, Head(rest[t]))
    PROVE  /\ DOMAIN rest' = Threads /\ DOMAIN call' = Threads /\ UNCHANGED calls
           /\ \A u \in Threads: call'[u] = Idle <=> rest'[u] = <<>>
           /\ call' \in [Threads -> {Idle, "counting", "quick", "slow"}]
           /\ \A u \in Threads: Follows(u)'
  <1> DEFINE e == Head(rest[t])
  <1>0. /\ TypeOK /\ (\A u \in Threads: Follows(u))
        /\ e.op \in CellOps /\ GoOn(t, Tail(rest[t])) /\ UNCHANGED calls
    BY DEF IInv, Continue
  <1>1. Control(t, Tail(rest[t]))
    BY <1>0, ControlAfter
  <1>2. PICK y: /\ Matches(t, y)
                /\ \A p \in After(y, e, Tail(rest[t])): Good(p[1], p[2])
    BY <1>0, NextStep
  <1>3. \A z: z.makes = mine[t].of => mine'[t].of = Makes(z, e)
    OBVIOUS
  <1> HIDE DEF e
  <1>4. Held(y, e) = y.held /\ Knows(y, e) = y.knows /\ e.op # "if"
    BY <1>0 DEF Held, Knows, CellOps
  <1>5. HeldBy(t)' = Held(y, e) /\ mine'[t].of = Makes(y, e)
    BY <1>2, <1>3, <1>4 DEF Matches, HeldBy
  <1>6. \A u \in Threads: HeldBy(u)' = HeldBy(u) /\ \A f: Known(u, f) => Known(u, f)'
    BY DEF HeldBy, Known
  <1>7. \A f \in Knows(y, e): Known(t, f)'
    BY <1>2, <1>4, <1>6 DEF Matches
  <1>8. Follows(t)'
    BY <1>1, <1>2, <1>4, <1>5, <1>7, FollowsStep DEF Control
  <1>9. \A u \in Threads: Follows(u)'
    BY <1>0, <1>1, <1>6, <1>8, AllFollow DEF Control
  <1> QED BY <1>0, <1>1, <1>9 DEF Control

\* What the next step asks of what the thread has made and holds.
LEMMA CellStepAllowed ==
    ASSUME IInv, NEW t \in Threads, rest[t] # <<>>
    PROVE  LET e == Head(rest[t]) IN
           /\ e.op = "add_face" => /\ owner["inner"] = t /\ mine[t].of = "" /\ e.on \in Radios
           /\ e.op = "store_seam" => e.on \in Radios /\ mine[t].of = e.on
           /\ e.op = "deliver" => e.on \in Radios
           /\ e.op = "serve_dataset" => mine[t].of = "" /\ e.on = Self
           /\ e.op = "store_dataset" => mine[t].of = "dataset"
           /\ e.op = "note" => e.on \in Ids \cup {Self}
  <1> DEFINE e == Head(rest[t])
  <1>1. Follows(t)
    BY DEF IInv
  <1>2. PICK y: Matches(t, y) /\ Allowed(y, e)
    BY <1>1, NextStep
  <1> HIDE DEF e
  <1>3. /\ e.op = "add_face" => /\ owner["inner"] = t /\ mine[t].of = "" /\ e.on \in Radios
        /\ e.op = "store_seam" => e.on \in Radios /\ mine[t].of = e.on
        /\ e.op = "deliver" => e.on \in Radios
        /\ e.op = "serve_dataset" => mine[t].of = "" /\ e.on = Self
        /\ e.op = "store_dataset" => mine[t].of = "dataset"
        /\ e.op = "note" => e.on \in Ids \cup {Self}
    BY <1>2 DEF Matches, Allowed, HeldBy
  <1> QED BY <1>3 DEF e

\* The dataset's cells, when only radios change.
LEMMA DatasetStill ==
    ASSUME Cells, UNCHANGED datasetVars,
           \A t \in Threads: mine[t].of = "dataset" \/ mine'[t].of = "dataset" => mine'[t] = mine[t]
    PROVE  DatasetMade' /\ NotItself' /\ DatasetServed'
  <1>0. UNCHANGED <<tables, cell, served>> /\ DatasetMade /\ NotItself /\ DatasetServed
    BY DEF datasetVars, Cells
  <1>1. DatasetMade'
    <2>1. ASSUME NEW t \in Threads, mine'[t].of = "dataset"
          PROVE  mine'[t].id \in served \ {cell}
      BY <1>0, <2>1 DEF DatasetMade
    <2>2. ASSUME NEW t \in Threads, NEW u \in Threads, mine'[t].of = "dataset", mine'[u] = mine'[t]
          PROVE  u = t
      <3>1. mine'[u].of = "dataset"
        BY <2>2
      <3>2. mine'[u] = mine[u] /\ mine'[t] = mine[t]
        BY <2>2, <3>1
      <3> QED BY <1>0, <2>2, <3>2 DEF DatasetMade
    <2> QED BY <1>0, <2>1, <2>2 DEF DatasetMade
  <1>2. NotItself'
    BY <1>0 DEF NotItself
  <1>3. DatasetServed'
    <2>1. ASSUME NEW g \in served \ {cell}
          PROVE  \E t \in Threads: mine'[t] = [of |-> "dataset", id |-> g]
      <3>1. PICK t \in Threads: mine[t] = [of |-> "dataset", id |-> g]
        BY <1>0 DEF DatasetServed
      <3>2. mine[t].of = "dataset"
        BY <3>1
      <3> QED BY <3>1, <3>2
    <2> QED BY <1>0, <2>1 DEF DatasetServed
  <1> QED BY <1>1, <1>2, <1>3

\* The radios' cells, when only the dataset changes.
LEMMA RadiosStill ==
    ASSUME Cells, UNCHANGED <<owner, radio>>,
           \A t \in Threads: mine[t].of \in Radios \/ mine'[t].of \in Radios => mine'[t] = mine[t]
    PROVE  FaceMade' /\ SeamOfNewestFace'
  <1>1. FaceMade'
    BY DEF Cells, FaceMade
  <1>2. SeamOfNewestFace'
    <2> SUFFICES ASSUME NEW r \in Radios, radio[r].seam # radio[r].newest
                 PROVE  \E t \in Threads: /\ owner["inner"] = t
                                          /\ mine'[t] = [of |-> r, id |-> radio[r].newest]
      BY DEF SeamOfNewestFace
    <2>1. PICK t \in Threads: /\ owner["inner"] = t
                              /\ mine[t] = [of |-> r, id |-> radio[r].newest]
      BY DEF Cells, SeamOfNewestFace
    <2>2. mine[t].of \in Radios
      BY <2>1
    <2> QED BY <2>1, <2>2
  <1> QED BY <1>1, <1>2

\* The new face is the newest of its radio, and `inner` is held.
LEMMA AddFaceStep ==
    ASSUME IInv, NEW t \in Threads, AddFace(t)
    PROVE  IInv'
  <1> DEFINE e == Head(rest[t])
             r == e.on
             new == radio[r].newest + 1
  <1>0. /\ TypeOK /\ Cells /\ rest[t] # <<>> /\ e.op = "add_face" /\ Continue(t)
        /\ mine' = [mine EXCEPT ![t] = [of |-> r, id |-> new]]
        /\ radio' = [radio EXCEPT ![r].newest = new, ![r].live = @ \cup {new}]
        /\ UNCHANGED <<owner, up, spare, conn, datasetVars, counts>>
    BY DEF IInv, AddFace, At, On, engineVars
  <1>1. owner["inner"] = t /\ mine[t].of = "" /\ r \in Radios
    BY <1>0, CellStepAllowed
  <1>2. /\ mine \in [Threads -> [of: Radios \cup {"dataset", ""}, id: Nat]]
        /\ radio \in [Radios -> [newest: Nat, seam: Nat, live: SUBSET Nat, queued: SUBSET Nat]]
    BY <1>0 DEF TypeOK
  <1> HIDE DEF e, r
  <1>3. new \in Nat
    <2>1. radio[r] \in [newest: Nat, seam: Nat, live: SUBSET Nat, queued: SUBSET Nat]
      BY <1>1, <1>2
    <2> QED BY <2>1
  <1> HIDE DEF new
  <1>13. [of |-> r, id |-> new] \in [of: Radios \cup {"dataset", ""}, id: Nat]
    BY <1>1, <1>3
  <1>4. /\ mine' \in [Threads -> [of: Radios \cup {"dataset", ""}, id: Nat]]
        /\ mine'[t] = [of |-> r, id |-> new] /\ \A u \in Threads \ {t}: mine'[u] = mine[u]
    BY <1>0, <1>2, <1>13
  <1>5. mine'[t].of = r /\ mine'[t].id = new
    <2>1. mine'[t] = [of |-> r, id |-> new]
      BY <1>4
    <2> QED BY <2>1
  <1>6. /\ radio' \in [Radios -> [newest: Nat, seam: Nat, live: SUBSET Nat, queued: SUBSET Nat]]
        /\ radio'[r].newest = new /\ \A q \in Radios \ {r}: radio'[q] = radio[q]
    BY <1>0, <1>1, <1>2, <1>3
  <1>7. /\ DOMAIN rest' = Threads /\ DOMAIN call' = Threads /\ UNCHANGED calls
        /\ \A u \in Threads: call'[u] = Idle <=> rest'[u] = <<>>
        /\ call' \in [Threads -> {Idle, "counting", "quick", "slow"}]
        /\ \A u \in Threads: Follows(u)'
    <2>1. \A y: y.makes = mine[t].of => mine'[t].of = Makes(y, e)
      BY <1>0, <1>5 DEF Makes, r
    <2>2. e.op \in CellOps
      BY <1>0 DEF CellOps
    <2>3. /\ Head(rest[t]).op \in CellOps
          /\ \A y: y.makes = mine[t].of => mine'[t].of = Makes(y, Head(rest[t]))
      BY <2>1, <2>2 DEF e
    <2> QED BY <1>0, <1>4, <2>3, CellStep
  <1>8. TypeOK'
    BY <1>0, <1>4, <1>6, <1>7 DEF TypeOK, datasetVars
  <1>9. \A u \in Threads: mine[u].of \in Radios => FALSE
    <2> SUFFICES ASSUME NEW u \in Threads, mine[u].of \in Radios PROVE FALSE
      OBVIOUS
    <2>1. owner["inner"] = u
      BY <1>0 DEF Cells, FaceMade
    <2> QED BY <1>1, <2>1 DEF Radios
  <1>10. FaceMade'
    <2> SUFFICES ASSUME NEW u \in Threads, NEW q \in Radios, mine'[u].of = q
                 PROVE  owner["inner"] = u /\ mine'[u].id = radio'[q].newest
      BY <1>0 DEF FaceMade
    <2>1. u = t
      BY <1>4, <1>9
    <2> QED BY <1>1, <1>5, <1>6, <2>1
  <1>11. SeamOfNewestFace'
    <2> SUFFICES ASSUME NEW q \in Radios
                 PROVE  \/ radio'[q].seam = radio'[q].newest
                        \/ \E u \in Threads: /\ owner["inner"] = u
                                             /\ mine'[u] = [of |-> q, id |-> radio'[q].newest]
      BY <1>0 DEF SeamOfNewestFace
    <2>1. CASE q = r
      BY <1>1, <1>4, <1>6, <2>1
    <2>2. CASE q # r
      <3>1. \A u \in Threads: mine[u] # [of |-> q, id |-> radio[q].newest]
        BY <1>9
      <3>2. radio[q].seam = radio[q].newest
        BY <1>0, <3>1 DEF Cells, SeamOfNewestFace
      <3> QED BY <1>6, <2>2, <3>2
    <2> QED BY <2>1, <2>2
  <1>12. DatasetMade' /\ NotItself' /\ DatasetServed'
    <2>1. \A u \in Threads: mine[u].of = "dataset" \/ mine'[u].of = "dataset" => u # t
      BY <1>1, <1>5 DEF Radios
    <2>2. \A u \in Threads: mine[u].of = "dataset" \/ mine'[u].of = "dataset" => mine'[u] = mine[u]
      BY <1>4, <2>1
    <2>3. UNCHANGED datasetVars
      BY <1>0
    <2> QED BY <1>0, <2>2, <2>3, DatasetStill
  <1> QED BY <1>7, <1>8, <1>10, <1>11, <1>12 DEF IInv, Cells

\* The seam that is stored is that of the newest face, as `inner` is still held.
LEMMA StoreSeamStep ==
    ASSUME IInv, NEW t \in Threads, StoreSeam(t)
    PROVE  IInv'
  <1> DEFINE e == Head(rest[t])
             r == e.on
  <1>0. /\ TypeOK /\ Cells /\ rest[t] # <<>> /\ e.op = "store_seam" /\ Continue(t)
        /\ mine' = [mine EXCEPT ![t] = Nothing]
        /\ radio' = [radio EXCEPT ![r].seam = mine[t].id]
        /\ UNCHANGED <<owner, up, spare, conn, datasetVars, counts>>
    BY DEF IInv, StoreSeam, At, On, engineVars
  <1>1. r \in Radios /\ mine[t].of = r
    BY <1>0, CellStepAllowed
  <1>2. /\ mine \in [Threads -> [of: Radios \cup {"dataset", ""}, id: Nat]]
        /\ radio \in [Radios -> [newest: Nat, seam: Nat, live: SUBSET Nat, queued: SUBSET Nat]]
    BY <1>0 DEF TypeOK
  <1>3. mine[t].id \in Nat /\ mine[t].id = radio[r].newest /\ owner["inner"] = t
    BY <1>0, <1>1, <1>2 DEF Cells, FaceMade
  <1>4. Nothing \in [of: Radios \cup {"dataset", ""}, id: Nat] /\ Nothing.of = ""
    BY DEF Nothing
  <1>5. /\ mine' \in [Threads -> [of: Radios \cup {"dataset", ""}, id: Nat]]
        /\ mine'[t].of = "" /\ \A u \in Threads \ {t}: mine'[u] = mine[u]
    BY <1>0, <1>2, <1>4
  <1>6. /\ radio' \in [Radios -> [newest: Nat, seam: Nat, live: SUBSET Nat, queued: SUBSET Nat]]
        /\ radio'[r].newest = radio[r].newest /\ radio'[r].seam = mine[t].id
        /\ \A q \in Radios \ {r}: radio'[q] = radio[q]
    BY <1>0, <1>1, <1>2, <1>3
  <1>7. /\ DOMAIN rest' = Threads /\ DOMAIN call' = Threads /\ UNCHANGED calls
        /\ \A u \in Threads: call'[u] = Idle <=> rest'[u] = <<>>
        /\ call' \in [Threads -> {Idle, "counting", "quick", "slow"}]
        /\ \A u \in Threads: Follows(u)'
    <2>1. \A y: y.makes = mine[t].of => mine'[t].of = Makes(y, e)
      BY <1>0, <1>5 DEF Makes
    <2>2. e.op \in CellOps
      BY <1>0 DEF CellOps
    <2> QED BY <1>0, <1>5, <2>1, <2>2, CellStep
  <1>8. TypeOK'
    BY <1>0, <1>5, <1>6, <1>7 DEF TypeOK, datasetVars
  <1> HIDE DEF e, r
  <1>9. \A u \in Threads: mine[u].of \in Radios => u = t
    BY <1>0, <1>3 DEF Cells, FaceMade
  <1>10. FaceMade'
    <2>1. \A u \in Threads, q \in Radios: mine'[u].of # q
      BY <1>5, <1>9 DEF Radios
    <2> QED BY <2>1 DEF FaceMade
  <1>11. SeamOfNewestFace'
    <2>1. ASSUME NEW q \in Radios
          PROVE  radio'[q].seam = radio'[q].newest
      <3>1. CASE q = r
        BY <1>3, <1>6, <3>1
      <3>2. CASE q # r
        <4>1. \A u \in Threads: mine[u] # [of |-> q, id |-> radio[q].newest]
          BY <1>1, <1>9, <3>2
        <4>2. radio[q].seam = radio[q].newest
          BY <1>0, <4>1 DEF Cells, SeamOfNewestFace
        <4> QED BY <1>6, <3>2, <4>2
      <3> QED BY <3>1, <3>2
    <2> QED BY <2>1 DEF SeamOfNewestFace
  <1>12. DatasetMade' /\ NotItself' /\ DatasetServed'
    <2>1. \A u \in Threads: mine[u].of = "dataset" \/ mine'[u].of = "dataset" => u # t
      BY <1>1, <1>5 DEF Radios
    <2>2. \A u \in Threads: mine[u].of = "dataset" \/ mine'[u].of = "dataset" => mine'[u] = mine[u]
      BY <1>5, <2>1
    <2>3. UNCHANGED datasetVars
      BY <1>0
    <2> QED BY <1>0, <2>2, <2>3, DatasetStill
  <1> QED BY <1>7, <1>8, <1>10, <1>11, <1>12 DEF IInv, Cells

\* Frames change no seam and no newest face.
LEMMA FramesStill ==
    ASSUME Cells, UNCHANGED <<owner, mine, datasetVars>>,
           \A r \in Radios: radio'[r].newest = radio[r].newest /\ radio'[r].seam = radio[r].seam
    PROVE  Cells'
  <1>1. FaceMade' /\ SeamOfNewestFace'
    BY DEF Cells, FaceMade, SeamOfNewestFace
  <1>2. DatasetMade' /\ NotItself' /\ DatasetServed'
    BY DatasetStill
  <1> QED BY <1>1, <1>2 DEF Cells

LEMMA DeliverStep ==
    ASSUME IInv, NEW t \in Threads, Deliver(t)
    PROVE  IInv'
  <1> DEFINE e == Head(rest[t])
             r == e.on
  <1>0. /\ TypeOK /\ Cells /\ rest[t] # <<>> /\ e.op = "deliver" /\ Continue(t)
        /\ radio' = [radio EXCEPT ![r].queued = @ \cup ({radio[r].seam} \cap radio[r].live)]
        /\ UNCHANGED <<owner, mine, up, spare, conn, datasetVars, counts>>
    BY DEF IInv, Deliver, At, On, engineVars
  <1>1. r \in Radios
    BY <1>0, CellStepAllowed
  <1>2. radio \in [Radios -> [newest: Nat, seam: Nat, live: SUBSET Nat, queued: SUBSET Nat]]
    BY <1>0 DEF TypeOK
  <1>3. /\ radio' \in [Radios -> [newest: Nat, seam: Nat, live: SUBSET Nat, queued: SUBSET Nat]]
        /\ \A q \in Radios: radio'[q].newest = radio[q].newest /\ radio'[q].seam = radio[q].seam
    BY <1>0, <1>1, <1>2
  <1>4. /\ DOMAIN rest' = Threads /\ DOMAIN call' = Threads /\ UNCHANGED calls
        /\ \A u \in Threads: call'[u] = Idle <=> rest'[u] = <<>>
        /\ call' \in [Threads -> {Idle, "counting", "quick", "slow"}]
        /\ \A u \in Threads: Follows(u)'
    <2>1. \A y: y.makes = mine[t].of => mine'[t].of = Makes(y, e)
      BY <1>0 DEF Makes
    <2>2. e.op \in CellOps
      BY <1>0 DEF CellOps
    <2>3. \A u \in Threads \ {t}: mine'[u].of = mine[u].of
      BY <1>0
    <2> QED BY <1>0, <2>1, <2>2, <2>3, CellStep
  <1>5. TypeOK'
    BY <1>0, <1>3, <1>4 DEF TypeOK, datasetVars
  <1>6. Cells'
    BY <1>0, <1>3, FramesStill
  <1> QED BY <1>4, <1>5, <1>6 DEF IInv

LEMMA Appended ==
    ASSUME NEW S, NEW s \in Seq(S), NEW e \in S
    PROVE  /\ Append(s, e) \in Seq(S) /\ Len(Append(s, e)) = Len(s) + 1 /\ Len(s) \in Nat
           /\ Append(s, e)[Len(s) + 1] = e
           /\ \A i \in 1 .. Len(s): Append(s, e)[i] = s[i]
  BY AppendProperties, LenProperties

LEMMA SameMade ==
    ASSUME NEW A, NEW B, NEW p \in [of: A, id: B], NEW q \in [of: A, id: B],
           p.of = q.of, p.id = q.id
    PROVE  p = q
  OBVIOUS

\* The new server has a number of its own.
LEMMA ServeDatasetStep ==
    ASSUME IInv, NEW t \in Threads, ServeDataset(t)
    PROVE  IInv'
  <1> DEFINE e == Head(rest[t])
             new == Len(tables) + 1
             Table == [self: {Self}, listed: SUBSET (Ids \cup {Self})]
             fresh == [self |-> e.on, listed |-> {}]
             made == [of |-> "dataset", id |-> new]
  <1>0. /\ TypeOK /\ Cells /\ rest[t] # <<>> /\ e.op = "serve_dataset" /\ Continue(t)
        /\ tables' = Append(tables, fresh) /\ served' = served \cup {new}
        /\ mine' = [mine EXCEPT ![t] = made]
        /\ UNCHANGED <<owner, up, spare, conn, radio, cell, counts>>
    BY DEF IInv, ServeDataset, At, On, engineVars
  <1>1. mine[t].of = "" /\ e.on = Self
    BY <1>0, CellStepAllowed
  <1>2. /\ mine \in [Threads -> [of: Radios \cup {"dataset", ""}, id: Nat]]
        /\ tables \in Seq(Table) /\ cell \in 0 .. Len(tables) /\ served \subseteq 1 .. Len(tables)
    BY <1>0 DEF TypeOK
  <1>3. fresh \in Table /\ fresh.self = Self /\ fresh.listed = {}
    BY <1>1
  <1>4. Len(tables) \in Nat
    BY <1>2, LenProperties
  <1>5. /\ tables' \in Seq(Table) /\ Len(tables') = new
        /\ tables'[new] = fresh /\ \A g \in 1 .. Len(tables): tables'[g] = tables[g]
    <2> HIDE DEF fresh, Table
    <2>1. tables \in Seq(Table) /\ fresh \in Table /\ tables' = Append(tables, fresh)
      BY <1>0, <1>2, <1>3
    <2> QED BY <2>1, Appended
  <1>6. new \in Nat /\ new \notin 1 .. Len(tables) /\ new # cell
        /\ 1 .. new = (1 .. Len(tables)) \cup {new}
    <2>1. Len(tables) \in Nat /\ cell \in 0 .. Len(tables)
      BY <1>2, <1>4
    <2> QED BY <2>1
  <1> HIDE DEF new, fresh
  <1>7. made \in [of: Radios \cup {"dataset", ""}, id: Nat] /\ made.of = "dataset" /\ made.id = new
    BY <1>6
  <1>8. /\ mine' \in [Threads -> [of: Radios \cup {"dataset", ""}, id: Nat]]
        /\ mine'[t] = made /\ \A u \in Threads \ {t}: mine'[u] = mine[u]
    <2> HIDE DEF made
    <2> QED BY <1>0, <1>2, <1>7
  <1> HIDE DEF made
  <1>9. mine'[t].of = "dataset" /\ mine'[t].id = new
    BY <1>7, <1>8
  <1>10. /\ DOMAIN rest' = Threads /\ DOMAIN call' = Threads /\ UNCHANGED calls
         /\ \A u \in Threads: call'[u] = Idle <=> rest'[u] = <<>>
         /\ call' \in [Threads -> {Idle, "counting", "quick", "slow"}]
         /\ \A u \in Threads: Follows(u)'
    <2>1. \A y: y.makes = mine[t].of => mine'[t].of = Makes(y, e)
      BY <1>0, <1>9 DEF Makes
    <2>2. e.op \in CellOps
      BY <1>0 DEF CellOps
    <2> QED BY <1>0, <1>8, <2>1, <2>2, CellStep
  <1> HIDE DEF e
  <1>11. cell' \in 0 .. Len(tables') /\ served' \subseteq 1 .. Len(tables')
    <2>1. Len(tables) \in Nat /\ cell \in 0 .. Len(tables) /\ served \subseteq 1 .. Len(tables)
      BY <1>2, <1>4
    <2>2. cell' = cell /\ served' = served \cup {new} /\ Len(tables') = new
      BY <1>0, <1>5
    <2>3. new = Len(tables) + 1
      BY DEF new
    <2> DEFINE n == Len(tables)
    <2>4. n \in Nat /\ new = n + 1 /\ cell \in 0 .. n /\ served \subseteq 1 .. n
      BY <2>1, <2>3
    <2> HIDE DEF n
    <2>5. cell \in 0 .. new /\ served \cup {new} \subseteq 1 .. new
      BY <2>4
    <2> QED BY <2>2, <2>5
  <1>12. TypeOK'
    BY <1>0, <1>5, <1>8, <1>10, <1>11 DEF TypeOK
  <1>13. FaceMade' /\ SeamOfNewestFace'
    <2>1. \A u \in Threads: mine[u].of \in Radios \/ mine'[u].of \in Radios => u # t
      BY <1>1, <1>9 DEF Radios
    <2>2. \A u \in Threads: mine[u].of \in Radios \/ mine'[u].of \in Radios => mine'[u] = mine[u]
      BY <1>8, <2>1
    <2> QED BY <1>0, <2>2, RadiosStill
  <1>14. \A u \in Threads:
            mine[u].of = "dataset" => u # t /\ mine[u].id # new /\ mine[u].id \in served
    BY <1>0, <1>1, <1>2, <1>6 DEF Cells, DatasetMade
  <1>15. DatasetMade'
    <2>1. ASSUME NEW u \in Threads, mine'[u].of = "dataset"
          PROVE  mine'[u].id \in served' \ {cell'}
      <3>1. CASE u = t
        BY <1>0, <1>6, <1>9, <3>1
      <3>2. CASE u # t
        BY <1>0, <1>8, <2>1, <3>2 DEF Cells, DatasetMade
      <3> QED BY <3>1, <3>2
    <2>2. ASSUME NEW u \in Threads, NEW v \in Threads, mine'[u].of = "dataset", mine'[v] = mine'[u]
          PROVE  v = u
      <3>1. mine'[v].of = "dataset" /\ mine'[v].id = mine'[u].id
        BY <2>2
      <3>2. CASE u = t
        BY <1>8, <1>9, <1>14, <3>1, <3>2
      <3>3. CASE v = t
        BY <1>8, <1>9, <1>14, <2>2, <3>1, <3>3
      <3>4. CASE u # t /\ v # t
        BY <1>0, <1>8, <2>2, <3>4 DEF Cells, DatasetMade
      <3> QED BY <3>2, <3>3, <3>4
    <2> QED BY <2>1, <2>2 DEF DatasetMade
  <1>16. NotItself'
    <2> SUFFICES ASSUME NEW g \in 1 .. new PROVE tables'[g].self \notin tables'[g].listed
      BY <1>5 DEF NotItself
    <2>1. CASE g = new
      BY <1>3, <1>5, <2>1
    <2>2. CASE g \in 1 .. Len(tables)
      BY <1>0, <1>5, <2>2 DEF Cells, NotItself
    <2> QED BY <1>6, <2>1, <2>2
  <1>17. DatasetServed'
    <2>1. ASSUME cell' # 0
          PROVE  cell' \in served' /\ tables'[cell'].self \notin tables'[cell'].listed
      <3>1. cell \in served
        BY <1>0, <2>1 DEF Cells, DatasetServed
      <3>2. cell \in 1 .. new
        BY <1>2, <1>6, <3>1
      <3> QED BY <1>0, <1>5, <1>16, <3>1, <3>2 DEF NotItself
    <2>2. ASSUME NEW g \in served' \ {cell'}
          PROVE  \E u \in Threads: mine'[u] = [of |-> "dataset", id |-> g]
      <3>1. CASE g = new
        <4>1. mine'[t] = [of |-> "dataset", id |-> g]
          BY <1>8, <3>1 DEF made
        <4> QED BY <4>1
      <3>2. CASE g # new
        <4>1. PICK u \in Threads: mine[u] = [of |-> "dataset", id |-> g]
          BY <1>0, <2>2, <3>2 DEF Cells, DatasetServed
        <4>2. mine[u].of = "dataset"
          BY <4>1
        <4>3. mine'[u] = mine[u]
          BY <1>8, <1>14, <4>2
        <4> QED BY <4>1, <4>3
      <3> QED BY <3>1, <3>2
    <2> QED BY <2>1, <2>2 DEF DatasetServed
  <1> QED BY <1>10, <1>12, <1>13, <1>15, <1>16, <1>17 DEF IInv, Cells

\* The server that is stored is served and was nobody else's; the one it
\* replaces is no longer served.
LEMMA StoreDatasetStep ==
    ASSUME IInv, NEW t \in Threads, StoreDataset(t)
    PROVE  IInv'
  <1> DEFINE e == Head(rest[t])
             new == mine[t].id
  <1>0. /\ TypeOK /\ Cells /\ rest[t] # <<>> /\ e.op = "store_dataset" /\ Continue(t)
        /\ served' = served \ {cell} /\ cell' = new
        /\ mine' = [mine EXCEPT ![t] = Nothing]
        /\ UNCHANGED <<owner, up, spare, conn, radio, tables, counts>>
    BY DEF IInv, StoreDataset, At, On, engineVars
  <1>1. mine[t].of = "dataset"
    BY <1>0, CellStepAllowed
  <1>2. /\ mine \in [Threads -> [of: Radios \cup {"dataset", ""}, id: Nat]]
        /\ cell \in 0 .. Len(tables) /\ served \subseteq 1 .. Len(tables)
    BY <1>0 DEF TypeOK
  <1>3. new \in served /\ new # cell
    BY <1>0, <1>1 DEF Cells, DatasetMade
  <1>4. Nothing \in [of: Radios \cup {"dataset", ""}, id: Nat] /\ Nothing.of = ""
    BY DEF Nothing
  <1>5. /\ mine' \in [Threads -> [of: Radios \cup {"dataset", ""}, id: Nat]]
        /\ mine'[t].of = "" /\ \A u \in Threads \ {t}: mine'[u] = mine[u]
    BY <1>0, <1>2, <1>4
  <1>6. /\ DOMAIN rest' = Threads /\ DOMAIN call' = Threads /\ UNCHANGED calls
        /\ \A u \in Threads: call'[u] = Idle <=> rest'[u] = <<>>
        /\ call' \in [Threads -> {Idle, "counting", "quick", "slow"}]
        /\ \A u \in Threads: Follows(u)'
    <2>1. \A y: y.makes = mine[t].of => mine'[t].of = Makes(y, e)
      BY <1>0, <1>5 DEF Makes
    <2>2. e.op \in CellOps
      BY <1>0 DEF CellOps
    <2> QED BY <1>0, <1>5, <2>1, <2>2, CellStep
  <1>7. cell' \in 0 .. Len(tables') /\ served' \subseteq 1 .. Len(tables')
    <2>1. served \subseteq 1 .. Len(tables)
      BY <1>2
    <2>2. new \in 1 .. Len(tables)
      BY <1>3, <2>1
    <2>3. cell' \in 1 .. Len(tables') /\ served' \subseteq 1 .. Len(tables')
      BY <1>0, <2>1, <2>2
    <2> QED BY <2>3
  <1>8. TypeOK'
    BY <1>0, <1>5, <1>6, <1>7 DEF TypeOK
  <1> HIDE DEF e
  <1>9. FaceMade' /\ SeamOfNewestFace'
    <2>1. \A u \in Threads: mine[u].of \in Radios \/ mine'[u].of \in Radios => u # t
      BY <1>1, <1>5 DEF Radios
    <2>2. \A u \in Threads: mine[u].of \in Radios \/ mine'[u].of \in Radios => mine'[u] = mine[u]
      BY <1>5, <2>1
    <2> QED BY <1>0, <2>2, RadiosStill
  <1>10. \A u \in Threads \ {t}: mine[u].of = "dataset" => mine[u].id # new
    <2> SUFFICES ASSUME NEW u \in Threads \ {t}, mine[u].of = "dataset", mine[u].id = new
                 PROVE  FALSE
      OBVIOUS
    <2>1. mine[u] = mine[t]
      <3>1. /\ mine[u] \in [of: Radios \cup {"dataset", ""}, id: Nat]
            /\ mine[t] \in [of: Radios \cup {"dataset", ""}, id: Nat]
        BY <1>2
      <3> QED BY <1>1, <3>1, SameMade
    <2> QED BY <1>0, <1>1, <2>1 DEF Cells, DatasetMade
  <1> HIDE DEF new
  <1>11. DatasetMade'
    <2>1. ASSUME NEW u \in Threads, mine'[u].of = "dataset"
          PROVE  mine'[u].id \in served' \ {cell'}
      <3>1. u # t
        BY <1>5, <2>1
      <3> QED BY <1>0, <1>5, <1>10, <2>1, <3>1 DEF Cells, DatasetMade
    <2>2. ASSUME NEW u \in Threads, NEW v \in Threads, mine'[u].of = "dataset", mine'[v] = mine'[u]
          PROVE  v = u
      <3>1. u # t /\ v # t
        BY <1>5, <2>2
      <3> QED BY <1>0, <1>5, <2>2, <3>1 DEF Cells, DatasetMade
    <2> QED BY <2>1, <2>2 DEF DatasetMade
  <1>12. NotItself'
    BY <1>0 DEF Cells, NotItself
  <1>13. DatasetServed'
    <2>1. cell' \in served' /\ tables'[cell'].self \notin tables'[cell'].listed
      <3>1. new \in 1 .. Len(tables)
        BY <1>2, <1>3
      <3> QED BY <1>0, <1>3, <3>1 DEF Cells, NotItself
    <2>2. ASSUME NEW g \in served' \ {cell'}
          PROVE  \E u \in Threads: mine'[u] = [of |-> "dataset", id |-> g]
      <3>1. PICK u \in Threads: mine[u] = [of |-> "dataset", id |-> g]
        BY <1>0, <2>2 DEF Cells, DatasetServed
      <3>2. mine[u].id = g /\ g # new
        BY <1>0, <2>2, <3>1
      <3>3. u # t
        BY <3>2 DEF new
      <3> QED BY <1>5, <3>1, <3>3
    <2> QED BY <2>1, <2>2 DEF DatasetServed
  <1> QED BY <1>6, <1>8, <1>9, <1>11, <1>12, <1>13 DEF IInv, Cells

LEMMA SeqElements ==
    ASSUME NEW S, NEW s \in Seq(S)
    PROVE  DOMAIN s = 1 .. Len(s) /\ \A i \in DOMAIN s: s[i] \in S
  OBVIOUS

\* A table that changes keeps its own id, and never lists it.
LEMMA TablesStill ==
    ASSUME Cells, served \subseteq 1 .. Len(tables), UNCHANGED <<owner, mine, radio, cell, served>>,
           Len(tables') = Len(tables),
           \A g \in 1 .. Len(tables): tables'[g].self \notin tables'[g].listed
    PROVE  Cells'
  <1>1. FaceMade' /\ SeamOfNewestFace'
    BY RadiosStill
  <1>2. DatasetMade' /\ NotItself'
    BY DEF Cells, DatasetMade, NotItself
  <1>3. DatasetServed'
    BY DEF Cells, DatasetServed
  <1> QED BY <1>1, <1>2, <1>3 DEF Cells

\* One table is replaced by one that lists other ids.
LEMMA TableReplaced ==
    ASSUME NEW Table, NEW s \in Seq(Table), NEW g, NEW new, g \in DOMAIN s => new \in Table
    PROVE  /\ [s EXCEPT ![g] = new] \in Seq(Table) /\ Len([s EXCEPT ![g] = new]) = Len(s)
           /\ \A i \in 1 .. Len(s): [s EXCEPT ![g] = new][i] = IF i = g THEN new ELSE s[i]
  <1> DEFINE w == [s EXCEPT ![g] = new]
  <1>1. /\ Len(s) \in Nat /\ s \in [1 .. Len(s) -> Table] /\ DOMAIN s = 1 .. Len(s)
    BY LenProperties
  <1>2. w \in [1 .. Len(s) -> Table]
    BY <1>1
  <1>3. \A i \in 1 .. Len(s): w[i] = IF i = g THEN new ELSE s[i]
    BY <1>1
  <1> HIDE DEF w
  <1>4. w \in Seq(Table) /\ Len(w) = Len(s)
    BY <1>1, <1>2
  <1> QED BY <1>3, <1>4 DEF w

LEMMA NoteStep ==
    ASSUME IInv, NEW t \in Threads, Note(t)
    PROVE  IInv'
  <1> DEFINE e == Head(rest[t])
             Table == [self: {Self}, listed: SUBSET (Ids \cup {Self})]
             new == [tables[cell] EXCEPT !.listed = @ \cup ({e.on} \ {tables[cell].self})]
  <1>0. /\ TypeOK /\ Cells /\ rest[t] # <<>> /\ e.op = "note" /\ Continue(t)
        /\ tables' = [tables EXCEPT ![cell].listed = @ \cup ({e.on} \ {tables[cell].self})]
        /\ UNCHANGED <<owner, mine, up, spare, conn, radio, cell, served, counts>>
    BY DEF IInv, Note, At, On, engineVars
  <1>1. e.on \in Ids \cup {Self}
    BY <1>0, CellStepAllowed
  <1>2. tables \in Seq(Table) /\ cell \in 0 .. Len(tables) /\ served \subseteq 1 .. Len(tables)
    BY <1>0 DEF TypeOK
  <1>3. /\ DOMAIN rest' = Threads /\ DOMAIN call' = Threads /\ UNCHANGED calls
        /\ \A u \in Threads: call'[u] = Idle <=> rest'[u] = <<>>
        /\ call' \in [Threads -> {Idle, "counting", "quick", "slow"}]
        /\ \A u \in Threads: Follows(u)'
    <2>1. \A y: y.makes = mine[t].of => mine'[t].of = Makes(y, e)
      BY <1>0 DEF Makes
    <2>2. e.op \in CellOps
      BY <1>0 DEF CellOps
    <2>3. \A u \in Threads \ {t}: mine'[u].of = mine[u].of
      BY <1>0
    <2> QED BY <1>0, <2>1, <2>2, <2>3, CellStep
  <1> HIDE DEF e
  <1>4. tables' = [tables EXCEPT ![cell] = new]
    BY <1>0
  <1>5. cell \in DOMAIN tables =>
            /\ new \in Table /\ new.self = Self
            /\ Self \notin tables[cell].listed => Self \notin new.listed
    <2> SUFFICES ASSUME cell \in DOMAIN tables
                 PROVE  /\ new \in Table /\ new.self = Self
                        /\ Self \notin tables[cell].listed => Self \notin new.listed
      OBVIOUS
    <2> DEFINE old == tables[cell]
    <2>1. old \in Table
      <3> HIDE DEF Table
      <3> QED BY <1>2, SeqElements
    <2> HIDE DEF old
    <2>2. old.self = Self /\ old.listed \subseteq Ids \cup {Self}
          /\ DOMAIN old = {"self", "listed"}
      BY <2>1
    <2>3. new = [old EXCEPT !.listed = @ \cup ({e.on} \ {old.self})]
      BY DEF old
    <2>4. new \in Table /\ new.self = Self /\ new.listed = old.listed \cup ({e.on} \ {Self})
      BY <1>1, <2>1, <2>2, <2>3
    <2>5. tables[cell].listed = old.listed
      BY DEF old
    <2> QED BY <2>4, <2>5
  <1> HIDE DEF new, Table
  <1>6. /\ tables' \in Seq(Table) /\ Len(tables') = Len(tables)
        /\ \A i \in 1 .. Len(tables): tables'[i] = IF i = cell THEN new ELSE tables[i]
    BY <1>2, <1>4, <1>5, TableReplaced
  <1>7. TypeOK'
    BY <1>0, <1>3, <1>6 DEF TypeOK, Table
  <1>8. ASSUME NEW i \in 1 .. Len(tables)
        PROVE  tables'[i].self \notin tables'[i].listed
    <2>1. tables[i].self \notin tables[i].listed
      BY <1>0 DEF Cells, NotItself
    <2>2. CASE i = cell
      <3>1. DOMAIN tables = 1 .. Len(tables)
        BY <1>2, SeqElements
      <3>2. cell \in DOMAIN tables
        BY <2>2, <3>1
      <3>3. tables[cell] \in Table
        BY <1>2, <3>1, <3>2, SeqElements
      <3>4. tables[cell].self = Self
        BY <3>3 DEF Table
      <3>5. Self \notin new.listed /\ new.self = Self
        BY <1>5, <2>1, <2>2, <3>2, <3>4
      <3> QED BY <1>6, <2>2, <3>5
    <2>3. CASE i # cell
      BY <1>6, <2>1, <2>3
    <2> QED BY <2>2, <2>3
  <1>9. Cells'
    BY <1>0, <1>2, <1>6, <1>8, TablesStill
  <1> QED BY <1>3, <1>7, <1>9 DEF IInv

\* What no thread takes part in.
LEMMA OutsideStep ==
    ASSUME IInv, UNCHANGED <<owner, rest, call, calls, mine, up, counts>>
    PROVE  \A u \in Threads: Follows(u)'
  <1> SUFFICES ASSUME NEW u \in Threads PROVE Follows(u)'
    OBVIOUS
  <1>1. Follows(u) /\ HeldBy(u)' = HeldBy(u) /\ \A f: Known(u, f) => Known(u, f)'
    BY DEF IInv, HeldBy, Known
  <1> QED BY <1>1, FollowsStill

LEMMA FaceStep ==
    ASSUME IInv, NEW r \in Radios, NEW f, FaceReads(r, f) \/ FaceEnds(r, f)
    PROVE  IInv'
  <1>0. /\ TypeOK /\ Cells
        /\ UNCHANGED <<owner, rest, call, calls, mine, up, spare, conn, datasetVars, counts>>
    BY DEF IInv, FaceReads, FaceEnds, engineVars
  <1>1. radio \in [Radios -> [newest: Nat, seam: Nat, live: SUBSET Nat, queued: SUBSET Nat]]
    BY <1>0 DEF TypeOK
  <1>2. \/ radio' = [radio EXCEPT ![r].queued = @ \ {f}]
        \/ radio' = [radio EXCEPT ![r].live = @ \ {f}, ![r].queued = @ \ {f}]
    BY DEF FaceReads, FaceEnds
  <1>3. /\ radio' \in [Radios -> [newest: Nat, seam: Nat, live: SUBSET Nat, queued: SUBSET Nat]]
        /\ \A q \in Radios: radio'[q].newest = radio[q].newest /\ radio'[q].seam = radio[q].seam
    BY <1>1, <1>2
  <1>4. TypeOK'
    BY <1>0, <1>3 DEF TypeOK, datasetVars
  <1>5. Cells'
    BY <1>0, <1>3, FramesStill
  <1>6. \A u \in Threads: Follows(u)'
    BY <1>0, OutsideStep
  <1> QED BY <1>4, <1>5, <1>6 DEF IInv

LEMMA SnapshotStep ==
    ASSUME IInv, NEW g \in 1 .. Len(tables), Snapshot(g)
    PROVE  IInv'
  <1> DEFINE Table == [self: {Self}, listed: SUBSET (Ids \cup {Self})]
             old == tables[g]
  <1>0. /\ TypeOK /\ Cells
        /\ UNCHANGED <<owner, rest, call, calls, mine, up, spare, conn, radio, cell, served,
                       counts>>
    BY DEF IInv, Snapshot, engineVars
  <1>1. PICK stale \in SUBSET old.listed: tables' = [tables EXCEPT ![g].listed = @ \ stale]
    BY DEF Snapshot
  <1> DEFINE new == [old EXCEPT !.listed = @ \ stale]
  <1>2. tables \in Seq(Table) /\ served \subseteq 1 .. Len(tables)
    BY <1>0 DEF TypeOK
  <1>3. tables' = [tables EXCEPT ![g] = new]
    BY <1>1
  <1>4. DOMAIN tables = 1 .. Len(tables) /\ old \in Table
    BY <1>2, LenProperties
  <1>5. old.self \notin old.listed
    BY <1>0 DEF Cells, NotItself
  <1> HIDE DEF old
  <1>6. new \in Table /\ new.self = old.self /\ new.listed = old.listed \ stale
    BY <1>4
  <1> HIDE DEF new, Table
  <1>7. /\ tables' \in Seq(Table) /\ Len(tables') = Len(tables)
        /\ \A i \in 1 .. Len(tables): tables'[i] = IF i = g THEN new ELSE tables[i]
    BY <1>2, <1>3, <1>6, TableReplaced
  <1>8. TypeOK'
    BY <1>0, <1>7 DEF TypeOK, Table
  <1>9. ASSUME NEW i \in 1 .. Len(tables)
        PROVE  tables'[i].self \notin tables'[i].listed
    <2>1. CASE i = g
      BY <1>5, <1>6, <1>7, <2>1
    <2>2. CASE i # g
      BY <1>0, <1>7, <2>2 DEF Cells, NotItself
    <2> QED BY <2>1, <2>2
  <1>10. Cells'
    BY <1>0, <1>2, <1>7, <1>9, TablesStill
  <1>11. \A u \in Threads: Follows(u)'
    BY <1>0, OutsideStep
  <1> QED BY <1>8, <1>10, <1>11 DEF IInv

----------------------------------------------------------------------------
(* The invariant holds                                                     *)

LEMMA InitInv ==
    ASSUME Init
    PROVE  IInv
  <1>1. 0 \in 0 .. MaxCalls /\ 0 \in Nat
    BY CallAssumption
  <1> USE DEF Init
  <1>2. /\ owner \in [Locks -> Threads \cup {Nobody}]
        /\ DOMAIN rest = Threads /\ DOMAIN call = Threads
        /\ (\A t \in Threads: call[t] = Idle <=> rest[t] = <<>>)
        /\ call \in [Threads -> {Idle, "counting", "quick", "slow"}]
    OBVIOUS
  <1>3. mine \in [Threads -> [of: Radios \cup {"dataset", ""}, id: Nat]]
    BY DEF Nothing
  <1>4. radio \in [Radios -> [newest: Nat, seam: Nat, live: SUBSET Nat, queued: SUBSET Nat]]
    <2>1. [newest |-> 0, seam |-> 0, live |-> {}, queued |-> {}]
              \in [newest: Nat, seam: Nat, live: SUBSET Nat, queued: SUBSET Nat]
      OBVIOUS
    <2> QED BY <2>1
  <1>5. /\ tables \in Seq([self: {Self}, listed: SUBSET (Ids \cup {Self})]) /\ Len(tables) = 0
        /\ cell \in 0 .. Len(tables) /\ served \subseteq 1 .. Len(tables)
    BY EmptySeq
  <1>6. counts \in [Handles -> [received: Threads \cup {Nobody}, total: Threads \cup {Nobody}]]
    OBVIOUS
  <1>7. calls \in 0 .. MaxCalls /\ {up, spare, conn} \subseteq BOOLEAN
    BY <1>1
  <1>8. TypeOK
    BY <1>2, <1>3, <1>4, <1>5, <1>6, <1>7 DEF TypeOK
  <1>9. ASSUME NEW t \in Threads
        PROVE  Follows(t)
    <2>1. HeldBy(t) = {}
      BY ThreadAssumption DEF HeldBy
    <2>2. mine[t].of = "" /\ rest[t] = <<>> /\ call[t] # "counting"
      BY DEF Nothing, Idle
    <2>3. Good(View({}, {}, "", "no"), <<>>)
      BY EndIsGood DEF In
    <2>4. Good(View(HeldBy(t), {}, mine[t].of, "no"), rest[t])
      BY <2>1, <2>2, <2>3
    <2> HIDE DEF Init
    <2>5. \E k, z: /\ Good(View(HeldBy(t), k, mine[t].of, z), rest[t])
                   /\ \A f \in k: Known(t, f)
                   /\ z = "no"
      BY <2>4
    <2> QED BY <2>2, <2>5 DEF Follows
  <1>10. \A t \in Threads: mine[t].of = ""
    BY DEF Nothing
  <1>11. FaceMade /\ DatasetMade
    BY <1>10 DEF FaceMade, DatasetMade, Radios
  <1>12. SeamOfNewestFace
    BY DEF SeamOfNewestFace
  <1>13. NotItself /\ DatasetServed
    BY <1>5 DEF NotItself, DatasetServed
  <1> QED BY <1>8, <1>9, <1>11, <1>12, <1>13 DEF IInv, Cells

LEMMA NextInv ==
    ASSUME IInv, [Next]_vars
    PROVE  IInv'
  <1>1. ASSUME NEW t \in Threads, Run(t)
        PROVE  IInv'
    <2>1. CASE Acquire(t)
      BY <2>1, AcquireStep
    <2>2. CASE Release(t)
      BY <2>2, ReleaseStep
    <2>3. CASE Branch(t)
      BY <2>3, BranchStep
    <2>4. CASE NeedEngine(t)
      BY <2>4, NeedStep
    <2>5. CASE UseEngine(t) \/ NetworkDone(t) \/ TryStep(t) \/ ServeEnds(t)
      BY <2>5, WaitStep
    <2>6. CASE TakeSpare(t) \/ Connect(t)
      BY <2>6, WaitStep
    <2>7. CASE TakeEngine(t)
      BY <2>7, TakeEngineStep
    <2>8. CASE CountStep(t)
      BY <2>8, CountStepKeeps
    <2>9. CASE AddFace(t)
      BY <2>9, AddFaceStep
    <2>10. CASE StoreSeam(t)
      BY <2>10, StoreSeamStep
    <2>11. CASE Deliver(t)
      BY <2>11, DeliverStep
    <2>12. CASE ServeDataset(t)
      BY <2>12, ServeDatasetStep
    <2>13. CASE StoreDataset(t)
      BY <2>13, StoreDatasetStep
    <2>14. CASE Note(t)
      BY <2>14, NoteStep
    <2> QED BY <1>1, <2>1, <2>2, <2>3, <2>4, <2>5, <2>6, <2>7, <2>8, <2>9, <2>10, <2>11, <2>12,
               <2>13, <2>14 DEF Run
  <1>2. ASSUME NEW t \in Threads, NEW c \in MayCall[t], Call(t, c)
        PROVE  IInv'
    BY <1>2, CallStep
  <1>3. ASSUME NEW t \in Threads, Answer(t)
        PROVE  IInv'
    BY <1>3, WaitStep
  <1>4. ASSUME NEW r \in Radios, FaceTask(r)
        PROVE  IInv'
    BY <1>4, FaceStep DEF FaceTask
  <1>5. ASSUME NEW g \in 1 .. Len(tables), Snapshot(g)
        PROVE  IInv'
    BY <1>5, SnapshotStep
  <1>6. CASE UNCHANGED vars
    <2>1. UNCHANGED <<owner, rest, call, calls, mine, up, spare, conn, radio, tables, cell,
                      served, counts>>
      BY <1>6 DEF vars
    <2>2. \A u \in Threads: Follows(u)'
      BY <2>1, OutsideStep
    <2>3. TypeOK'
      BY <2>1 DEF IInv, TypeOK
    <2>4. Cells'
      BY <2>1, CellsStill DEF IInv, datasetVars
    <2> QED BY <2>2, <2>3, <2>4 DEF IInv
  <1> QED BY <1>1, <1>2, <1>3, <1>4, <1>5, <1>6 DEF Next

\* In every state each thread stands at a step its script allows with the locks
\* it holds and what it knows, and the cells it changes agree.
THEOREM Invariant == Spec => []IInv
  <1>1. Init => IInv
    BY InitInv
  <1>2. IInv /\ [Next]_vars => IInv'
    BY NextInv
  <1> QED BY <1>1, <1>2, PTL DEF Spec

\* Each variable has its type, and a thread is in a call exactly if there are
\* steps of it to take: no call ends, in an early return either, and leaves some.
THEOREM TypeCorrect == Spec => []TypeOK
  <1>1. IInv => TypeOK
    BY DEF IInv
  <1> QED BY <1>1, Invariant, PTL

----------------------------------------------------------------------------
(* The properties                                                          *)

\* Every mutex that is locked belongs to a call that is under way: whatever
\* returns early, and wherever, no call ends with a guard alive.
THEOREM NoLockIsLost ==
    Spec => [](\A l \in Locks: owner[l] # Nobody => call[owner[l]] # Idle)
  <1>1. ASSUME IInv
        PROVE  \A l \in Locks: owner[l] # Nobody => call[owner[l]] # Idle
    <2> SUFFICES ASSUME NEW l \in Locks, NEW t \in Threads, owner[l] = t, call[t] = Idle
                 PROVE  FALSE
      BY <1>1 DEF IInv, TypeOK
    <2>1. rest[t] = <<>> /\ Follows(t)
      BY <1>1 DEF IInv, TypeOK
    <2>2. HeldBy(t) = {}
      BY <2>1, IdleHoldsNothing
    <2> QED BY <2>2 DEF HeldBy
  <1> QED BY <1>1, Invariant, PTL

\* A thread that waits for a lock waits for one of a higher rank than those it
\* holds.
LEMMA WaitsUpwards ==
    ASSUME IInv, NEW t \in Threads, At(t, "lock")
    PROVE  On(t) \in Locks /\ \A l \in Locks: owner[l] = t => Rank(l) < Rank(On(t))
  <1>1. rest[t] # <<>> /\ Head(rest[t]).op = "lock" /\ On(t) = Head(rest[t]).on /\ Follows(t)
    BY DEF At, On, IInv
  <1>2. PICK y: Matches(t, y) /\ Allowed(y, Head(rest[t]))
    BY <1>1, NextStep
  <1>3. y.held = HeldBy(t)
    BY <1>2 DEF Matches
  <1>4. On(t) \in Locks /\ \A l \in y.held: Rank(l) < Rank(On(t))
    BY <1>1, <1>2 DEF Allowed
  <1> QED BY <1>3, <1>4 DEF HeldBy

\* There is no set of threads in which each waits for one of the set: along
\* such a chain the ranks of the locks would rise for ever, and they end at 5.
LEMMA NoRing ==
    ASSUME IInv
    PROVE  NoCircularWait
  <1> SUFFICES ASSUME NEW ring \in (SUBSET Threads) \ {{}}, \A t \in ring: WaitsFor(t) \in ring
               PROVE  FALSE
    BY DEF NoCircularWait
  <1>1. \A t \in ring: t \in Threads /\ t # Nobody
    BY ThreadAssumption
  <1>2. ASSUME NEW t \in ring
        PROVE  /\ On(t) \in Locks /\ owner[On(t)] \in ring
               /\ \A l \in Locks: owner[l] = t => Rank(l) < Rank(On(t))
    <2>1. At(t, "lock") /\ owner[On(t)] \in ring
      BY <1>1 DEF WaitsFor
    <2> QED BY <1>1, <2>1, WaitsUpwards
  <1>3. \A l \in Locks: Rank(l) \in 1 .. 5
    BY DEF Rank
  <1> DEFINE R(n) == \E t \in ring: Rank(On(t)) >= n
  <1>4. R(1)
    <2>1. PICK t \in ring: t \in ring
      OBVIOUS
    <2>2. Rank(On(t)) \in 1 .. 5
      BY <1>2, <1>3
    <2> QED BY <2>2
  <1>5. ASSUME NEW n \in Nat, R(n)
        PROVE  R(n + 1)
    <2>1. PICK t \in ring: Rank(On(t)) >= n
      BY <1>5
    <2> DEFINE u == owner[On(t)]
    <2>2. u \in ring /\ Rank(On(t)) < Rank(On(u))
      BY <1>2
    <2>3. Rank(On(t)) \in 1 .. 5 /\ Rank(On(u)) \in 1 .. 5
      BY <1>2, <1>3, <2>2
    <2> HIDE DEF u
    <2>4. Rank(On(u)) >= n + 1
      BY <2>1, <2>2, <2>3
    <2> QED BY <2>2, <2>4
  <1>6. ~R(6)
    <2> SUFFICES ASSUME NEW t \in ring, Rank(On(t)) >= 6 PROVE FALSE
      OBVIOUS
    <2>1. Rank(On(t)) \in 1 .. 5
      BY <1>2, <1>3
    <2> QED BY <2>1
  <1> HIDE DEF R
  <1>7. R(1 + 1) /\ R(1 + 1 + 1)
    BY <1>4, <1>5
  <1>8. R(2) /\ R(3)
    BY <1>7
  <1>9. R(3 + 1)
    BY <1>5, <1>8
  <1>10. R(4)
    BY <1>9
  <1>11. R(4 + 1)
    BY <1>5, <1>10
  <1>12. R(5)
    BY <1>11
  <1>13. R(5 + 1)
    BY <1>5, <1>12
  <1> QED BY <1>6, <1>13

\* In every state, for any number of threads: no threads wait for each other in
\* a circle, and none for a lock it has. Whatever the calls of the engine, the
\* client and the dashboard interleave, some thread of any set can be waited for.
THEOREM LocksAreOrdered == Spec => []NoCircularWait
  <1>1. IInv => NoCircularWait
    BY NoRing
  <1> QED BY <1>1, Invariant, PTL

\* No call works on an engine that a shutdown has taken.
THEOREM EngineIsAliveWhileUsed == Spec => []EngineAliveWhileUsed
  <1>1. IInv => EngineAliveWhileUsed
    <2> SUFFICES ASSUME IInv, NEW t \in Threads, At(t, "use") PROVE up
      BY DEF EngineAliveWhileUsed
    <2>1. rest[t] # <<>> /\ Head(rest[t]).op = "use" /\ Follows(t)
      BY DEF At, IInv
    <2>2. PICK y: Matches(t, y) /\ Allowed(y, Head(rest[t]))
      BY <2>1, NextStep
    <2>3. Known(t, EngineUp)
      BY <2>1, <2>2 DEF Allowed, Matches
    <2> QED BY <2>3 DEF Known
  <1> QED BY <1>1, Invariant, PTL

\* Outside an attach call the seam of a radio feeds its newest face.
THEOREM SeamFeedsNewestFace == Spec => []SeamOfNewestFace
  <1>1. IInv => SeamOfNewestFace
    BY DEF IInv, Cells
  <1> QED BY <1>1, Invariant, PTL

\* The table that beacons are noted in is served and does not list the node
\* itself, and every other server belongs to a call that is about to store it.
THEOREM DatasetIsServed == Spec => []DatasetServed
  <1>1. IInv => DatasetServed
    BY DEF IInv, Cells
  <1> QED BY <1>1, Invariant, PTL

\* From the zeroing until the consumer is given back the counters are those of
\* the fetch that has it.
THEOREM ProgressIsOfHolder == Spec => []ProgressOfHolder
  <1>1. IInv => ProgressOfHolder
    <2> SUFFICES ASSUME IInv, NEW t \in Threads, NEW h \in Handles,
                        owner[ConsumerLock[h]] = t, Zeroed(t)
                 PROVE  {counts[h].received, counts[h].total} \subseteq {t, Nobody}
      BY DEF ProgressOfHolder
    <2>1. call[t] = "counting" /\ ~Due(rest[t])
      BY DEF Zeroed, Due
    <2>2. rest[t] # <<>> /\ Follows(t)
      BY <2>1 DEF IInv, TypeOK, Idle
    <2>3. PICK y: Matches(t, y) /\ Settled(y) /\ (y.zero = "due" => Due(rest[t]))
      BY <2>2, NextStep
    <2>4. y.zero = "done"
      BY <2>1, <2>3 DEF Matches
    <2>5. ConsumerLock[h] \in y.held
      BY <2>3, ConsumerLocks DEF Matches, HeldBy
    <2>6. Ours(h) \subseteq y.knows
      BY <2>3, <2>4, <2>5 DEF Settled
    <2>7. Known(t, <<ConsumerLock[h], "received">>) /\ Known(t, <<ConsumerLock[h], "total">>)
      BY <2>3, <2>6 DEF Ours, Matches
    <2>8. counts[h].received \in {t, Nobody} /\ counts[h].total \in {t, Nobody}
      BY <2>7 DEF Known
    <2> QED BY <2>8
  <1> QED BY <1>1, Invariant, PTL

=============================================================================
