--------------------------- MODULE AddressesProofs ---------------------------
(***************************************************************************)
(* Proofs about Addresses.  The parsers and the formatters are loops over   *)
(* a text; what they compute is proved by induction over its length, with   *)
(* the well-foundedness of the natural numbers for sets in place of an      *)
(* induction rule for predicates.                                            *)
(***************************************************************************)
EXTENDS Addresses, TLAPS, WellFoundedInduction, SequenceTheorems

-----------------------------------------------------------------------------
(* Induction *)

\* A set that holds 0 and the successors of its members holds every number.
LEMMA Induct ==
    ASSUME NEW S, 0 \in S, \A n \in Nat : n \in S => n + 1 \in S
    PROVE  Nat \subseteq S
  <1> SUFFICES ASSUME Nat \ S # {} PROVE FALSE
    OBVIOUS
  <1> DEFINE R == OpToRel(<, Nat)
  <1>1. IsWellFoundedOn(R, Nat)
    BY NatLessThanWellFounded
  <1>2. \A x, y \in Nat : x < y => <<x, y>> \in R
    BY DEF OpToRel
  <1> HIDE DEF R
  <1>3. PICK x \in Nat \ S : \A y \in Nat \ S : ~(<<y, x>> \in R)
    <2>1. Nat \ S \subseteq Nat
      OBVIOUS
    <2> QED
      BY <1>1, <2>1, WFMin
  <1>4. x - 1 \in Nat /\ x - 1 < x
    BY <1>3
  <1>5. x - 1 \in S
    BY <1>2, <1>3, <1>4
  <1> QED
    BY <1>3, <1>4, <1>5

\* The same up to a bound.
LEMMA InductUpTo ==
    ASSUME NEW n \in Nat, NEW S, 0 \in S, \A i \in 1 .. n : i - 1 \in S => i \in S
    PROVE  0 .. n \subseteq S
  <1> DEFINE T == {i \in Nat : i > n \/ i \in S}
  <1>1. 0 \in T /\ \A i \in Nat : i \in T => i + 1 \in T
    <2> SUFFICES ASSUME NEW i \in Nat, i \in T, i + 1 <= n PROVE i + 1 \in S
      OBVIOUS
    <2>1. i + 1 \in 1 .. n /\ (i + 1) - 1 = i /\ i \in S
      OBVIOUS
    <2> QED
      BY <2>1
  <1> HIDE DEF T
  <1>2. Nat \subseteq T
    BY <1>1, Induct
  <1> QED
    BY <1>2 DEF T

\* Induction over sequences: a set that holds the empty one and is closed
\* under Append holds all of them.
LEMMA InductSeq ==
    ASSUME NEW T, NEW S, << >> \in S,
           \A s \in Seq(T), x \in T : s \in S => Append(s, x) \in S
    PROVE  Seq(T) \subseteq S
  <1> DEFINE N == {n \in Nat : \A s \in Seq(T) : Len(s) = n => s \in S}
  <1>1. 0 \in N
    <2> SUFFICES ASSUME NEW s \in Seq(T), Len(s) = 0 PROVE s \in S
      OBVIOUS
    <2>1. s = << >>
      BY EmptySeq
    <2> QED
      BY <2>1
  <1>2. ASSUME NEW n \in Nat, n \in N PROVE n + 1 \in N
    <2> SUFFICES ASSUME NEW s \in Seq(T), Len(s) = n + 1 PROVE s \in S
      OBVIOUS
    <2>1. s # << >>
      BY EmptySeq
    <2>2. PICK t \in Seq(T), x \in T : s = Append(t, x)
      BY <2>1, SequenceEmptyOrAppend
    <2>3. Len(t) = n
      BY <2>2, AppendProperties
    <2> QED
      BY <1>2, <2>2, <2>3
  <1> HIDE DEF N
  <1>3. Nat \subseteq N
    BY <1>1, <1>2, Induct
  <1> QED
    BY <1>3, LenProperties DEF N

-----------------------------------------------------------------------------
(* Loops.  F[x][v] is what the step of a loop makes of v when it meets x.     *)

Traces(V, b, F, s) ==
    {g \in [0 .. Len(s) -> V] : g[0] = b /\ \A i \in 1 .. Len(s) : g[i] = F[s[i]][g[i - 1]]}

Loop(V, b, F, s) == (CHOOSE g \in Traces(V, b, F, s) : TRUE)[Len(s)]

LEMMA TraceExists ==
    ASSUME NEW V, NEW b \in V, NEW T, NEW F \in [T -> [V -> V]], NEW s \in Seq(T)
    PROVE  Traces(V, b, F, s) # {}
  <1> DEFINE n == Len(s)
             Good(m) == \E g \in [0 .. m -> V] :
                          g[0] = b /\ \A i \in 1 .. m : g[i] = F[s[i]][g[i - 1]]
             S == {m \in 0 .. n : Good(m)}
  <1>1. Good(0)
    <2> DEFINE g == [i \in 0 .. 0 |-> b]
    <2>1. g \in [0 .. 0 -> V]
      OBVIOUS
    <2>2. g[0] = b /\ \A i \in 1 .. 0 : g[i] = F[s[i]][g[i - 1]]
      OBVIOUS
    <2> QED
      BY <2>1, <2>2
  <1>2. ASSUME NEW m \in 1 .. n, Good(m - 1) PROVE Good(m)
    <2>1. PICK g \in [0 .. m - 1 -> V] : g[0] = b /\ \A i \in 1 .. m - 1 : g[i] = F[s[i]][g[i - 1]]
      BY <1>2
    <2> DEFINE v == F[s[m]][g[m - 1]]
               h == [i \in 0 .. m |-> IF i < m THEN g[i] ELSE v]
    <2>2. v \in V
      <3>1. s[m] \in T /\ g[m - 1] \in V
        BY <2>1
      <3> QED
        BY <3>1
    <2> HIDE DEF v
    <2>3. h \in [0 .. m -> V]
      BY <2>1, <2>2
    <2>4. h[0] = b
      <3>1. 0 \in 0 .. m /\ 0 < m
        OBVIOUS
      <3> QED
        BY <2>1, <3>1
    <2>5. ASSUME NEW i \in 1 .. m PROVE h[i] = F[s[i]][h[i - 1]]
      <3>1. h[i - 1] = g[i - 1]
        OBVIOUS
      <3>2. CASE i < m
        BY <2>1, <3>1, <3>2
      <3>3. CASE i = m
        BY <3>1, <3>3 DEF v
      <3> QED
        BY <3>2, <3>3
    <2> QED
      BY <2>3, <2>4, <2>5
  <1> HIDE DEF Good
  <1>3. n \in Nat
    OBVIOUS
  <1>4. 0 \in S /\ \A i \in 1 .. n : i - 1 \in S => i \in S
    BY <1>1, <1>2
  <1> HIDE DEF S
  <1>5. 0 .. n \subseteq S
    BY <1>3, <1>4, InductUpTo
  <1>6. Good(n)
    BY <1>3, <1>5 DEF S
  <1> QED
    BY <1>6 DEF Good, Traces

\* A function that takes the steps of the loop is its trace, and the only one.
LEMMA LoopIs ==
    ASSUME NEW V, NEW b \in V, NEW T, NEW F \in [T -> [V -> V]], NEW s \in Seq(T),
           NEW n, n = Len(s), NEW u, u[0] = b,
           \A i \in 1 .. n : u[i - 1] \in V => u[i] = F[s[i]][u[i - 1]]
    PROVE  u[n] = Loop(V, b, F, s)
  <1> DEFINE t == CHOOSE g \in Traces(V, b, F, s) : TRUE
             S == {i \in 0 .. n : u[i] = t[i]}
  <1>1. n \in Nat
    OBVIOUS
  <1>2. t \in Traces(V, b, F, s)
    BY TraceExists
  <1> HIDE DEF t
  <1>3. /\ t \in [0 .. n -> V] /\ t[0] = b
        /\ \A i \in 1 .. n : t[i] = F[s[i]][t[i - 1]]
    BY <1>2 DEF Traces
  <1>4. 0 \in S /\ \A i \in 1 .. n : i - 1 \in S => i \in S
    <2>1. ASSUME NEW i \in 1 .. n, i - 1 \in S PROVE u[i] = t[i]
      <3>1. i - 1 \in 0 .. n
        BY <1>1
      <3>2. u[i - 1] = t[i - 1] /\ t[i - 1] \in V
        BY <1>3, <2>1, <3>1
      <3> QED
        BY <1>3, <3>2
    <2> QED
      BY <1>1, <1>3, <2>1
  <1> HIDE DEF S
  <1>5. 0 .. n \subseteq S
    BY <1>1, <1>4, InductUpTo
  <1> QED
    BY <1>1, <1>5 DEF S, t, Loop

LEMMA LoopType ==
    ASSUME NEW V, NEW b \in V, NEW T, NEW F \in [T -> [V -> V]], NEW s \in Seq(T)
    PROVE  Loop(V, b, F, s) \in V
  <1> DEFINE t == CHOOSE g \in Traces(V, b, F, s) : TRUE
  <1>1. t \in Traces(V, b, F, s)
    BY TraceExists
  <1> HIDE DEF t
  <1>2. t \in [0 .. Len(s) -> V] /\ Len(s) \in Nat
    BY <1>1 DEF Traces
  <1> QED
    BY <1>2 DEF t, Loop

LEMMA LoopEmpty ==
    ASSUME NEW V, NEW b \in V, NEW T, NEW F \in [T -> [V -> V]]
    PROVE  Loop(V, b, F, << >>) = b
  <1> SUFFICES ASSUME NEW s \in Seq(T), s = << >> PROVE Loop(V, b, F, s) = b
    <2>1. << >> \in Seq(T)
      OBVIOUS
    <2> HIDE DEF Loop
    <2> QED
      BY <2>1
  <1> DEFINE t == CHOOSE g \in Traces(V, b, F, s) : TRUE
  <1>2. t \in Traces(V, b, F, s)
    <2>1. Traces(V, b, F, s) # {}
      BY ONLY b \in V, F \in [T -> [V -> V]], s \in Seq(T), TraceExists
    <2> QED
      BY ONLY <2>1
  <1> HIDE DEF t
  <1>3. t[0] = b
    BY <1>2 DEF Traces
  <1>4. Len(s) = 0
    OBVIOUS
  <1> QED
    BY <1>3, <1>4 DEF t, Loop

LEMMA LoopAppend ==
    ASSUME NEW V, NEW b \in V, NEW T, NEW F \in [T -> [V -> V]], NEW s \in Seq(T), NEW x \in T
    PROVE  Loop(V, b, F, Append(s, x)) = F[x][Loop(V, b, F, s)]
  <1> DEFINE r == Append(s, x)
             n == Len(s)
             t == CHOOSE g \in Traces(V, b, F, r) : TRUE
  <1>1. /\ r \in Seq(T) /\ Len(r) = n + 1 /\ n \in Nat
        /\ \A i \in 1 .. n : r[i] = s[i]
        /\ r[n + 1] = x
    BY AppendProperties
  <1> HIDE DEF r
  <1>2. t \in Traces(V, b, F, r)
    BY <1>1, TraceExists
  <1> HIDE DEF t
  <1>3. /\ t[0] = b
        /\ \A i \in 1 .. n + 1 : t[i] = F[r[i]][t[i - 1]]
    BY <1>1, <1>2 DEF Traces
  <1>4. \A i \in 1 .. n : t[i - 1] \in V => t[i] = F[s[i]][t[i - 1]]
    BY <1>1, <1>3
  <1>5. t[n] = Loop(V, b, F, s)
    <2>1. n = Len(s)
      OBVIOUS
    <2> HIDE DEF n
    <2> QED
      BY ONLY <1>3, <1>4, <2>1, LoopIs, b \in V, F \in [T -> [V -> V]], s \in Seq(T)
  <1>6. t[n + 1] = F[x][t[n]]
    BY <1>1, <1>3
  <1> QED
    BY <1>1, <1>5, <1>6 DEF t, Loop, r

-----------------------------------------------------------------------------
(* Splitting a text *)

Chars == 0 .. Other
Texts == Seq(Chars)
Lists == Seq(Texts) \ {<< >>}

Nothing == << << >> >>

LEMMA NothingType == Nothing \in Lists /\ Len(Nothing) = 1 /\ Nothing[1] = << >>
  BY DEF Nothing, Lists, Texts

LEMMA CutType ==
    ASSUME NEW p \in Lists, NEW c \in Chars, NEW ch
    PROVE  Cut(p, c, ch) \in Lists
  <1>1. p \in Seq(Texts) /\ Len(p) \in 1 .. Len(p) /\ p[Len(p)] \in Texts
    BY EmptySeq, LenProperties DEF Lists
  <1>2. Append(p[Len(p)], c) \in Texts /\ << >> \in Texts
    BY <1>1 DEF Texts
  <1>3. CASE c = ch
    <2>1. Cut(p, c, ch) = Append(p, << >>)
      BY <1>3 DEF Cut
    <2> QED
      BY <1>1, <1>2, <2>1, AppendProperties DEF Lists
  <1>4. CASE c # ch
    <2> DEFINE w == Append(p[Len(p)], c)
    <2>1. Cut(p, c, ch) = [p EXCEPT ![Len(p)] = w]
      BY <1>4 DEF Cut
    <2> HIDE DEF w
    <2>2. /\ [p EXCEPT ![Len(p)] = w] \in Seq(Texts)
          /\ Len([p EXCEPT ![Len(p)] = w]) = Len(p)
      BY <1>1, <1>2, ExceptSeq DEF w
    <2> QED
      BY <1>1, <2>1, <2>2, EmptySeq DEF Lists
  <1> QED
    BY <1>3, <1>4

LEMMA SplitSteps ==
    ASSUME NEW ch
    PROVE  /\ Split(<< >>, ch) = Nothing
           /\ \A s \in Texts : Split(s, ch) \in Lists
           /\ \A s \in Texts, x \in Chars :
                Split(Append(s, x), ch) = Cut(Split(s, ch), x, ch)
  <1> DEFINE F == [x \in Chars |-> [v \in Lists |-> Cut(v, x, ch)]]
  <1>0. Nothing \in Lists
    BY NothingType
  <1>1. F \in [Chars -> [Lists -> Lists]]
    BY CutType
  <1>2. \A x \in Chars, v \in Lists : F[x][v] = Cut(v, x, ch)
    OBVIOUS
  <1> HIDE DEF F
  <1>3. ASSUME NEW s \in Texts PROVE Split(s, ch) = Loop(Lists, Nothing, F, s)
    <2> DEFINE n == Len(s)
               G(g) == [i \in 0 .. n |-> IF i = 0 THEN Nothing ELSE Cut(g[i - 1], s[i], ch)]
               u == CHOOSE g : g = G(g)
    <2>0. n = Len(s)
      OBVIOUS
    <2>1. n \in Nat /\ \A i \in 1 .. n : s[i] \in Chars
      BY DEF Texts
    <2>2. Split(s, ch) = u[n]
      BY DEF Split, Accumulate, Nothing
    <2> HIDE DEF n
    <2>3. PICK t : t \in Traces(Lists, Nothing, F, s)
      BY <1>0, <1>1, <1>3, TraceExists DEF Texts
    <2>31. /\ t \in [0 .. n -> Lists] /\ t[0] = Nothing
           /\ \A i \in 1 .. n : t[i] = F[s[i]][t[i - 1]] /\ i - 1 \in 0 .. n
      BY <2>0, <2>1, <2>3 DEF Traces
    <2>4. \A i \in 1 .. n : t[i] = Cut(t[i - 1], s[i], ch)
      BY <1>2, <2>1, <2>31
    <2>5. t = G(t)
      BY <2>1, <2>31, <2>4
    <2>6. u = G(u)
      BY <2>5
    <2> HIDE DEF u
    <2>7. u[0] = Nothing /\ \A i \in 1 .. n : u[i] = Cut(u[i - 1], s[i], ch)
      BY <2>1, <2>6
    <2>8. \A i \in 1 .. n : u[i - 1] \in Lists => u[i] = F[s[i]][u[i - 1]]
      BY <1>2, <2>1, <2>7
    <2>9. u[n] = Loop(Lists, Nothing, F, s)
      <3>1. u[0] = Nothing
        BY <2>7
      <3> QED
        BY ONLY <1>0, <1>1, <1>3, <2>0, <2>8, <3>1, LoopIs DEF Texts
    <2> QED
      BY <2>2, <2>9
  <1>4. << >> \in Texts /\ \A s \in Texts, x \in Chars : Append(s, x) \in Texts
    BY DEF Texts
  <1>5. Loop(Lists, Nothing, F, << >>) = Nothing
    BY <1>0, <1>1, LoopEmpty
  <1>6. ASSUME NEW s \in Texts PROVE Loop(Lists, Nothing, F, s) \in Lists
    BY <1>0, <1>1, LoopType DEF Texts
  <1>7. ASSUME NEW s \in Texts, NEW x \in Chars
        PROVE  Loop(Lists, Nothing, F, Append(s, x)) = F[x][Loop(Lists, Nothing, F, s)]
    BY <1>0, <1>1, LoopAppend DEF Texts
  <1> QED
    BY <1>2, <1>3, <1>4, <1>5, <1>6, <1>7

LEMMA CutPairType ==
    ASSUME NEW p \in Lists, NEW c \in Chars, NEW c1, NEW c2
    PROVE  CutPair(p, c, c1, c2) \in Lists
  <1> DEFINE n == Len(p)
             w == p[n]
             f == SubSeq(w, 1, Len(w) - 1)
             q == [p EXCEPT ![n] = f]
             r == [p EXCEPT ![n] = Append(w, c)]
  <1>1. p \in Seq(Texts) /\ n \in 1 .. Len(p) /\ n \in Nat /\ w \in Texts
    BY EmptySeq, LenProperties DEF Lists
  <1>2. Append(w, c) \in Texts /\ << >> \in Texts
    BY <1>1 DEF Texts
  <1>3. f \in Texts
    BY <1>1, SubSeqProperties DEF Texts
  <1>4. CutPair(p, c, c1, c2) \in {Append(q, << >>), r}
    BY DEF CutPair, Last
  <1> HIDE DEF n, w, f
  <1>5. q \in Seq(Texts) /\ r \in Seq(Texts) /\ Len(r) = Len(p)
    BY <1>1, <1>2, <1>3, ExceptSeq
  <1> HIDE DEF q, r
  <1>6. Append(q, << >>) \in Lists
    BY <1>2, <1>5, AppendProperties DEF Lists
  <1>7. r \in Lists
    BY <1>1, <1>5, EmptySeq DEF Lists, n
  <1> QED
    BY <1>4, <1>6, <1>7

LEMMA SplitPairSteps ==
    ASSUME NEW c1, NEW c2
    PROVE  /\ SplitPair(<< >>, c1, c2) = Nothing
           /\ \A s \in Texts : SplitPair(s, c1, c2) \in Lists
           /\ \A s \in Texts, x \in Chars :
                SplitPair(Append(s, x), c1, c2) = CutPair(SplitPair(s, c1, c2), x, c1, c2)
  <1> DEFINE F == [x \in Chars |-> [v \in Lists |-> CutPair(v, x, c1, c2)]]
  <1>0. Nothing \in Lists
    BY NothingType
  <1>1. F \in [Chars -> [Lists -> Lists]]
    BY CutPairType
  <1>2. \A x \in Chars, v \in Lists : F[x][v] = CutPair(v, x, c1, c2)
    OBVIOUS
  <1> HIDE DEF F
  <1>3. ASSUME NEW s \in Texts PROVE SplitPair(s, c1, c2) = Loop(Lists, Nothing, F, s)
    <2> DEFINE n == Len(s)
               G(g) == [i \in 0 .. n |-> IF i = 0 THEN Nothing ELSE CutPair(g[i - 1], s[i], c1, c2)]
               u == CHOOSE g : g = G(g)
    <2>0. n = Len(s)
      OBVIOUS
    <2>1. n \in Nat /\ \A i \in 1 .. n : s[i] \in Chars
      BY DEF Texts
    <2>2. SplitPair(s, c1, c2) = u[n]
      BY DEF SplitPair, Accumulate, Nothing
    <2> HIDE DEF n
    <2>3. PICK t : t \in Traces(Lists, Nothing, F, s)
      BY <1>0, <1>1, <1>3, TraceExists DEF Texts
    <2>31. /\ t \in [0 .. n -> Lists] /\ t[0] = Nothing
           /\ \A i \in 1 .. n : t[i] = F[s[i]][t[i - 1]] /\ i - 1 \in 0 .. n
      BY <2>0, <2>1, <2>3 DEF Traces
    <2>4. \A i \in 1 .. n : t[i] = CutPair(t[i - 1], s[i], c1, c2)
      BY <1>2, <2>1, <2>31
    <2>5. t = G(t)
      BY <2>1, <2>31, <2>4
    <2>6. u = G(u)
      BY <2>5
    <2> HIDE DEF u
    <2>7. u[0] = Nothing /\ \A i \in 1 .. n : u[i] = CutPair(u[i - 1], s[i], c1, c2)
      BY <2>1, <2>6
    <2>8. \A i \in 1 .. n : u[i - 1] \in Lists => u[i] = F[s[i]][u[i - 1]]
      BY <1>2, <2>1, <2>7
    <2>9. u[n] = Loop(Lists, Nothing, F, s)
      <3>1. u[0] = Nothing
        BY <2>7
      <3> QED
        BY ONLY <1>0, <1>1, <1>3, <2>0, <2>8, <3>1, LoopIs DEF Texts
    <2> QED
      BY <2>2, <2>9
  <1>4. << >> \in Texts /\ \A s \in Texts, x \in Chars : Append(s, x) \in Texts
    BY DEF Texts
  <1>5. Loop(Lists, Nothing, F, << >>) = Nothing
    BY <1>0, <1>1, LoopEmpty
  <1>6. ASSUME NEW s \in Texts PROVE Loop(Lists, Nothing, F, s) \in Lists
    BY <1>0, <1>1, LoopType DEF Texts
  <1>7. ASSUME NEW s \in Texts, NEW x \in Chars
        PROVE  Loop(Lists, Nothing, F, Append(s, x)) = F[x][Loop(Lists, Nothing, F, s)]
    BY <1>0, <1>1, LoopAppend DEF Texts
  <1> QED
    BY <1>2, <1>3, <1>4, <1>5, <1>6, <1>7

Numbers == Nat

LEMMA NumberType ==
    ASSUME NEW v \in Nat, NEW base \in Nat, NEW x \in Nat
    PROVE  v * base + x \in Nat
  OBVIOUS

LEMMA NumberSteps ==
    ASSUME NEW base \in Nat
    PROVE  /\ Number(<< >>, base) = 0
           /\ \A s \in Texts : Number(s, base) \in Numbers
           /\ \A s \in Texts, x \in Chars :
                Number(Append(s, x), base) = Number(s, base) * base + x
  <1> DEFINE F == [x \in Chars |-> [v \in Numbers |-> v * base + x]]
  <1>0. 0 \in Numbers
    BY DEF Numbers
  <1>1. F \in [Chars -> [Numbers -> Numbers]]
    BY NumberType DEF Numbers, Chars, Other
  <1>2. \A x \in Chars, v \in Numbers : F[x][v] = v * base + x
    OBVIOUS
  <1> HIDE DEF F
  <1>3. ASSUME NEW s \in Texts PROVE Number(s, base) = Loop(Numbers, 0, F, s)
    <2> DEFINE n == Len(s)
               G(g) == [i \in 0 .. n |-> IF i = 0 THEN 0 ELSE g[i - 1] * base + s[i]]
               u == CHOOSE g : g = G(g)
    <2>0. n = Len(s)
      OBVIOUS
    <2>1. n \in Nat /\ \A i \in 1 .. n : s[i] \in Chars
      BY DEF Texts
    <2>2. Number(s, base) = u[n]
      BY DEF Number, Accumulate
    <2> HIDE DEF n
    <2>3. PICK t : t \in Traces(Numbers, 0, F, s)
      BY <1>0, <1>1, <1>3, TraceExists DEF Texts
    <2>31. /\ t \in [0 .. n -> Numbers] /\ t[0] = 0
           /\ \A i \in 1 .. n : t[i] = F[s[i]][t[i - 1]] /\ i - 1 \in 0 .. n
      BY <2>0, <2>1, <2>3 DEF Traces
    <2>4. \A i \in 1 .. n : t[i] = t[i - 1] * base + s[i]
      BY <1>2, <2>1, <2>31
    <2>5. t = G(t)
      BY <2>1, <2>31, <2>4
    <2>6. u = G(u)
      BY <2>5
    <2> HIDE DEF u
    <2>7. u[0] = 0 /\ \A i \in 1 .. n : u[i] = u[i - 1] * base + s[i]
      BY <2>1, <2>6
    <2>8. \A i \in 1 .. n : u[i - 1] \in Numbers => u[i] = F[s[i]][u[i - 1]]
      BY <1>2, <2>1, <2>7
    <2>9. u[n] = Loop(Numbers, 0, F, s)
      <3>1. u[0] = 0
        BY <2>7
      <3> QED
        BY ONLY <1>0, <1>1, <1>3, <2>0, <2>8, <3>1, LoopIs DEF Texts
    <2> QED
      BY <2>2, <2>9
  <1>4. << >> \in Texts /\ \A s \in Texts, x \in Chars : Append(s, x) \in Texts
    BY DEF Texts
  <1>5. Loop(Numbers, 0, F, << >>) = 0
    BY <1>0, <1>1, LoopEmpty
  <1>6. ASSUME NEW s \in Texts PROVE Loop(Numbers, 0, F, s) \in Numbers
    BY <1>0, <1>1, LoopType DEF Texts
  <1>7. ASSUME NEW s \in Texts, NEW x \in Chars
        PROVE  Loop(Numbers, 0, F, Append(s, x)) = F[x][Loop(Numbers, 0, F, s)]
    BY <1>0, <1>1, LoopAppend DEF Texts
  <1> QED
    BY <1>2, <1>3, <1>4, <1>5, <1>6, <1>7

-----------------------------------------------------------------------------
(* Texts *)

LEMMA TextOps ==
    /\ << >> \in Texts
    /\ \A c \in Chars : <<c>> \in Texts /\ Len(<<c>>) = 1 /\ <<c>>[1] = c
    /\ \A s, t \in Texts :
         /\ s \o t \in Texts /\ Len(s \o t) = Len(s) + Len(t)
         /\ \A i \in 1 .. Len(s) : (s \o t)[i] = s[i]
         /\ \A i \in 1 .. Len(t) : (s \o t)[Len(s) + i] = t[i]
    /\ \A s \in Texts, c \in Chars :
         /\ Append(s, c) \in Texts /\ Len(Append(s, c)) = Len(s) + 1
         /\ \A i \in 1 .. Len(s) : Append(s, c)[i] = s[i]
         /\ Append(s, c)[Len(s) + 1] = c
    /\ \A s \in Texts : Len(s) \in Nat /\ DOMAIN s = 1 .. Len(s)
                        /\ \A i \in 1 .. Len(s) : s[i] \in Chars
    /\ \A s \in Texts : s # << >> => Len(s) >= 1
  <1>1. \A c \in Chars : <<c>> \in Texts /\ Len(<<c>>) = 1 /\ <<c>>[1] = c
    BY DEF Texts
  <1>2. << >> \in Texts /\ \A s \in Texts : s # << >> => Len(s) >= 1
    BY EmptySeq DEF Texts
  <1>3. ASSUME NEW s \in Texts, NEW t \in Texts
        PROVE  /\ s \o t \in Texts /\ Len(s \o t) = Len(s) + Len(t)
               /\ \A i \in 1 .. Len(s) : (s \o t)[i] = s[i]
               /\ \A i \in 1 .. Len(t) : (s \o t)[Len(s) + i] = t[i]
    <2>1. /\ s \o t \in Texts /\ Len(s \o t) = Len(s) + Len(t)
          /\ \A i \in 1 .. Len(s) + Len(t) : (s \o t)[i] =
                IF i <= Len(s) THEN s[i] ELSE t[i - Len(s)]
      BY ConcatProperties DEF Texts
    <2>2. Len(s) \in Nat /\ Len(t) \in Nat
      BY DEF Texts
    <2> QED
      BY <2>1, <2>2
  <1>4. \A s \in Texts, c \in Chars :
          /\ Append(s, c) \in Texts /\ Len(Append(s, c)) = Len(s) + 1
          /\ \A i \in 1 .. Len(s) : Append(s, c)[i] = s[i]
          /\ Append(s, c)[Len(s) + 1] = c
    BY AppendProperties DEF Texts
  <1>5. \A s \in Texts : Len(s) \in Nat /\ DOMAIN s = 1 .. Len(s)
                         /\ \A i \in 1 .. Len(s) : s[i] \in Chars
    BY DEF Texts
  <1> QED
    BY <1>1, <1>2, <1>3, <1>4, <1>5

LEMMA SameText ==
    ASSUME NEW s \in Texts, NEW t \in Texts, Len(s) = Len(t),
           \A i \in 1 .. Len(s) : s[i] = t[i]
    PROVE  s = t
  BY SeqEqual DEF Texts

LEMMA ConcatAppend ==
    ASSUME NEW s \in Texts, NEW t \in Texts, NEW c \in Chars
    PROVE  s \o Append(t, c) = Append(s \o t, c)
  <1> DEFINE l == s \o Append(t, c)
             r == Append(s \o t, c)
  <1>1. l \in Texts /\ r \in Texts /\ Len(l) = Len(s) + Len(t) + 1 /\ Len(r) = Len(l)
    BY TextOps
  <1>2. ASSUME NEW i \in 1 .. Len(l) PROVE l[i] = r[i]
    <2>1. Len(s) \in Nat /\ Len(t) \in Nat
      BY TextOps
    <2>2. CASE i <= Len(s)
      BY <1>1, <2>1, <2>2, TextOps
    <2>3. CASE i > Len(s)
      <3>1. PICK j \in 1 .. Len(t) + 1 : i = Len(s) + j
        <4>1. i - Len(s) \in 1 .. Len(t) + 1 /\ i = Len(s) + (i - Len(s))
          BY <1>1, <2>1, <2>3
        <4> QED
          BY <4>1
      <3>2. l[i] = Append(t, c)[j]
        <4> DEFINE a == Append(t, c)
        <4>1. a \in Texts /\ Len(a) = Len(t) + 1
          BY TextOps
        <4> HIDE DEF a
        <4>2. \A k \in 1 .. Len(a) : (s \o a)[Len(s) + k] = a[k]
          BY <4>1, TextOps
        <4>3. (s \o a)[Len(s) + j] = a[j]
          BY <4>1, <4>2
        <4> QED
          BY <3>1, <4>3 DEF a
      <3>3. CASE j <= Len(t)
        <4>1. l[i] = t[j]
          BY <2>1, <3>2, <3>3, TextOps
        <4>2. i \in 1 .. Len(s \o t) /\ r[i] = (s \o t)[i]
          BY <2>1, <3>1, <3>3, TextOps
        <4> QED
          BY <2>1, <3>1, <3>3, <4>1, <4>2, TextOps
      <3>4. CASE j = Len(t) + 1
        <4>1. l[i] = c
          BY <3>2, <3>4, TextOps
        <4>2. i = Len(s \o t) + 1
          BY <2>1, <3>1, <3>4, TextOps
        <4> QED
          BY <4>1, <4>2, TextOps
      <3> QED
        BY <2>1, <3>3, <3>4
    <2> QED
      BY <1>1, <2>1, <2>2, <2>3
  <1> HIDE DEF l, r
  <1>3. l = r
    BY <1>1, <1>2, SameText
  <1> QED
    BY <1>3 DEF l, r

LEMMA TwoOf ==
    ASSUME NEW S, NEW a \in S, NEW b \in S
    PROVE  Append(<<a>>, b) = <<a, b>>
  <1>1. <<a, b>> \in Seq(S) /\ Append(<<a>>, b) \in Seq(S)
    OBVIOUS
  <1>2. Len(<<a, b>>) = 2 /\ Len(Append(<<a>>, b)) = 2
    OBVIOUS
  <1>3. \A i \in 1 .. 2 : <<a, b>>[i] = Append(<<a>>, b)[i]
    OBVIOUS
  <1> QED
    BY <1>1, <1>2, <1>3, SeqEqual

\* A property of texts that the empty one has and that Append preserves.
LEMMA InductText ==
    ASSUME NEW S, << >> \in S,
           \A s \in Texts, c \in Chars : s \in S => Append(s, c) \in S
    PROVE  Texts \subseteq S
  BY InductSeq DEF Texts

LEMMA ContainsOps ==
    ASSUME NEW ch
    PROVE  /\ ~Contains(<< >>, ch)
           /\ \A s \in Texts, c \in Chars : Contains(Append(s, c), ch) <=> Contains(s, ch) \/ c = ch
           /\ \A s, t \in Texts : Contains(s \o t, ch) <=> Contains(s, ch) \/ Contains(t, ch)
           /\ \A c \in Chars : Contains(<<c>>, ch) <=> c = ch
  <1>1. ~Contains(<< >>, ch)
    BY DEF Contains
  <1>2. ASSUME NEW s \in Texts, NEW c \in Chars
        PROVE  Contains(Append(s, c), ch) <=> Contains(s, ch) \/ c = ch
    <2>1. /\ DOMAIN Append(s, c) = 1 .. Len(s) + 1 /\ DOMAIN s = 1 .. Len(s) /\ Len(s) \in Nat
          /\ \A i \in 1 .. Len(s) : Append(s, c)[i] = s[i]
          /\ Append(s, c)[Len(s) + 1] = c
      BY TextOps
    <2>2. \A i \in 1 .. Len(s) + 1 : i \in 1 .. Len(s) \/ i = Len(s) + 1
      BY <2>1
    <2>3. 1 .. Len(s) \subseteq 1 .. Len(s) + 1 /\ Len(s) + 1 \in 1 .. Len(s) + 1
      BY <2>1
    <2> QED
      BY <2>1, <2>2, <2>3 DEF Contains
  <1>3. ASSUME NEW s \in Texts, NEW t \in Texts
        PROVE  Contains(s \o t, ch) <=> Contains(s, ch) \/ Contains(t, ch)
    <2>1. /\ DOMAIN (s \o t) = 1 .. Len(s) + Len(t) /\ DOMAIN s = 1 .. Len(s)
          /\ DOMAIN t = 1 .. Len(t) /\ Len(s) \in Nat /\ Len(t) \in Nat
          /\ \A i \in 1 .. Len(s) : (s \o t)[i] = s[i]
          /\ \A i \in 1 .. Len(t) : (s \o t)[Len(s) + i] = t[i]
      BY TextOps
    <2>2. ASSUME NEW i \in 1 .. Len(s) + Len(t), (s \o t)[i] = ch
          PROVE  Contains(s, ch) \/ Contains(t, ch)
      <3>1. CASE i <= Len(s)
        BY <2>1, <2>2, <3>1 DEF Contains
      <3>2. CASE i > Len(s)
        <4>1. i - Len(s) \in 1 .. Len(t) /\ i = Len(s) + (i - Len(s))
          BY <2>1, <3>2
        <4> QED
          BY <2>1, <2>2, <4>1 DEF Contains
      <3> QED
        BY <2>1, <3>1, <3>2
    <2>3. ASSUME NEW i \in 1 .. Len(s), s[i] = ch PROVE Contains(s \o t, ch)
      BY <2>1, <2>3 DEF Contains
    <2>4. ASSUME NEW i \in 1 .. Len(t), t[i] = ch PROVE Contains(s \o t, ch)
      <3>1. Len(s) + i \in 1 .. Len(s) + Len(t)
        BY <2>1
      <3> QED
        BY <2>1, <2>4, <3>1 DEF Contains
    <2> QED
      BY <2>1, <2>2, <2>3, <2>4 DEF Contains
  <1>4. \A c \in Chars : Contains(<<c>>, ch) <=> c = ch
    BY DEF Contains
  <1> QED
    BY <1>1, <1>2, <1>3, <1>4

\* The last piece is replaced.
LEMMA ExceptLast ==
    ASSUME NEW q \in Seq(Texts), NEW w \in Texts, NEW v \in Texts
    PROVE  /\ Append(q, w) \in Lists
           /\ Len(Append(q, w)) = Len(q) + 1
           /\ Append(q, w)[Len(q) + 1] = w
           /\ [Append(q, w) EXCEPT ![Len(q) + 1] = v] = Append(q, v)
  <1> DEFINE p == Append(q, w)
             n == Len(q) + 1
             r == Append(q, v)
             e == [p EXCEPT ![n] = v]
  <1>1. /\ p \in Seq(Texts) /\ p # << >> /\ Len(p) = n /\ n \in 1 .. Len(p)
        /\ \A i \in 1 .. Len(q) : p[i] = q[i]
        /\ p[n] = w
    BY AppendProperties
  <1>2. p \in Lists
    BY <1>1 DEF Lists
  <1> HIDE DEF p
  <1>5. /\ r \in Seq(Texts) /\ Len(r) = n
        /\ \A i \in 1 .. Len(q) : r[i] = q[i]
        /\ r[n] = v
    BY AppendProperties
  <1>6. /\ e \in Seq(Texts) /\ Len(e) = n
        /\ \A j \in 1 .. n : e[j] = IF j = n THEN v ELSE p[j]
    BY <1>1, ExceptSeq
  <1>7. \A i \in 1 .. n : e[i] = r[i]
    <2>1. \A i \in 1 .. n : i \in 1 .. Len(q) \/ i = n
      BY <1>1
    <2> HIDE DEF e, r
    <2> QED
      BY <1>1, <1>5, <1>6, <2>1
  <1> HIDE DEF e, r, n
  <1>8. e = r
    BY <1>5, <1>6, <1>7, SeqEqual
  <1> QED
    BY <1>1, <1>2, <1>8 DEF p, r, e, n

\* Cut and CutPair, on the pieces before the last one and the last one.
LEMMA CutLast ==
    ASSUME NEW q \in Seq(Texts), NEW w \in Texts, NEW c \in Chars, NEW ch
    PROVE  Cut(Append(q, w), c, ch) = IF c = ch THEN Append(Append(q, w), << >>)
                                      ELSE Append(q, Append(w, c))
  <1> DEFINE p == Append(q, w)
             n == Len(q) + 1
             v == Append(w, c)
  <1>1. v \in Texts
    BY TextOps
  <1>2. Len(p) = n /\ p[n] = w /\ [p EXCEPT ![n] = v] = Append(q, v)
    <2> HIDE DEF v
    <2> QED
      BY <1>1, ExceptLast
  <1> HIDE DEF p, n
  <1>3. Cut(p, c, ch) = IF c = ch THEN Append(p, << >>) ELSE Append(q, v)
    BY <1>2 DEF Cut
  <1> QED
    BY <1>3 DEF p

LEMMA CutPairLast ==
    ASSUME NEW q \in Seq(Texts), NEW w \in Texts, NEW c \in Chars, NEW c1, NEW c2
    PROVE  CutPair(Append(q, w), c, c1, c2) =
             IF c = c2 /\ w # << >> /\ w[Len(w)] = c1
             THEN Append(Append(q, SubSeq(w, 1, Len(w) - 1)), << >>)
             ELSE Append(q, Append(w, c))
  <1> DEFINE p == Append(q, w)
             n == Len(q) + 1
             v == Append(w, c)
             f == SubSeq(w, 1, Len(w) - 1)
  <1>1. v \in Texts
    BY TextOps
  <1>2. f \in Texts
    BY SubSeqProperties DEF Texts
  <1>3. /\ Len(p) = n /\ p[n] = w
        /\ [p EXCEPT ![n] = v] = Append(q, v)
        /\ [p EXCEPT ![n] = f] = Append(q, f)
    <2> HIDE DEF v, f
    <2> QED
      BY <1>1, <1>2, ExceptLast
  <1> HIDE DEF p, n
  <1>4. CutPair(p, c, c1, c2) = IF c = c2 /\ w # << >> /\ w[Len(w)] = c1
                                THEN Append(Append(q, f), << >>)
                                ELSE Append(q, v)
    BY <1>3 DEF CutPair, Last
  <1> QED
    BY <1>4 DEF p

\* A text without the separator goes to the end of the last piece.
LEMMA SplitGrow ==
    ASSUME NEW ch, NEW t \in Texts, NEW q \in Seq(Texts), NEW v \in Texts,
           Split(t, ch) = Append(q, v),
           NEW w \in Texts, ~Contains(w, ch)
    PROVE  Split(t \o w, ch) = Append(q, v \o w)
  <1> DEFINE Good(x) == Contains(x, ch) \/ Split(t \o x, ch) = Append(q, v \o x)
             S == {x \in Texts : Good(x)}
  <1>1. Good(<< >>)
    <2>1. t \o << >> = t /\ v \o << >> = v
      BY ConcatEmptySeq DEF Texts
    <2> QED
      BY <2>1
  <1>2. ASSUME NEW x \in Texts, NEW c \in Chars, Good(x) PROVE Good(Append(x, c))
    <2> SUFFICES ASSUME ~Contains(Append(x, c), ch)
                 PROVE  Split(t \o Append(x, c), ch) = Append(q, v \o Append(x, c))
      OBVIOUS
    <2>1. ~Contains(x, ch) /\ c # ch
      BY ContainsOps
    <2>2. Split(t \o x, ch) = Append(q, v \o x)
      BY <1>2, <2>1
    <2>3. t \o x \in Texts /\ v \o x \in Texts
      BY TextOps
    <2>4. Split(Append(t \o x, c), ch) = Cut(Append(q, v \o x), c, ch)
      BY <2>2, <2>3, SplitSteps
    <2>5. Cut(Append(q, v \o x), c, ch) = Append(q, Append(v \o x, c))
      <3>1. \A y \in Texts : Cut(Append(q, y), c, ch) =
                 IF c = ch THEN Append(Append(q, y), << >>) ELSE Append(q, Append(y, c))
        BY CutLast
      <3> QED
        BY <2>1, <2>3, <3>1
    <2> QED
      BY <2>4, <2>5, ConcatAppend
  <1> HIDE DEF Good
  <1>3. << >> \in S /\ \A x \in Texts, c \in Chars : x \in S => Append(x, c) \in S
    BY <1>1, <1>2, TextOps
  <1> HIDE DEF S
  <1>4. Texts \subseteq S
    BY <1>3, InductText
  <1> QED
    BY <1>4 DEF S, Good

\* A text without the separator is one piece.
LEMMA SplitFree ==
    ASSUME NEW ch, NEW w \in Texts, ~Contains(w, ch)
    PROVE  Split(w, ch) = <<w>>
  <1>1. Split(<< >>, ch) = Append(<< >>, << >>)
    BY SplitSteps DEF Nothing
  <1>2. << >> \in Seq(Texts) /\ << >> \in Texts
    BY TextOps
  <1>3. Split(<< >> \o w, ch) = Append(<< >>, << >> \o w)
    BY <1>1, <1>2, SplitGrow
  <1>4. << >> \o w = w
    BY ConcatEmptySeq DEF Texts
  <1> QED
    BY <1>3, <1>4

\* A separator and a text without one are one more piece.
LEMMA SplitAfter ==
    ASSUME NEW ch \in Chars, NEW s \in Texts, NEW w \in Texts, ~Contains(w, ch)
    PROVE  Split(s \o <<ch>> \o w, ch) = Append(Split(s, ch), w)
  <1> DEFINE t == s \o <<ch>>
             q == Split(s, ch)
  <1>1. q \in Lists
    BY SplitSteps
  <1>2. t = Append(s, ch)
    BY AppendIsConcat DEF Texts
  <1>3. Split(t, ch) = Append(q, << >>)
    BY <1>2, SplitSteps DEF Cut
  <1>4. t \in Texts /\ << >> \in Texts /\ q \in Seq(Texts)
    BY <1>1, TextOps DEF Lists
  <1> HIDE DEF t, q
  <1>5. Split(t \o w, ch) = Append(q, << >> \o w)
    BY <1>3, <1>4, SplitGrow, ZenonT(40)
  <1>6. << >> \o w = w
    BY ConcatEmptySeq DEF Texts
  <1> QED
    BY <1>5, <1>6 DEF t, q

\* No separator of two characters is in the text.
Apart(w, c1, c2) == \A i \in 1 .. Len(w) - 1 : ~(w[i] = c1 /\ w[i + 1] = c2)

LEMMA ApartAppend ==
    ASSUME NEW w \in Texts, NEW c \in Chars, NEW c1, NEW c2
    PROVE  /\ Apart(<< >>, c1, c2)
           /\ Apart(Append(w, c), c1, c2) <=>
                Apart(w, c1, c2) /\ ~(c = c2 /\ w # << >> /\ w[Len(w)] = c1)
  <1>1. Apart(<< >>, c1, c2)
    BY DEF Apart
  <1> DEFINE n == Len(w)
             a == Append(w, c)
  <1>2. /\ n \in Nat /\ Len(a) = n + 1 /\ a[n + 1] = c
        /\ \A i \in 1 .. n : a[i] = w[i]
        /\ w # << >> <=> n # 0
    BY TextOps, EmptySeq DEF Texts
  <1> HIDE DEF a
  <1>3. CASE n = 0
    BY <1>1, <1>2, <1>3 DEF Apart, a
  <1>4. CASE n # 0
    <2>1. \A i \in 1 .. n : a[i] = w[i] /\ (i < n => i + 1 \in 1 .. n)
      BY <1>2
    <2>2. n \in 1 .. n
      BY <1>2, <1>4
    <2>3. ASSUME Apart(a, c1, c2)
          PROVE  Apart(w, c1, c2) /\ ~(c = c2 /\ w # << >> /\ w[n] = c1)
      <3>1. \A i \in 1 .. n : ~(a[i] = c1 /\ a[i + 1] = c2)
        BY <1>2, <2>3 DEF Apart
      <3>2. \A i \in 1 .. n - 1 : i \in 1 .. n /\ i + 1 \in 1 .. n
        BY <1>2
      <3>3. Apart(w, c1, c2)
        BY <1>2, <2>1, <3>1, <3>2 DEF Apart
      <3> QED
        BY <1>2, <2>2, <3>1, <3>3
    <2>4. ASSUME Apart(w, c1, c2), ~(c = c2 /\ w # << >> /\ w[n] = c1)
          PROVE  Apart(a, c1, c2)
      <3> SUFFICES ASSUME NEW i \in 1 .. n PROVE ~(a[i] = c1 /\ a[i + 1] = c2)
        BY <1>2 DEF Apart
      <3>1. CASE i = n
        BY <1>2, <1>4, <2>4, <3>1
      <3>2. CASE i # n
        <4>1. i \in 1 .. n - 1 /\ i + 1 \in 1 .. n
          BY <1>2, <3>2
        <4> QED
          BY <1>2, <2>4, <4>1 DEF Apart
      <3> QED
        BY <3>1, <3>2
    <2> QED
      BY <1>1, <2>3, <2>4 DEF a
  <1> QED
    BY <1>1, <1>3, <1>4 DEF a

\* Behind t the last piece v only grows, as long as no separator is in it.
Grows(t, q, v, c1, c2) ==
    \A w \in Texts : Apart(v \o w, c1, c2) => SplitPair(t \o w, c1, c2) = Append(q, v \o w)

LEMMA PairGrow ==
    ASSUME NEW c1, NEW c2, NEW t \in Texts, NEW q \in Seq(Texts), NEW v \in Texts,
           SplitPair(t, c1, c2) = Append(q, v)
    PROVE  Grows(t, q, v, c1, c2)
  <1> DEFINE Good(x) == Apart(v \o x, c1, c2) => SplitPair(t \o x, c1, c2) = Append(q, v \o x)
             S == {x \in Texts : Good(x)}
  <1>1. Good(<< >>)
    <2>1. t \o << >> = t /\ v \o << >> = v
      BY ConcatEmptySeq DEF Texts
    <2> QED
      BY <2>1
  <1>2. ASSUME NEW x \in Texts, NEW c \in Chars, Good(x) PROVE Good(Append(x, c))
    <2> SUFFICES ASSUME Apart(v \o Append(x, c), c1, c2)
                 PROVE  SplitPair(t \o Append(x, c), c1, c2) = Append(q, v \o Append(x, c))
      OBVIOUS
    <2> DEFINE yy == v \o x
               z == t \o x
    <2>1. yy \in Texts /\ z \in Texts
      BY TextOps
    <2>2. v \o Append(x, c) = Append(yy, c) /\ t \o Append(x, c) = Append(z, c)
      BY ConcatAppend
    <2>3. Apart(Append(yy, c), c1, c2)
      BY <2>2
    <2>4. Apart(yy, c1, c2) => SplitPair(z, c1, c2) = Append(q, yy)
      BY <1>2
    <2> HIDE DEF yy, z
    <2>5. Apart(yy, c1, c2) /\ ~(c = c2 /\ yy # << >> /\ yy[Len(yy)] = c1)
      BY <2>1, <2>3, ApartAppend
    <2>6. SplitPair(Append(z, c), c1, c2) = CutPair(Append(q, yy), c, c1, c2)
      <3>1. \A s \in Texts, x0 \in Chars :
              SplitPair(Append(s, x0), c1, c2) = CutPair(SplitPair(s, c1, c2), x0, c1, c2)
        BY SplitPairSteps
      <3> QED
        BY <2>1, <2>4, <2>5, <3>1
    <2>7. CutPair(Append(q, yy), c, c1, c2) = Append(q, Append(yy, c))
      BY <2>1, <2>5, CutPairLast
    <2> QED
      BY <2>2, <2>6, <2>7
  <1> HIDE DEF Good
  <1>3. << >> \in S /\ \A x \in Texts, c \in Chars : x \in S => Append(x, c) \in S
    BY <1>1, <1>2, TextOps
  <1> HIDE DEF S
  <1>4. Texts \subseteq S
    BY <1>3, InductText
  <1> QED
    BY <1>4 DEF S, Good, Grows

LEMMA PairFree ==
    ASSUME NEW c1, NEW c2, NEW w \in Texts, Apart(w, c1, c2)
    PROVE  SplitPair(w, c1, c2) = <<w>>
  <1> DEFINE e == << >>
  <1>1. SplitPair(e, c1, c2) = Append(e, e)
    BY SplitPairSteps DEF Nothing
  <1>2. e \in Seq(Texts) /\ e \in Texts
    BY TextOps
  <1>3. e \o w = w
    BY ConcatEmptySeq DEF Texts
  <1>4. Append(e, w) = <<w>>
    OBVIOUS
  <1> HIDE DEF e
  <1>5. Grows(e, e, e, c1, c2)
    BY <1>1, <1>2, PairGrow
  <1>6. SplitPair(e \o w, c1, c2) = Append(e, w)
    BY <1>3, <1>5 DEF Grows
  <1> QED
    BY <1>3, <1>4, <1>6

\* One separator, with no other one in front of it or behind it.
LEMMA PairBetween ==
    ASSUME NEW c1 \in Chars, NEW c2 \in Chars, NEW s \in Texts, NEW w \in Texts,
           Apart(Append(s, c1), c1, c2), Apart(w, c1, c2)
    PROVE  SplitPair(s \o <<c1, c2>> \o w, c1, c2) = <<s, w>>
  <1> DEFINE a == Append(s, c1)
             t == Append(a, c2)
             e == << >>
             q == Append(e, s)
  <1>1. a \in Texts /\ Len(a) = Len(s) + 1 /\ a[Len(s) + 1] = c1 /\ Len(s) \in Nat
    BY TextOps
  <1>2. SubSeq(a, 1, Len(a) - 1) = s
    <2>1. \A i \in 1 .. Len(s) : a[i] = s[i] /\ a[i] \in Chars
      BY TextOps
    <2>2. /\ SubSeq(a, 1, Len(s)) \in Texts
          /\ Len(SubSeq(a, 1, Len(s))) = Len(s)
          /\ \A i \in 1 .. Len(s) : SubSeq(a, 1, Len(s))[i] = a[i]
      <3> HIDE DEF a
      <3>1. /\ SubSeq(a, 1, Len(s)) \in Seq(Chars)
            /\ Len(SubSeq(a, 1, Len(s))) = IF 1 <= Len(s) THEN Len(s) - 1 + 1 ELSE 0
            /\ \A i \in 1 .. Len(s) - 1 + 1 : SubSeq(a, 1, Len(s))[i] = a[1 + i - 1]
        BY <1>1, <2>1, SubSeqProperties
      <3> QED
        BY <1>1, <3>1 DEF Texts
    <2> HIDE DEF a
    <2>3. SubSeq(a, 1, Len(s)) = s
      BY <2>1, <2>2, SameText
    <2> QED
      BY <1>1, <2>3
  <1>3. s \o <<c1, c2>> = t
    <2>1. <<c1, c2>> = Append(<<c1>>, c2) /\ s \o <<c1>> = a
      BY AppendIsConcat DEF Texts
    <2>2. <<c1>> \in Texts
      BY TextOps
    <2> QED
      BY <2>1, <2>2, ConcatAppend
  <1>4. SplitPair(a, c1, c2) = Append(e, a)
    <2>1. SplitPair(a, c1, c2) = <<a>>
      BY <1>1, PairFree
    <2> QED
      BY <2>1
  <1>5. a # e
    BY <1>1
  <1>6. e \in Texts /\ e \in Seq(Texts) /\ q \in Seq(Texts)
    BY TextOps
  <1>7. e \o w = w
    BY ConcatEmptySeq DEF Texts
  <1>8. t \in Texts
    BY <1>1, TextOps
  <1>9. Append(q, w) = <<s, w>>
    <2>1. q = <<s>>
      OBVIOUS
    <2> QED
      BY <2>1, TwoOf
  <1>10. CutPair(Append(e, a), c2, c1, c2) = Append(q, e)
    <2>1. CutPair(Append(e, a), c2, c1, c2) =
            IF a # e /\ a[Len(a)] = c1 THEN Append(Append(e, SubSeq(a, 1, Len(a) - 1)), e)
            ELSE Append(e, Append(a, c2))
      <3> HIDE DEF a, e
      <3>1. \A v \in Texts : CutPair(Append(e, v), c2, c1, c2) =
               IF c2 = c2 /\ v # << >> /\ v[Len(v)] = c1
               THEN Append(Append(e, SubSeq(v, 1, Len(v) - 1)), << >>)
               ELSE Append(e, Append(v, c2))
        BY <1>6, CutPairLast
      <3> QED
        BY <1>1, <3>1 DEF e
    <2> QED
      BY <1>1, <1>2, <1>5, <2>1
  <1> HIDE DEF a, e, q
  <1>11. SplitPair(t, c1, c2) = Append(q, e)
    <2>1. \A r \in Texts, x \in Chars :
              SplitPair(Append(r, x), c1, c2) = CutPair(SplitPair(r, c1, c2), x, c1, c2)
      BY SplitPairSteps
    <2> QED
      BY <1>1, <1>4, <1>10, <2>1
  <1> HIDE DEF t
  <1>12. Grows(t, q, e, c1, c2)
    BY <1>6, <1>8, <1>11, PairGrow
  <1>13. SplitPair(t \o w, c1, c2) = Append(q, w)
    BY <1>7, <1>12 DEF Grows
  <1> QED
    BY <1>3, <1>9, <1>13

-----------------------------------------------------------------------------
(* Numbers and their digits *)

LEMMA Widths ==
    /\ \A v : v \in Words16 <=> v \in Nat /\ v <= 65535
    /\ \A v : v \in Bytes <=> v \in Nat /\ v <= 255
    /\ MaxWord = 65535 /\ MaxByte = 255
  <1>1. MaxWord = 65535 /\ MaxByte = 255
    BY DEF MaxWord, MaxByte
  <1>2. MaxWord \in Nat /\ MaxByte \in Nat
    BY <1>1
  <1>3. /\ \A v : v \in Words16 <=> v \in Nat /\ v <= MaxWord
        /\ \A v : v \in Bytes <=> v \in Nat /\ v <= MaxByte
    BY <1>2 DEF Words16, Bytes
  <1> QED
    BY <1>1, <1>3

\* t is w without its last digit.
Begins(t, w, base) ==
    /\ t \in Texts /\ Len(t) = Len(w) - 1
    /\ \A i \in 1 .. Len(w) - 1 : t[i] = w[i]
    /\ Number(w, base) = Number(t, base) * base + w[Len(w)]

LEMMA NumberOne ==
    ASSUME NEW base \in Nat, NEW w \in Texts, w # << >>
    PROVE  \E t : Begins(t, w, base)
  <1>1. PICK t \in Texts, c \in Chars : w = Append(t, c)
    BY SequenceEmptyOrAppend DEF Texts
  <1>2. /\ Len(w) = Len(t) + 1 /\ Len(t) \in Nat /\ w[Len(w)] = c
        /\ \A i \in 1 .. Len(t) : t[i] = w[i]
    BY <1>1, TextOps
  <1>3. \A s \in Texts, x \in Chars : Number(Append(s, x), base) = Number(s, base) * base + x
    BY NumberSteps
  <1>4. Number(w, base) = Number(t, base) * base + c
    BY <1>1, <1>3
  <1>5. Len(t) = Len(w) - 1
    BY <1>2
  <1> QED
    BY <1>2, <1>4, <1>5 DEF Begins

LEMMA LongText ==
    ASSUME NEW w, Len(w) # 0
    PROVE  w # << >>
  OBVIOUS

\* The number a word of up to five digits stands for.
LEMMA NumberOf ==
    ASSUME NEW base \in Nat
    PROVE  \A w \in Texts :
             /\ Number(w, base) \in Nat
             /\ Len(w) = 1 => Number(w, base) = w[1]
             /\ Len(w) = 2 => Number(w, base) = w[1] * base + w[2]
             /\ Len(w) = 3 => Number(w, base) = (w[1] * base + w[2]) * base + w[3]
             /\ Len(w) = 4 => Number(w, base) = ((w[1] * base + w[2]) * base + w[3]) * base + w[4]
             /\ Len(w) = 5 => Number(w, base) =
                  (((w[1] * base + w[2]) * base + w[3]) * base + w[4]) * base + w[5]
  <1>1. \A w \in Texts : Number(w, base) \in Nat
    BY NumberSteps DEF Numbers
  <1>2. ASSUME NEW w \in Texts, Len(w) = 1 PROVE Number(w, base) = w[1]
    <2>0. w # << >>
      <3>1. Len(w) # 0
        BY <1>2
      <3> QED
        BY ONLY <3>1, LongText
    <2>1. PICK t : Begins(t, w, base)
      BY <2>0, NumberOne
    <2>2. /\ t \in Texts
          /\ Len(t) = 0 /\ Number(w, base) = Number(t, base) * base + w[1]
      BY <1>2, <2>1 DEF Begins
    <2>3. t = << >> /\ w[1] \in Nat
      BY <1>2, <2>2, TextOps, EmptySeq, SMTT(40) DEF Texts, Chars, Other
    <2>4. Number(t, base) = 0
      BY <2>3, NumberSteps
    <2>5. 0 * base + w[1] = w[1]
      BY <2>3
    <2> QED
      BY <2>2, <2>4, <2>5
  <1>3. ASSUME NEW w \in Texts, Len(w) = 2 PROVE Number(w, base) = w[1] * base + w[2]
    <2>0. w # << >>
      BY <1>3
    <2>1. PICK t : Begins(t, w, base)
      BY <2>0, NumberOne
    <2>2. /\ t \in Texts
          /\ Len(t) = 1 /\ \A i \in 1 .. 1 : t[i] = w[i]
          /\ Number(w, base) = Number(t, base) * base + w[2]
      BY <1>3, <2>1 DEF Begins
    <2>3. Number(t, base) = t[1] /\ t[1] = w[1]
      BY <1>2, <2>2
    <2> QED
      BY <2>2, <2>3
  <1>4. ASSUME NEW w \in Texts, Len(w) = 3
        PROVE  Number(w, base) = (w[1] * base + w[2]) * base + w[3]
    <2>0. w # << >>
      BY <1>4
    <2>1. PICK t : Begins(t, w, base)
      BY <2>0, NumberOne
    <2>2. /\ t \in Texts
          /\ Len(t) = 2 /\ \A i \in 1 .. 2 : t[i] = w[i]
          /\ Number(w, base) = Number(t, base) * base + w[3]
      BY <1>4, <2>1 DEF Begins
    <2>3. Number(t, base) = t[1] * base + t[2] /\ t[1] = w[1] /\ t[2] = w[2]
      BY <1>3, <2>2
    <2> QED
      BY <2>2, <2>3
  <1>5. ASSUME NEW w \in Texts, Len(w) = 4
        PROVE  Number(w, base) = ((w[1] * base + w[2]) * base + w[3]) * base + w[4]
    <2>0. w # << >>
      BY <1>5
    <2>1. PICK t : Begins(t, w, base)
      BY <2>0, NumberOne
    <2>2. /\ t \in Texts
          /\ Len(t) = 3 /\ \A i \in 1 .. 3 : t[i] = w[i]
          /\ Number(w, base) = Number(t, base) * base + w[4]
      BY <1>5, <2>1 DEF Begins
    <2>3. Number(t, base) = (t[1] * base + t[2]) * base + t[3]
      BY <1>4, <2>2
    <2>4. t[1] = w[1] /\ t[2] = w[2] /\ t[3] = w[3]
      BY <2>2
    <2> QED
      BY <2>2, <2>3, <2>4
  <1>6. ASSUME NEW w \in Texts, Len(w) = 5
        PROVE  Number(w, base) = (((w[1] * base + w[2]) * base + w[3]) * base + w[4]) * base + w[5]
    <2>0. w # << >>
      BY <1>6
    <2>1. PICK t : Begins(t, w, base)
      BY <2>0, NumberOne
    <2>2. /\ t \in Texts
          /\ Len(t) = 4 /\ \A i \in 1 .. 4 : t[i] = w[i]
          /\ Number(w, base) = Number(t, base) * base + w[5]
      BY <1>6, <2>1 DEF Begins
    <2>3. Number(t, base) = ((t[1] * base + t[2]) * base + t[3]) * base + t[4]
      BY <1>5, <2>2
    <2>4. t[1] = w[1] /\ t[2] = w[2] /\ t[3] = w[3] /\ t[4] = w[4]
      BY <2>2
    <2> QED
      BY <2>2, <2>3, <2>4
  <1> QED
    BY <1>1, <1>2, <1>3, <1>4, <1>5, <1>6

\* The end of a text.
LEMMA Ending ==
    ASSUME NEW w \in Texts, NEW f \in 1 .. Len(w)
    PROVE  /\ SubSeq(w, f, Len(w)) \in Texts
           /\ Len(SubSeq(w, f, Len(w))) = Len(w) - f + 1
           /\ \A i \in 1 .. Len(w) - f + 1 : SubSeq(w, f, Len(w))[i] = w[f + i - 1]
  <1>1. Len(w) \in Nat /\ \A i \in f .. Len(w) : w[i] \in Chars
    BY TextOps
  <1>2. /\ SubSeq(w, f, Len(w)) \in Seq(Chars)
        /\ Len(SubSeq(w, f, Len(w))) = IF f <= Len(w) THEN Len(w) - f + 1 ELSE 0
        /\ \A i \in 1 .. Len(w) - f + 1 : SubSeq(w, f, Len(w))[i] = w[f + i - 1]
    BY <1>1, SubSeqProperties
  <1> QED
    BY <1>1, <1>2 DEF Texts

\* Strip takes the zeros before the first other digit, or before the last one.
LEMMA StripIs ==
    ASSUME NEW w \in Texts, NEW n, n = Len(w), NEW f \in 1 .. n, f = n \/ w[f] # 0,
           \A i \in 1 .. n : i < f => w[i] = 0
    PROVE  Strip(w) = SubSeq(w, f, n)
  <1> DEFINE nonzero == {i \in DOMAIN w : w[i] # 0} \cup {Len(w)}
             first == CHOOSE i \in nonzero : \A j \in nonzero : i <= j
  <1>1. n \in Nat /\ DOMAIN w = 1 .. n
    BY TextOps
  <1>2. f \in nonzero
    BY <1>1
  <1>3. \A j \in nonzero : j \in 1 .. n /\ f <= j
    <2> TAKE j \in nonzero
    <2>1. j \in 1 .. n
      BY <1>1
    <2>2. ~(j < f)
      BY <1>1, <2>1
    <2> QED
      BY <1>1, <2>1, <2>2
  <1>4. Strip(w) = SubSeq(w, first, n)
    BY DEF Strip
  <1> HIDE DEF nonzero
  <1>5. first \in nonzero /\ \A j \in nonzero : first <= j
    BY <1>2, <1>3
  <1> HIDE DEF first
  <1>6. first = f
    BY <1>1, <1>2, <1>3, <1>5
  <1> QED
    BY <1>4, <1>6

\* The digits of a 16-bit number, of either base.
LEMMA HexDigits ==
    ASSUME NEW v \in Words16, NEW d1, NEW d2, NEW d3, NEW d4,
           d1 = v \div 4096, d2 = (v \div 256) % 16, d3 = (v \div 16) % 16, d4 = v % 16
    PROVE  /\ d1 \in 0 .. 15 /\ d2 \in 0 .. 15 /\ d3 \in 0 .. 15 /\ d4 \in 0 .. 15
           /\ ((d1 * 16 + d2) * 16 + d3) * 16 + d4 = v
  <1> DEFINE q1 == v \div 16
             q2 == v \div 256
  <1>1. v \in Nat /\ v <= 65535
    BY Widths
  <1>2. v \in Nat /\ q1 = v \div 16 /\ d4 = v % 16
    BY <1>1
  <1>3. q1 \in Nat /\ q2 = q1 \div 16 /\ d3 = q1 % 16
    BY <1>1
  <1>4. q2 \in Nat /\ d1 = q2 \div 16 /\ d2 = q2 % 16
    BY <1>1
  <1> HIDE DEF q1, q2
  <1>5. v = q1 * 16 + d4 /\ d4 \in 0 .. 15
    BY ONLY <1>2
  <1>6. q1 = q2 * 16 + d3 /\ d3 \in 0 .. 15
    BY ONLY <1>3
  <1>7. d1 \in Nat /\ q2 = d1 * 16 + d2 /\ d2 \in 0 .. 15
    BY ONLY <1>4
  <1>8. d1 <= 15
    BY ONLY <1>1, <1>3, <1>4, <1>5, <1>6, <1>7
  <1> QED
    BY ONLY <1>5, <1>6, <1>7, <1>8

LEMMA DecimalDigits ==
    ASSUME NEW v \in Words16, NEW d1, NEW d2, NEW d3, NEW d4, NEW d5,
           d1 = v \div 10000, d2 = (v \div 1000) % 10, d3 = (v \div 100) % 10,
           d4 = (v \div 10) % 10, d5 = v % 10
    PROVE  /\ d1 \in 0 .. 9 /\ d2 \in 0 .. 9 /\ d3 \in 0 .. 9 /\ d4 \in 0 .. 9 /\ d5 \in 0 .. 9
           /\ (((d1 * 10 + d2) * 10 + d3) * 10 + d4) * 10 + d5 = v
  <1> DEFINE q1 == v \div 10
             q2 == v \div 100
             q3 == v \div 1000
  <1>1. v \in Nat /\ v <= 65535
    BY Widths
  <1>2. v \in Nat /\ q1 = v \div 10 /\ d5 = v % 10
    BY <1>1
  <1>3. q1 \in Nat /\ q2 = q1 \div 10 /\ d4 = q1 % 10
    BY <1>1
  <1>4. q2 \in Nat /\ q3 = q2 \div 10 /\ d3 = q2 % 10
    BY <1>1
  <1>5. q3 \in Nat /\ d1 = q3 \div 10 /\ d2 = q3 % 10
    BY <1>1
  <1> HIDE DEF q1, q2, q3
  <1>6. v = q1 * 10 + d5 /\ d5 \in 0 .. 9
    BY ONLY <1>2
  <1>7. q1 = q2 * 10 + d4 /\ d4 \in 0 .. 9
    BY ONLY <1>3
  <1>8. q2 = q3 * 10 + d3 /\ d3 \in 0 .. 9
    BY ONLY <1>4
  <1>9. d1 \in Nat /\ q3 = d1 * 10 + d2 /\ d2 \in 0 .. 9
    BY ONLY <1>5
  <1>10. d1 <= 9
    BY ONLY <1>1, <1>3, <1>4, <1>5, <1>6, <1>7, <1>8, <1>9
  <1> QED
    BY ONLY <1>6, <1>7, <1>8, <1>9, <1>10

\* A word of digits of a base that stands for v.
IsWord(w, base, v) ==
    /\ w \in Texts /\ w # << >>
    /\ \A i \in DOMAIN w : w[i] < base
    /\ Number(w, base) = v

LEMMA Hex4Word ==
    ASSUME NEW v \in Words16
    PROVE  IsWord(Hex4(v), 16, v) /\ Len(Hex4(v)) = 4
  <1> DEFINE d1 == v \div 4096
             d2 == (v \div 256) % 16
             d3 == (v \div 16) % 16
             d4 == v % 16
             w == Hex4(v)
  <1>1. w = <<d1, d2, d3, d4>>
    BY DEF Hex4
  <1>2. /\ d1 \in 0 .. 15 /\ d2 \in 0 .. 15 /\ d3 \in 0 .. 15 /\ d4 \in 0 .. 15
        /\ ((d1 * 16 + d2) * 16 + d3) * 16 + d4 = v
    BY HexDigits
  <1> HIDE DEF d1, d2, d3, d4, w
  <1>3. w \in Texts /\ Len(w) = 4 /\ DOMAIN w = 1 .. 4
    <2>1. d1 \in Chars /\ d2 \in Chars /\ d3 \in Chars /\ d4 \in Chars
      BY <1>2 DEF Chars, Other
    <2> QED
      BY <1>1, <2>1 DEF Texts
  <1>4. w # << >>
    BY <1>3
  <1>5. w[1] = d1 /\ w[2] = d2 /\ w[3] = d3 /\ w[4] = d4
    BY <1>1
  <1>6. \A i \in 1 .. 4 : w[i] < 16
    BY <1>2, <1>5
  <1>7. Number(w, 16) = v
    <2>1. Number(w, 16) = ((w[1] * 16 + w[2]) * 16 + w[3]) * 16 + w[4]
      BY <1>3, NumberOf
    <2> QED
      BY <1>2, <1>5, <2>1
  <1>8. IsWord(w, 16, v)
    BY <1>3, <1>4, <1>6, <1>7 DEF IsWord
  <1> QED
    BY <1>3, <1>8 DEF w

\* A set of numbers has a least one.
LEMMA Least ==
    ASSUME NEW S, S \subseteq Nat, S # {}
    PROVE  \E x \in S : \A y \in S : x <= y
  <1> DEFINE R == OpToRel(<, Nat)
  <1>1. IsWellFoundedOn(R, Nat)
    BY NatLessThanWellFounded
  <1>2. \A x, y \in Nat : x < y => <<x, y>> \in R
    BY DEF OpToRel
  <1> HIDE DEF R
  <1>3. PICK x \in S : \A y \in S : ~(<<y, x>> \in R)
    BY <1>1, WFMin
  <1>4. \A y \in S : x <= y
    <2> TAKE y \in S
    <2>1. ~(y < x)
      BY <1>2, <1>3
    <2>2. x \in Nat /\ y \in Nat
      OBVIOUS
    <2> QED
      BY ONLY <2>1, <2>2
  <1> QED
    BY <1>4

\* Zeros in front of a word do not change its number.
LEMMA AllZeros ==
    ASSUME NEW base \in Nat
    PROVE  \A w \in Texts : (\A i \in 1 .. Len(w) : w[i] = 0) => Number(w, base) = 0
  <1> DEFINE S == {w \in Texts : (\A i \in 1 .. Len(w) : w[i] = 0) => Number(w, base) = 0}
  <1>1. << >> \in S
    BY NumberSteps, TextOps
  <1>2. ASSUME NEW w \in Texts, NEW c \in Chars, w \in S PROVE Append(w, c) \in S
    <2> DEFINE a == Append(w, c)
    <2> SUFFICES ASSUME \A i \in 1 .. Len(a) : a[i] = 0 PROVE Number(a, base) = 0
      BY TextOps
    <2>1. Len(w) \in Nat /\ Len(a) = Len(w) + 1 /\ a[Len(w) + 1] = c
          /\ \A i \in 1 .. Len(w) : a[i] = w[i]
      BY TextOps
    <2>2. Number(a, base) = Number(w, base) * base + c
      BY NumberSteps
    <2> HIDE DEF a
    <2>3. c = 0 /\ \A i \in 1 .. Len(w) : w[i] = 0
      BY <2>1
    <2>4. Number(w, base) = 0
      BY <1>2, <2>3
    <2>5. 0 * base + 0 = 0
      OBVIOUS
    <2> QED
      BY <2>2, <2>3, <2>4, <2>5
  <1> HIDE DEF S
  <1>3. Texts \subseteq S
    BY <1>1, <1>2, InductText
  <1> QED
    BY <1>3 DEF S

\* w without its first f - 1 characters.
From(w, f) == SubSeq(w, f, Len(w))

LEMMA FromAppend ==
    ASSUME NEW w \in Texts, NEW c \in Chars, NEW f \in 1 .. Len(w)
    PROVE  From(Append(w, c), f) = Append(From(w, f), c)
  <1> DEFINE a == Append(w, c)
             n == Len(w)
             u == From(a, f)
             v == From(w, f)
             m == n - f + 1
  <1>1. n \in Nat /\ a \in Texts /\ Len(a) = n + 1 /\ a[n + 1] = c /\ f \in 1 .. Len(a)
        /\ \A i \in 1 .. n : a[i] = w[i]
    <2>1. Len(w) \in Nat
      BY TextOps
    <2>2. a \in Texts /\ Len(a) = Len(w) + 1 /\ a[Len(w) + 1] = c
          /\ \A i \in 1 .. Len(w) : a[i] = w[i]
      BY TextOps
    <2>3. f \in 1 .. Len(w) + 1
      BY <2>1
    <2> QED
      BY <2>1, <2>2, <2>3
  <1> HIDE DEF a
  <1>2. u \in Texts /\ Len(u) = Len(a) - f + 1 /\ \A i \in 1 .. Len(a) - f + 1 : u[i] = a[f + i - 1]
    BY <1>1, Ending DEF From
  <1>3. v \in Texts /\ Len(v) = m /\ \A i \in 1 .. m : v[i] = w[f + i - 1]
    BY <1>1, Ending DEF From
  <1> HIDE DEF u, v
  <1>4. Append(v, c) \in Texts /\ Len(Append(v, c)) = m + 1 /\ Append(v, c)[m + 1] = c
        /\ \A i \in 1 .. m : Append(v, c)[i] = v[i]
    <2>1. Append(v, c) \in Texts /\ Len(Append(v, c)) = Len(v) + 1 /\ Append(v, c)[Len(v) + 1] = c
          /\ \A i \in 1 .. Len(v) : Append(v, c)[i] = v[i]
      BY <1>3, TextOps
    <2> QED
      BY <1>3, <2>1
  <1>5. m \in Nat /\ Len(u) = m + 1
    BY <1>1, <1>2
  <1>6. ASSUME NEW i \in 1 .. m + 1 PROVE u[i] = Append(v, c)[i]
    <2>1. u[i] = a[f + i - 1]
      BY <1>1, <1>2
    <2>2. CASE i = m + 1
      BY <1>1, <1>4, <2>1, <2>2
    <2>3. CASE i <= m
      <3>1. f + i - 1 \in 1 .. n /\ i \in 1 .. m
        BY <1>1, <1>5, <2>3
      <3> QED
        BY <1>1, <1>3, <1>4, <2>1, <3>1
    <2>4. i = m + 1 \/ i <= m
      BY ONLY <1>5, i \in 1 .. m + 1
    <2> QED
      BY <2>2, <2>3, <2>4
  <1> HIDE DEF m
  <1>7. u = Append(v, c)
    BY <1>2, <1>4, <1>5, <1>6, SameText
  <1> QED
    BY <1>7 DEF a, u, v

\* The number a word stands for is the one it stands for without some of the
\* zeros in front.
LEMMA NumberFrom ==
    ASSUME NEW base \in Nat
    PROVE  \A w \in Texts : \A f \in 1 .. Len(w) :
             (\A i \in 1 .. Len(w) : i < f => w[i] = 0) => Number(From(w, f), base) = Number(w, base)
  <1> DEFINE S == {w \in Texts : \A f \in 1 .. Len(w) :
                     (\A i \in 1 .. Len(w) : i < f => w[i] = 0)
                       => Number(From(w, f), base) = Number(w, base)}
  <1>1. << >> \in S
    BY TextOps
  <1>2. ASSUME NEW w \in Texts, NEW c \in Chars, w \in S PROVE Append(w, c) \in S
    <2> DEFINE a == Append(w, c)
    <2>1. Len(w) \in Nat /\ a \in Texts /\ Len(a) = Len(w) + 1 /\ a[Len(w) + 1] = c
          /\ \A i \in 1 .. Len(w) : a[i] = w[i]
      BY TextOps
    <2>2. Number(a, base) = Number(w, base) * base + c
      BY NumberSteps
    <2> SUFFICES ASSUME NEW f \in 1 .. Len(a), \A i \in 1 .. Len(a) : i < f => a[i] = 0
                 PROVE  Number(From(a, f), base) = Number(a, base)
      BY <2>1
    <2>3. CASE f <= Len(w)
      <3>1. f \in 1 .. Len(w) /\ \A i \in 1 .. Len(w) : i < f => w[i] = 0
        BY <2>1, <2>3
      <3>2. Number(From(w, f), base) = Number(w, base)
        BY <1>2, <3>1
      <3>3. From(a, f) = Append(From(w, f), c) /\ From(w, f) \in Texts
        BY <3>1, FromAppend, Ending DEF From
      <3>4. \A s \in Texts : Number(Append(s, c), base) = Number(s, base) * base + c
        BY NumberSteps
      <3> QED
        BY <2>2, <3>2, <3>3, <3>4
    <2>4. CASE f = Len(w) + 1
      <3>1. \A i \in 1 .. Len(w) : w[i] = 0
        BY <2>1, <2>4
      <3>2. Number(w, base) = 0
        BY <3>1, AllZeros
      <3>3. From(a, f) \in Texts /\ Len(From(a, f)) = Len(a) - f + 1
            /\ \A i \in 1 .. Len(a) - f + 1 : From(a, f)[i] = a[f + i - 1]
        BY <2>1, Ending DEF From
      <3>4. Len(From(a, f)) = 1 /\ From(a, f)[1] = c
        BY <2>1, <2>4, <3>3
      <3>5. Number(From(a, f), base) = c
        BY <3>3, <3>4, NumberOf
      <3>6. 0 * base + c = c
        BY DEF Chars, Other
      <3> QED
        BY <2>2, <3>2, <3>5, <3>6
    <2> QED
      BY <2>1, <2>3, <2>4
  <1> HIDE DEF S
  <1>3. Texts \subseteq S
    BY <1>1, <1>2, InductText
  <1> QED
    BY <1>3 DEF S

\* Strip keeps the number, and leaves no zero in front of another digit.
LEMMA StripWord ==
    ASSUME NEW base \in Nat, NEW v, NEW w, IsWord(w, base, v)
    PROVE  /\ IsWord(Strip(w), base, v)
           /\ Len(Strip(w)) <= Len(w)
           /\ Len(Strip(w)) > 1 => Strip(w)[1] # 0
           /\ \A k \in 1 .. Len(w) : (\A i \in 1 .. Len(w) : i < k => w[i] = 0)
                => Len(Strip(w)) <= Len(w) - k + 1
  <1> DEFINE n == Len(w)
             N == {i \in 1 .. n : i = n \/ w[i] # 0}
  <1>1. w \in Texts /\ w # << >> /\ Number(w, base) = v /\ \A i \in DOMAIN w : w[i] < base
    BY DEF IsWord
  <1>2. n \in Nat /\ n >= 1 /\ DOMAIN w = 1 .. n
    BY <1>1, TextOps
  <1>3. PICK f \in N : \A y \in N : f <= y
    <2>1. n \in N /\ N \subseteq Nat
      BY <1>2
    <2> QED
      BY <2>1, Least
  <1>4. f \in 1 .. n /\ (f = n \/ w[f] # 0)
    BY <1>3
  <1>5. \A i \in 1 .. n : i < f => w[i] = 0
    <2> SUFFICES ASSUME NEW i \in 1 .. n, i < f, w[i] # 0 PROVE FALSE
      OBVIOUS
    <2>1. i \in N
      OBVIOUS
    <2> HIDE DEF n, N
    <2>2. f <= i
      BY <1>3, <2>1
    <2>3. f \in Nat /\ i \in Nat
      BY ONLY <1>2, <1>4, i \in 1 .. n
    <2> QED
      BY ONLY i < f, <2>2, <2>3
  <1>6. Strip(w) = From(w, f)
    BY <1>1, <1>2, <1>4, <1>5, StripIs DEF From
  <1> DEFINE u == From(w, f)
  <1>7. u \in Texts /\ Len(u) = n - f + 1 /\ \A i \in 1 .. n - f + 1 : u[i] = w[f + i - 1]
    BY <1>1, <1>4, Ending DEF From
  <1>8. Number(u, base) = v
    BY <1>1, <1>4, <1>5, NumberFrom
  <1> HIDE DEF u, n, N
  <1>9. u # << >> /\ DOMAIN u = 1 .. n - f + 1
    <2>1. Len(u) # 0 /\ DOMAIN u = 1 .. Len(u)
      BY <1>2, <1>4, <1>7, TextOps
    <2> QED
      BY <1>7, <2>1
  <1>10. \A i \in 1 .. n - f + 1 : u[i] < base
    <2> TAKE i \in 1 .. n - f + 1
    <2>1. f + i - 1 \in 1 .. n
      BY <1>2, <1>4
    <2> QED
      BY <1>1, <1>2, <1>7, <2>1
  <1>11. IsWord(u, base, v)
    BY <1>7, <1>8, <1>9, <1>10 DEF IsWord
  <1>12. Len(u) > 1 => u[1] # 0
    BY <1>2, <1>4, <1>7
  <1>13. ASSUME NEW k \in 1 .. n, \A i \in 1 .. n : i < k => w[i] = 0
         PROVE  Len(u) <= n - k + 1
    BY <1>2, <1>4, <1>7, <1>13
  <1>14. Len(u) <= n
    BY <1>2, <1>4, <1>7
  <1> QED
    BY <1>6, <1>11, <1>12, <1>13, <1>14 DEF u, n

LEMMA HexWordIs ==
    ASSUME NEW v \in Words16, NEW removed \in BOOLEAN
    PROVE  IsWord(HexWord(v, removed), 16, v) /\ Len(HexWord(v, removed)) <= 4
  <1>1. IsWord(Hex4(v), 16, v) /\ Len(Hex4(v)) = 4
    BY Hex4Word
  <1>2. IsWord(Strip(Hex4(v)), 16, v) /\ Len(Strip(Hex4(v))) <= 4
    <2> DEFINE w == Hex4(v)
    <2>1. IsWord(w, 16, v) /\ Len(w) = 4
      BY <1>1
    <2> HIDE DEF w
    <2>2. IsWord(Strip(w), 16, v) /\ Len(Strip(w)) <= Len(w)
      BY <2>1, StripWord
    <2> QED
      BY <2>1, <2>2 DEF w
  <1>3. HexWord(v, removed) = Strip(Hex4(v)) \/ HexWord(v, removed) = Hex4(v)
    BY DEF HexWord
  <1>4. 4 <= 4
    OBVIOUS
  <1> QED
    BY <1>1, <1>2, <1>3, <1>4

LEMMA DecimalIs ==
    ASSUME NEW v \in Words16
    PROVE  /\ IsWord(Decimal(v), 10, v) /\ Len(Decimal(v)) <= 5
           /\ v <= 255 => Len(Decimal(v)) <= 3
           /\ Len(Decimal(v)) > 1 => Decimal(v)[1] # 0
  <1> DEFINE d1 == v \div 10000
             d2 == (v \div 1000) % 10
             d3 == (v \div 100) % 10
             d4 == (v \div 10) % 10
             d5 == v % 10
             w == <<d1, d2, d3, d4, d5>>
  <1>1. Decimal(v) = Strip(w)
    BY DEF Decimal
  <1>2. /\ d1 \in 0 .. 9 /\ d2 \in 0 .. 9 /\ d3 \in 0 .. 9 /\ d4 \in 0 .. 9 /\ d5 \in 0 .. 9
        /\ (((d1 * 10 + d2) * 10 + d3) * 10 + d4) * 10 + d5 = v
    BY DecimalDigits
  <1> HIDE DEF d1, d2, d3, d4, d5
  <1>3. w \in Texts /\ Len(w) = 5 /\ DOMAIN w = 1 .. 5
    <2>1. d1 \in Chars /\ d2 \in Chars /\ d3 \in Chars /\ d4 \in Chars /\ d5 \in Chars
      BY <1>2 DEF Chars, Other
    <2> QED
      BY <2>1 DEF Texts
  <1>4. w[1] = d1 /\ w[2] = d2 /\ w[3] = d3 /\ w[4] = d4 /\ w[5] = d5
    OBVIOUS
  <1> HIDE DEF w
  <1>5. w # << >>
    BY <1>3
  <1>6. \A i \in 1 .. 5 : w[i] < 10
    BY <1>2, <1>4
  <1>7. Number(w, 10) = v
    <2>1. Number(w, 10) = (((w[1] * 10 + w[2]) * 10 + w[3]) * 10 + w[4]) * 10 + w[5]
      BY <1>3, NumberOf
    <2> QED
      BY <1>2, <1>4, <2>1
  <1>8. IsWord(w, 10, v)
    BY <1>3, <1>5, <1>6, <1>7 DEF IsWord
  <1>9. /\ IsWord(Strip(w), 10, v)
        /\ Len(Strip(w)) <= Len(w)
        /\ Len(Strip(w)) > 1 => Strip(w)[1] # 0
        /\ \A k \in 1 .. Len(w) : (\A i \in 1 .. Len(w) : i < k => w[i] = 0)
             => Len(Strip(w)) <= Len(w) - k + 1
    BY <1>8, StripWord
  <1>10. ASSUME v <= 255 PROVE Len(Strip(w)) <= 3
    <2>1. d1 = 0 /\ d2 = 0
      BY <1>2, <1>10
    <2>2. \A i \in 1 .. 5 : i < 3 => w[i] = 0
      BY <1>4, <2>1
    <2>3. 3 \in 1 .. 5 /\ 5 - 3 + 1 = 3
      OBVIOUS
    <2>4. Len(Strip(w)) <= 5 - 3 + 1
      BY <1>3, <1>9, <2>2, <2>3
    <2> QED
      BY <2>3, <2>4
  <1> QED
    BY <1>1, <1>3, <1>9, <1>10

\* from_chars takes a word of digits whose number the type can hold.
LEMMA FromCharsWord ==
    ASSUME NEW base, NEW v, NEW w, IsWord(w, base, v), NEW limit, v <= limit
    PROVE  FromChars(w, base, limit) = <<v>> /\ <<v>> # Invalid
  BY DEF IsWord, FromChars, Invalid

\* Punctuation is no digit.
LEMMA WordFree ==
    ASSUME NEW base \in 1 .. 16, NEW v, NEW w, IsWord(w, base, v), NEW ch \in 16 .. Other
    PROVE  ~Contains(w, ch)
  BY DEF IsWord, Contains, Other

-----------------------------------------------------------------------------
(* IPv4 addresses and ports *)

\* One octet, printed and read.
LEMMA V4PartOf ==
    ASSUME NEW v \in Bytes
    PROVE  /\ Decimal(v) \in Texts /\ Decimal(v) # << >> /\ Len(Decimal(v)) <= 3
           /\ V4Part(Decimal(v)) = <<v>> /\ <<v>> # Invalid
           /\ \A ch \in 16 .. Other : ~Contains(Decimal(v), ch)
  <1>1. v \in Words16 /\ v <= 255
    <2>1. v \in Nat /\ v <= 255
      BY Widths
    <2>2. v <= 65535
      BY <2>1
    <2> QED
      BY <2>1, <2>2, Widths
  <1> DEFINE w == Decimal(v)
  <1>2. IsWord(w, 10, v) /\ Len(w) <= 3 /\ (Len(w) > 1 => w[1] # 0)
    BY <1>1, DecimalIs
  <1> HIDE DEF w
  <1>3. w \in Texts /\ w # << >>
    BY <1>2 DEF IsWord
  <1>4. FromChars(w, 10, MaxByte) = <<v>> /\ <<v>> # Invalid
    <2>1. v <= MaxByte
      BY <1>1, Widths
    <2> QED
      BY <1>2, <2>1, FromCharsWord
  <1>5. V4Part(w) = <<v>>
    <2>1. Len(w) \in Nat /\ Head(w) = w[1]
      BY <1>3, TextOps DEF Texts
    <2>2. ~(Len(w) > 3 \/ (Len(w) > 1 /\ Head(w) = 0))
      BY <1>2, <2>1
    <2> QED
      BY <1>4, <2>2 DEF V4Part
  <1>6. \A ch \in 16 .. Other : ~Contains(w, ch)
    BY <1>2, WordFree
  <1> QED
    BY <1>2, <1>3, <1>4, <1>5, <1>6 DEF w

\* What FormatV4 prints: at most 15 characters in four parts.
LEMMA V4Text ==
    ASSUME NEW a \in [1 .. 4 -> Bytes]
    PROVE  /\ FormatV4(a) \in Texts /\ FormatV4(a) # << >> /\ Len(FormatV4(a)) <= MaxV4Text
           /\ Contains(FormatV4(a), Dot)
           /\ \A ch \in 16 .. Other : ch # Dot => ~Contains(FormatV4(a), ch)
           /\ Len(Split(FormatV4(a), Dot)) = 4
           /\ \A k \in 1 .. 4 : Split(FormatV4(a), Dot)[k] = Decimal(a[k])
  <1> DEFINE w1 == Decimal(a[1])
             w2 == Decimal(a[2])
             w3 == Decimal(a[3])
             w4 == Decimal(a[4])
             dot == <<Dot>>
             s2 == w1 \o dot \o w2
             s3 == s2 \o dot \o w3
             s4 == s3 \o dot \o w4
  <1>1. FormatV4(a) = s4
    BY DEF FormatV4
  <1>2. a[1] \in Bytes /\ a[2] \in Bytes /\ a[3] \in Bytes /\ a[4] \in Bytes
    OBVIOUS
  <1>3. /\ w1 \in Texts /\ Len(w1) <= 3 /\ \A ch \in 16 .. Other : ~Contains(w1, ch)
        /\ w2 \in Texts /\ Len(w2) <= 3 /\ \A ch \in 16 .. Other : ~Contains(w2, ch)
        /\ w3 \in Texts /\ Len(w3) <= 3 /\ \A ch \in 16 .. Other : ~Contains(w3, ch)
        /\ w4 \in Texts /\ Len(w4) <= 3 /\ \A ch \in 16 .. Other : ~Contains(w4, ch)
    BY <1>2, V4PartOf
  <1>4. Dot \in Chars /\ Dot \in 16 .. Other /\ dot \in Texts /\ Len(dot) = 1
    BY TextOps DEF Chars, Other, Dot
  <1>5. \A ch : Contains(dot, ch) <=> Dot = ch
    BY <1>4, ContainsOps
  <1>6. \A k \in 1 .. 4 : \/ k = 1 /\ Decimal(a[k]) = w1
                          \/ k = 2 /\ Decimal(a[k]) = w2
                          \/ k = 3 /\ Decimal(a[k]) = w3
                          \/ k = 4 /\ Decimal(a[k]) = w4
    OBVIOUS
  <1> HIDE DEF w1, w2, w3, w4, dot
  <1>7. ASSUME NEW s \in Texts, NEW w \in Texts, Len(w) <= 3,
               \A ch \in 16 .. Other : ~Contains(w, ch)
        PROVE  /\ s \o dot \o w \in Texts /\ Len(s \o dot \o w) <= Len(s) + 4
               /\ Len(s \o dot \o w) >= Len(s) + 1
               /\ Split(s \o dot \o w, Dot) = Append(Split(s, Dot), w)
               /\ Contains(s \o dot \o w, Dot)
               /\ \A ch \in 16 .. Other : ch # Dot /\ ~Contains(s, ch) => ~Contains(s \o dot \o w, ch)
    <2> DEFINE t == s \o dot
    <2>1. t \in Texts /\ Len(t) = Len(s) + Len(dot) /\ Len(s) \in Nat /\ Len(w) \in Nat
      BY <1>4, <1>7, TextOps
    <2>2. \A ch : Contains(t, ch) <=> Contains(s, ch) \/ Dot = ch
      BY <1>4, <1>5, <1>7, ContainsOps
    <2>3. Split(t \o w, Dot) = Append(Split(s, Dot), w)
      BY <1>4, <1>7, SplitAfter DEF dot
    <2> HIDE DEF t
    <2>4. t \o w \in Texts /\ Len(t \o w) = Len(t) + Len(w)
      BY <1>7, <2>1, TextOps
    <2>5. \A ch : Contains(t \o w, ch) <=> Contains(t, ch) \/ Contains(w, ch)
      BY <1>7, <2>1, ContainsOps
    <2>6. Contains(t \o w, Dot) /\ \A ch \in 16 .. Other : ch # Dot /\ ~Contains(s, ch) => ~Contains(t \o w, ch)
      BY <1>7, <2>2, <2>5
    <2>7. Len(t \o w) <= Len(s) + 4 /\ Len(t \o w) >= Len(s) + 1
      BY <1>4, <1>7, <2>1, <2>4
    <2> QED
      BY <2>3, <2>4, <2>6, <2>7 DEF t
  <1>8. /\ s2 \in Texts /\ Len(s2) <= Len(w1) + 4
        /\ Split(s2, Dot) = Append(Split(w1, Dot), w2)
        /\ \A ch \in 16 .. Other : ch # Dot => ~Contains(s2, ch)
    BY <1>3, <1>7
  <1> HIDE DEF s2
  <1>9. /\ s3 \in Texts /\ Len(s3) <= Len(s2) + 4
        /\ Split(s3, Dot) = Append(Split(s2, Dot), w3)
        /\ \A ch \in 16 .. Other : ch # Dot => ~Contains(s3, ch)
    BY <1>3, <1>7, <1>8
  <1> HIDE DEF s3
  <1>10. /\ s4 \in Texts /\ Len(s4) <= Len(s3) + 4 /\ Len(s4) >= Len(s3) + 1
         /\ Split(s4, Dot) = Append(Split(s3, Dot), w4)
         /\ Contains(s4, Dot)
         /\ \A ch \in 16 .. Other : ch # Dot => ~Contains(s4, ch)
    BY <1>3, <1>7, <1>9
  <1> HIDE DEF s4
  <1>11. Len(s4) <= 15 /\ Len(s4) # 0
    <2>1. Len(w1) \in Nat /\ Len(s2) \in Nat /\ Len(s3) \in Nat /\ Len(s4) \in Nat
      BY <1>3, <1>8, <1>9, <1>10, TextOps
    <2> QED
      BY ONLY <1>3, <1>8, <1>9, <1>10, <2>1, SMTT(40)
  <1>12. Split(w1, Dot) = <<w1>>
    BY <1>3, <1>4, SplitFree
  <1>13. \A q \in Seq(Texts), w \in Texts :
           /\ Append(q, w) \in Seq(Texts) /\ Len(Append(q, w)) = Len(q) + 1
           /\ \A i \in 1 .. Len(q) : Append(q, w)[i] = q[i]
           /\ Append(q, w)[Len(q) + 1] = w
    BY AppendProperties
  <1> DEFINE p1 == <<w1>>
             p2 == Append(p1, w2)
             p3 == Append(p2, w3)
             p4 == Append(p3, w4)
  <1>14. p1 \in Seq(Texts) /\ Len(p1) = 1 /\ p1[1] = w1
    BY <1>3
  <1> HIDE DEF p1
  <1>15. p2 \in Seq(Texts) /\ Len(p2) = 2 /\ p2[1] = w1 /\ p2[2] = w2
    <2>1. /\ p2 \in Seq(Texts) /\ Len(p2) = Len(p1) + 1
          /\ \A i \in 1 .. Len(p1) : p2[i] = p1[i]
          /\ p2[Len(p1) + 1] = w2
      BY <1>3, <1>13, <1>14
    <2> HIDE DEF p2
    <2> QED
      BY <1>14, <2>1
  <1> HIDE DEF p2
  <1>16. p3 \in Seq(Texts) /\ Len(p3) = 3 /\ p3[1] = w1 /\ p3[2] = w2 /\ p3[3] = w3
    <2>1. /\ p3 \in Seq(Texts) /\ Len(p3) = Len(p2) + 1
          /\ \A i \in 1 .. Len(p2) : p3[i] = p2[i]
          /\ p3[Len(p2) + 1] = w3
      BY <1>3, <1>13, <1>15
    <2> HIDE DEF p3
    <2> QED
      BY <1>15, <2>1
  <1> HIDE DEF p3
  <1>17. Len(p4) = 4 /\ p4[1] = w1 /\ p4[2] = w2 /\ p4[3] = w3 /\ p4[4] = w4
    <2>1. /\ p4 \in Seq(Texts) /\ Len(p4) = Len(p3) + 1
          /\ \A i \in 1 .. Len(p3) : p4[i] = p3[i]
          /\ p4[Len(p3) + 1] = w4
      BY <1>3, <1>13, <1>16
    <2> HIDE DEF p4
    <2> QED
      BY <1>16, <2>1
  <1> HIDE DEF p4
  <1>18. Split(s4, Dot) = p4
    BY <1>8, <1>9, <1>10, <1>12 DEF p1, p2, p3, p4
  <1>19. s4 # << >>
    BY <1>11
  <1>20. \A k \in 1 .. 4 : p4[k] = Decimal(a[k])
    BY <1>6, <1>17
  <1> QED
    BY <1>1, <1>10, <1>11, <1>17, <1>18, <1>19, <1>20 DEF MaxV4Text

\* address_v4::from_string reads what the formatter of address_v4 prints.
THEOREM V4ReadsBack ==
    ASSUME NEW a \in [1 .. 4 -> Bytes]
    PROVE  V4FromString(FormatV4(a)) = a
  <1> DEFINE s == FormatV4(a)
             p == Split(s, Dot)
  <1>1. s # << >> /\ Len(s) <= MaxV4Text /\ Len(p) = 4 /\ \A k \in 1 .. 4 : p[k] = Decimal(a[k])
    BY V4Text
  <1>2. \A k \in 1 .. 4 : V4Part(Decimal(a[k])) = <<a[k]>> /\ <<a[k]>> # Invalid
    BY V4PartOf
  <1>3. V4FromString(s) =
          IF s # << >> /\ Len(s) <= MaxV4Text /\ Len(p) = 4
             /\ \A k \in 1 .. 4 : V4Part(p[k]) # Invalid
          THEN [k \in 1 .. 4 |-> V4Part(p[k])[1]]
          ELSE Invalid
    BY DEF V4FromString
  <1> HIDE DEF s, p
  <1>4. \A k \in 1 .. 4 : V4Part(p[k]) # Invalid /\ V4Part(p[k])[1] = a[k]
    BY <1>1, <1>2
  <1>5. V4FromString(s) = [k \in 1 .. 4 |-> a[k]]
    BY <1>1, <1>3, <1>4
  <1> QED
    BY <1>5 DEF s

\* Two octets make a 16-bit number of either byte order.
LEMMA TwoOctets ==
    ASSUME NEW hi \in Bytes, NEW lo \in Bytes
    PROVE  /\ hi + 256 * lo \in Words16
           /\ (hi + 256 * lo) % 256 = hi /\ (hi + 256 * lo) \div 256 = lo
  <1>1. hi \in Nat /\ hi <= 255 /\ lo \in Nat /\ lo <= 255
    BY Widths
  <1>2. hi + 256 * lo \in Nat /\ hi + 256 * lo <= 65535
    BY <1>1
  <1>3. (hi + 256 * lo) % 256 = hi
    BY ONLY <1>1
  <1>4. (hi + 256 * lo) \div 256 = lo
    BY ONLY <1>1
  <1>5. hi + 256 * lo \in Words16
    BY ONLY <1>2, Widths
  <1> QED
    BY ONLY <1>3, <1>4, <1>5

LEMMA ItsOctets ==
    ASSUME NEW v \in Words16, NEW r, r = v % 256, NEW q, q = v \div 256
    PROVE  r \in Bytes /\ q \in Bytes /\ r + 256 * q = v /\ 256 * q + r = v
  <1>1. v \in Nat /\ v <= 65535
    BY Widths
  <1>2. v \in Nat /\ q = v \div 256 /\ r = v % 256
    BY <1>1
  <1>3. q \in Nat /\ r \in 0 .. 255 /\ v = q * 256 + r
    BY ONLY <1>2
  <1>4. q <= 255 /\ r + 256 * q = v /\ 256 * q + r = v
    BY ONLY <1>1, <1>3
  <1>5. r \in Bytes /\ q \in Bytes
    BY ONLY <1>3, <1>4, Widths
  <1> QED
    BY ONLY <1>4, <1>5

LEMMA Swaps ==
    ASSUME NEW v \in Words16
    PROVE  byteswap(v) \in Words16 /\ byteswap(byteswap(v)) = v
  <1> DEFINE r == v % 256
             q == v \div 256
             u == byteswap(v)
  <1>1. r \in Bytes /\ q \in Bytes /\ r + 256 * q = v
    BY ItsOctets
  <1>2. u = r * 256 + q
    BY DEF byteswap
  <1> HIDE DEF r, q, u
  <1>3. q + 256 * r \in Words16 /\ (q + 256 * r) % 256 = q /\ (q + 256 * r) \div 256 = r
    BY <1>1, TwoOctets
  <1>4. r \in Nat /\ q \in Nat
    BY <1>1, Widths
  <1>5. u = q + 256 * r
    BY ONLY <1>2, <1>4
  <1>6. byteswap(u) = (u % 256) * 256 + u \div 256
    BY DEF byteswap
  <1>7. byteswap(u) = q * 256 + r
    BY <1>3, <1>5, <1>6
  <1>8. byteswap(u) = v
    BY ONLY <1>1, <1>4, <1>7
  <1> QED
    BY <1>3, <1>5, <1>8 DEF u

\* Converting twice changes nothing.
LEMMA Htons ==
    ASSUME NEW v \in Words16
    PROVE  hton_16(v) \in Words16 /\ hton_16(hton_16(v)) = v
  BY Swaps DEF hton_16

\* bit_cast and back.
LEMMA Casts ==
    ASSUME NEW hi \in Bytes, NEW lo \in Bytes
    PROVE  /\ Cast16(hi, lo) \in Words16
           /\ Octets(Cast16(hi, lo))[1] = hi /\ Octets(Cast16(hi, lo))[2] = lo
  <1>1. /\ hi + 256 * lo \in Words16 /\ (hi + 256 * lo) % 256 = hi
        /\ (hi + 256 * lo) \div 256 = lo
    BY TwoOctets
  <1>2. /\ lo + 256 * hi \in Words16 /\ (lo + 256 * hi) % 256 = lo
        /\ (lo + 256 * hi) \div 256 = hi
    BY TwoOctets
  <1>3. 256 * hi + lo = lo + 256 * hi
    BY Widths
  <1>4. CASE LittleEndian
    BY <1>1, <1>4 DEF Cast16, Octets
  <1>5. CASE ~LittleEndian
    BY <1>2, <1>3, <1>5 DEF Cast16, Octets
  <1> QED
    BY <1>4, <1>5

LEMMA OctetsOf ==
    ASSUME NEW v \in Words16
    PROVE  /\ Octets(v)[1] \in Bytes /\ Octets(v)[2] \in Bytes
           /\ Cast16(Octets(v)[1], Octets(v)[2]) = v
           /\ Octets(v) \in Seq(Bytes) /\ Len(Octets(v)) = 2
  <1> DEFINE r == v % 256
             q == v \div 256
  <1>1. r \in Bytes /\ q \in Bytes /\ r + 256 * q = v /\ 256 * q + r = v
    BY ItsOctets
  <1>2. /\ Octets(v) = IF LittleEndian THEN <<r, q>> ELSE <<q, r>>
        /\ \A a, b : Cast16(a, b) = IF LittleEndian THEN a + 256 * b ELSE 256 * a + b
    BY DEF Octets, Cast16
  <1> HIDE DEF q, r
  <1>3. \A a, b \in Bytes : /\ <<a, b>>[1] = a /\ <<a, b>>[2] = b
                            /\ <<a, b>> \in Seq(Bytes) /\ Len(<<a, b>>) = 2
    OBVIOUS
  <1>4. CASE LittleEndian
    BY <1>1, <1>2, <1>3, <1>4
  <1>5. CASE ~LittleEndian
    BY <1>1, <1>2, <1>3, <1>5
  <1> QED
    BY <1>4, <1>5

\* What FormatPort prints, and how it reads.
LEMMA PortText ==
    ASSUME NEW p \in [1 .. 1 -> Words16]
    PROVE  /\ FormatPort(p) \in Texts /\ FormatPort(p) # << >>
           /\ \A ch \in 16 .. Other : ~Contains(FormatPort(p), ch)
           /\ PortFromString(FormatPort(p)) = p /\ p # Invalid
  <1> DEFINE v == hton_16(p[1])
             w == Decimal(v)
  <1>1. p[1] \in Words16 /\ DOMAIN p = 1 .. 1
    OBVIOUS
  <1>2. v \in Words16 /\ hton_16(v) = p[1]
    BY <1>1, Htons
  <1>3. FormatPort(p) = w
    BY <1>1 DEF FormatPort, hton
  <1> HIDE DEF v
  <1>4. IsWord(w, 10, v) /\ (Len(w) > 1 => w[1] # 0)
    BY <1>2, DecimalIs
  <1> HIDE DEF w
  <1>5. w \in Texts /\ w # << >> /\ \A ch \in 16 .. Other : ~Contains(w, ch)
    BY <1>4, WordFree DEF IsWord
  <1>6. FromChars(w, 10, MaxWord) = <<v>> /\ <<v>> # Invalid
    <2>1. v <= MaxWord
      BY ONLY <1>2, Widths
    <2> QED
      BY <1>4, <2>1, FromCharsWord
  <1>7. hton(<<v>>) = p
    <2>1. hton(<<v>>) = [i \in 1 .. 1 |-> hton_16(v)]
      BY DEF hton
    <2>2. p = [i \in 1 .. 1 |-> p[1]]
      BY <1>1
    <2> QED
      BY <1>2, <2>1, <2>2
  <1>8. Head(w) = w[1]
    BY <1>5 DEF Texts
  <1>9. PortFromString(w) = p
    BY <1>4, <1>6, <1>7, <1>8 DEF PortFromString
  <1>10. p # Invalid
    <2>1. DOMAIN << >> = {} /\ 1 \in DOMAIN p
      BY <1>1
    <2> QED
      BY <2>1 DEF Invalid
  <1> QED
    BY <1>3, <1>5, <1>9, <1>10

\* port::from_string reads what the formatter of port prints.
THEOREM PortReadsBack ==
    ASSUME NEW p \in [1 .. 1 -> Words16]
    PROVE  PortFromString(FormatPort(p)) = p
  BY PortText

-----------------------------------------------------------------------------
(* What from_string accepts *)

\* A word from_chars accepts.
LEMMA FromCharsOk ==
    ASSUME NEW w \in Texts, NEW base \in Nat, NEW limit, FromChars(w, base, limit) # Invalid
    PROVE  /\ FromChars(w, base, limit) = <<Number(w, base)>>
           /\ Number(w, base) \in Nat /\ Number(w, base) <= limit
           /\ IsWord(w, base, Number(w, base))
  <1>1. Number(w, base) \in Nat
    BY NumberOf
  <1>2. w # << >> /\ (\A i \in DOMAIN w : w[i] < base) /\ Number(w, base) <= limit
    BY DEF FromChars
  <1>3. FromChars(w, base, limit) = <<Number(w, base)>>
    BY DEF FromChars
  <1> QED
    BY <1>1, <1>2, <1>3 DEF IsWord

LEMMA PiecesType ==
    ASSUME NEW s \in Texts, NEW ch
    PROVE  /\ Split(s, ch) \in Seq(Texts) /\ Len(Split(s, ch)) \in Nat /\ Len(Split(s, ch)) >= 1
           /\ \A k \in 1 .. Len(Split(s, ch)) : Split(s, ch)[k] \in Texts
  <1> DEFINE p == Split(s, ch)
  <1>1. p \in Lists
    BY SplitSteps
  <1> HIDE DEF p
  <1>2. p \in Seq(Texts) /\ p # << >>
    BY <1>1 DEF Lists
  <1>3. Len(p) \in Nat /\ Len(p) # 0 /\ \A k \in 1 .. Len(p) : p[k] \in Texts
    BY <1>2, EmptySeq
  <1> QED
    BY <1>2, <1>3 DEF p

LEMMA PairsType ==
    ASSUME NEW s \in Texts, NEW c1, NEW c2
    PROVE  /\ SplitPair(s, c1, c2) \in Seq(Texts)
           /\ Len(SplitPair(s, c1, c2)) \in Nat /\ Len(SplitPair(s, c1, c2)) >= 1
           /\ \A k \in 1 .. Len(SplitPair(s, c1, c2)) : SplitPair(s, c1, c2)[k] \in Texts
  <1> DEFINE p == SplitPair(s, c1, c2)
  <1>1. p \in Lists
    BY SplitPairSteps
  <1> HIDE DEF p
  <1>2. p \in Seq(Texts) /\ p # << >>
    BY <1>1 DEF Lists
  <1>3. Len(p) \in Nat /\ Len(p) # 0 /\ \A k \in 1 .. Len(p) : p[k] \in Texts
    BY <1>2, EmptySeq
  <1> QED
    BY <1>2, <1>3 DEF p

\* An octet V4Part accepts.
LEMMA V4PartOk ==
    ASSUME NEW w \in Texts, V4Part(w) # Invalid
    PROVE  /\ V4Part(w) = FromChars(w, 10, MaxByte) /\ V4Part(w)[1] \in Bytes
           /\ IsWord(w, 10, V4Part(w)[1])
           /\ Len(w) <= 3 /\ (Len(w) > 1 => w[1] # 0)
  <1>1. ~(Len(w) > 3 \/ (Len(w) > 1 /\ Head(w) = 0)) /\ V4Part(w) = FromChars(w, 10, MaxByte)
    BY DEF V4Part
  <1> DEFINE n == Number(w, 10)
  <1>2. V4Part(w) = <<n>> /\ n \in Nat /\ n <= MaxByte /\ IsWord(w, 10, n)
    BY <1>1, FromCharsOk
  <1> HIDE DEF n
  <1>3. V4Part(w)[1] = n
    BY <1>2
  <1>4. n \in Bytes
    BY <1>2, Widths
  <1>5. Len(w) \in Nat /\ Head(w) = w[1]
    BY TextOps DEF Texts
  <1>6. Len(w) <= 3 /\ (Len(w) > 1 => w[1] # 0)
    BY <1>1, <1>5
  <1> QED
    BY <1>1, <1>2, <1>3, <1>4, <1>6

\* A text address_v4::from_string accepts.
LEMMA V4Ok ==
    ASSUME NEW s \in Texts, V4FromString(s) # Invalid
    PROVE  /\ V4FromString(s) \in [1 .. 4 -> Bytes]
           /\ Len(s) <= MaxV4Text
           /\ Len(Split(s, Dot)) = 4
           /\ \A k \in 1 .. 4 : /\ Split(s, Dot)[k] \in Texts /\ V4Part(Split(s, Dot)[k]) # Invalid
                                /\ V4FromString(s)[k] = V4Part(Split(s, Dot)[k])[1]
  <1> DEFINE p == Split(s, Dot)
  <1>1. /\ Len(s) <= MaxV4Text /\ Len(p) = 4 /\ \A k \in 1 .. 4 : V4Part(p[k]) # Invalid
        /\ V4FromString(s) = [k \in 1 .. 4 |-> V4Part(p[k])[1]]
    BY DEF V4FromString
  <1>2. \A k \in 1 .. Len(p) : p[k] \in Texts
    BY PiecesType
  <1> HIDE DEF p
  <1>3. \A k \in 1 .. 4 : p[k] \in Texts /\ V4Part(p[k])[1] \in Bytes
    BY <1>1, <1>2, V4PartOk
  <1> QED
    BY <1>1, <1>3 DEF p

LEMMA PortOk ==
    ASSUME NEW s \in Texts, PortFromString(s) # Invalid
    PROVE  /\ PortFromString(s) \in [1 .. 1 -> Words16]
           /\ PortFromString(s) = hton(FromChars(s, 10, MaxWord))
           /\ IsWord(s, 10, hton_16(PortFromString(s)[1]))
           /\ FromChars(s, 10, MaxWord) # Invalid
           /\ Len(s) > 1 => s[1] # 0
  <1> DEFINE n == Number(s, 10)
  <1>1. /\ ~(Len(s) > 1 /\ Head(s) = 0) /\ FromChars(s, 10, MaxWord) # Invalid
        /\ PortFromString(s) = hton(FromChars(s, 10, MaxWord))
    BY DEF PortFromString
  <1>2. FromChars(s, 10, MaxWord) = <<n>> /\ n \in Nat /\ n <= MaxWord /\ IsWord(s, 10, n)
    BY <1>1, FromCharsOk
  <1> HIDE DEF n
  <1>3. n \in Words16
    BY <1>2, Widths
  <1>4. hton_16(n) \in Words16 /\ hton_16(hton_16(n)) = n
    BY <1>3, Htons
  <1>5. hton(<<n>>) = [i \in 1 .. 1 |-> hton_16(n)]
    BY DEF hton
  <1>6. PortFromString(s) \in [1 .. 1 -> Words16] /\ PortFromString(s)[1] = hton_16(n)
    BY <1>1, <1>2, <1>4, <1>5
  <1>7. Head(s) = s[1]
    BY <1>2 DEF Texts, IsWord
  <1> QED
    BY <1>1, <1>2, <1>4, <1>6, <1>7

-----------------------------------------------------------------------------
(* Reading the sections of an IPv6 address *)

Groups == {g \in Seq(Words16) : Len(g) <= 8}
States == [ok : BOOLEAN, groups : Groups, seen_ipv4 : BOOLEAN]

Reading(g, seen) == [ok |-> TRUE, groups |-> g, seen_ipv4 |-> seen]

LEMMA GroupOps ==
    /\ << >> \in Groups
    /\ \A v \in Words16 : <<v>> \in Seq(Words16) /\ Len(<<v>>) = 1 /\ <<v>>[1] = v
    /\ \A u, v \in Words16 : /\ <<u, v>> \in Seq(Words16) /\ Len(<<u, v>>) = 2
                             /\ <<u, v>>[1] = u /\ <<u, v>>[2] = v
    /\ \A g, h \in Seq(Words16) :
         /\ g \o h \in Seq(Words16) /\ Len(g \o h) = Len(g) + Len(h)
         /\ Len(g) + Len(h) <= 8 => g \o h \in Groups
         /\ \A i \in 1 .. Len(g) : (g \o h)[i] = g[i]
         /\ \A i \in 1 .. Len(h) : (g \o h)[Len(g) + i] = h[i]
    /\ \A g \in Seq(Words16) : /\ Len(g) \in Nat /\ DOMAIN g = 1 .. Len(g)
                               /\ \A i \in 1 .. Len(g) : g[i] \in Words16
    /\ \A g \in Groups : g \in Seq(Words16) /\ Len(g) \in 0 .. 8
  <1>1. << >> \in Groups
    BY DEF Groups
  <1>2. /\ \A v \in Words16 : <<v>> \in Seq(Words16) /\ Len(<<v>>) = 1 /\ <<v>>[1] = v
        /\ \A u, v \in Words16 : /\ <<u, v>> \in Seq(Words16) /\ Len(<<u, v>>) = 2
                                 /\ <<u, v>>[1] = u /\ <<u, v>>[2] = v
    OBVIOUS
  <1>3. \A g \in Seq(Words16) : /\ Len(g) \in Nat /\ DOMAIN g = 1 .. Len(g)
                                /\ \A i \in 1 .. Len(g) : g[i] \in Words16
    OBVIOUS
  <1>4. ASSUME NEW g \in Seq(Words16), NEW h \in Seq(Words16)
        PROVE  /\ g \o h \in Seq(Words16) /\ Len(g \o h) = Len(g) + Len(h)
               /\ Len(g) + Len(h) <= 8 => g \o h \in Groups
               /\ \A i \in 1 .. Len(g) : (g \o h)[i] = g[i]
               /\ \A i \in 1 .. Len(h) : (g \o h)[Len(g) + i] = h[i]
    <2>1. /\ g \o h \in Seq(Words16) /\ Len(g \o h) = Len(g) + Len(h)
          /\ \A i \in 1 .. Len(g) + Len(h) : (g \o h)[i] =
                IF i <= Len(g) THEN g[i] ELSE h[i - Len(g)]
      BY ConcatProperties
    <2>2. Len(g) \in Nat /\ Len(h) \in Nat
      OBVIOUS
    <2>3. /\ \A i \in 1 .. Len(g) : (g \o h)[i] = g[i]
          /\ \A i \in 1 .. Len(h) : (g \o h)[Len(g) + i] = h[i]
      BY <2>1, <2>2
    <2> QED
      BY <2>1, <2>3 DEF Groups
  <1>5. \A g \in Groups : g \in Seq(Words16) /\ Len(g) \in 0 .. 8
    <2> TAKE g \in Groups
    <2>1. g \in Seq(Words16) /\ Len(g) <= 8
      BY DEF Groups
    <2>2. Len(g) \in Nat
      BY <1>3, <2>1
    <2>3. \A n \in Nat : n <= 8 => n \in 0 .. 8
      OBVIOUS
    <2> QED
      BY <2>1, <2>2, <2>3
  <1> QED
    BY <1>1, <1>2, <1>3, <1>4, <1>5

\* The two groups a dotted quad adds.
LEMMA QuadGroups ==
    ASSUME NEW a \in [1 .. 4 -> Bytes]
    PROVE  SectionOfV4(a) \in Seq(Words16) /\ Len(SectionOfV4(a)) = 2
  <1> DEFINE u == hton_16(Cast16(a[1], a[2]))
             v == hton_16(Cast16(a[3], a[4]))
  <1>1. u \in Words16 /\ v \in Words16
    BY Casts, Htons
  <1>2. SectionOfV4(a) = <<u, v>>
    BY DEF SectionOfV4
  <1> HIDE DEF u, v
  <1> QED
    BY <1>1, <1>2, GroupOps

\* parse_one_section, which fails or adds one group or two.
LEMMA SectionIs ==
    ASSUME NEW st \in States, NEW sub \in Texts
    PROVE  parse_one_section(st, sub) =
             IF ~st.ok \/ st.seen_ipv4 \/ sub = << >> THEN Failed
             ELSE IF Contains(sub, Dot)
             THEN IF Len(st.groups) > 6 \/ V4FromString(sub) = Invalid THEN Failed
                  ELSE Reading(st.groups \o SectionOfV4(V4FromString(sub)), TRUE)
             ELSE IF Len(st.groups) >= 8 \/ Len(sub) > 4 \/ FromChars(sub, 16, MaxWord) = Invalid
                  THEN Failed
                  ELSE Reading(st.groups \o FromChars(sub, 16, MaxWord), FALSE)
  <1>1. st.ok \in BOOLEAN /\ st.seen_ipv4 \in BOOLEAN
        /\ st = [ok |-> st.ok, groups |-> st.groups, seen_ipv4 |-> st.seen_ipv4]
    BY DEF States
  <1>2. CASE ~st.ok \/ st.seen_ipv4 \/ sub = << >>
    BY <1>2 DEF parse_one_section
  <1>3. CASE ~(~st.ok \/ st.seen_ipv4 \/ sub = << >>) /\ Contains(sub, Dot)
    BY <1>3 DEF parse_one_section, SectionOfV4, Reading
  <1>4. CASE ~(~st.ok \/ st.seen_ipv4 \/ sub = << >>) /\ ~Contains(sub, Dot)
    <2>1. \A g : [st EXCEPT !.groups = g] =
                   [ok |-> st.ok, groups |-> g, seen_ipv4 |-> st.seen_ipv4]
      BY DEF States
    <2>2. st.ok = TRUE /\ st.seen_ipv4 = FALSE
      BY <1>1, <1>4
    <2>3. \A g : [st EXCEPT !.groups = g] = Reading(g, FALSE)
      BY <2>1, <2>2 DEF Reading
    <2> QED
      BY <1>4, <2>3 DEF parse_one_section
  <1> QED
    BY <1>2, <1>3, <1>4

LEMMA StateOps ==
    /\ Start \in States /\ Failed \in States /\ ~Failed.ok /\ Start = Reading(<< >>, FALSE)
    /\ \A g \in Groups, seen \in BOOLEAN :
         /\ Reading(g, seen) \in States /\ Reading(g, seen).ok
         /\ Reading(g, seen).groups = g /\ Reading(g, seen).seen_ipv4 = seen
    /\ \A st \in States : /\ st.ok \in BOOLEAN /\ st.seen_ipv4 \in BOOLEAN /\ st.groups \in Groups
                          /\ st.ok => st = Reading(st.groups, st.seen_ipv4)
  BY GroupOps DEF Start, Failed, States, Reading

LEMMA HexGroup ==
    ASSUME NEW sub \in Texts, FromChars(sub, 16, MaxWord) # Invalid
    PROVE  /\ FromChars(sub, 16, MaxWord) \in Seq(Words16) /\ Len(FromChars(sub, 16, MaxWord)) = 1
           /\ FromChars(sub, 16, MaxWord) = <<Number(sub, 16)>> /\ Number(sub, 16) \in Words16
           /\ IsWord(sub, 16, Number(sub, 16))
  <1> DEFINE n == Number(sub, 16)
  <1>1. FromChars(sub, 16, MaxWord) = <<n>> /\ n \in Nat /\ n <= MaxWord /\ IsWord(sub, 16, n)
    BY FromCharsOk
  <1> HIDE DEF n
  <1>2. n \in Words16
    BY <1>1, Widths
  <1>3. <<n>> \in Seq(Words16) /\ Len(<<n>>) = 1
    BY <1>2, GroupOps
  <1> QED
    BY <1>1, <1>2, <1>3 DEF n

\* A state after a section; the groups only grow.
LEMMA SectionType ==
    ASSUME NEW st \in States, NEW sub \in Texts
    PROVE  /\ parse_one_section(st, sub) \in States
           /\ parse_one_section(st, sub).ok =>
                st.ok /\ Len(st.groups) < Len(parse_one_section(st, sub).groups)
  <1> DEFINE g == st.groups
             v4 == V4FromString(sub)
             hex == FromChars(sub, 16, MaxWord)
             quad == SectionOfV4(v4)
             new == parse_one_section(st, sub)
  <1>1. g \in Groups /\ g \in Seq(Words16) /\ Len(g) \in 0 .. 8
    BY StateOps, GroupOps
  <1>2. \/ new = Failed
        \/ st.ok /\ Len(g) <= 6 /\ v4 # Invalid /\ new = Reading(g \o quad, TRUE)
        \/ st.ok /\ Len(g) < 8 /\ hex # Invalid /\ new = Reading(g \o hex, FALSE)
    <2>1. Len(g) > 6 \/ Len(g) <= 6
      BY <1>1
    <2>2. Len(g) >= 8 \/ Len(g) < 8
      BY <1>1
    <2> QED
      BY <2>1, <2>2, SectionIs
  <1>3. v4 # Invalid => quad \in Seq(Words16) /\ Len(quad) = 2
    BY V4Ok, QuadGroups
  <1>4. hex # Invalid => hex \in Seq(Words16) /\ Len(hex) = 1
    BY HexGroup
  <1> HIDE DEF g, v4, hex, quad, new
  <1>5. ASSUME NEW h \in Seq(Words16), Len(h) \in 1 .. 2, Len(g) + Len(h) <= 8, NEW seen \in BOOLEAN,
               new = Reading(g \o h, seen)
        PROVE  new \in States /\ Len(g) < Len(new.groups)
    <2>1. g \o h \in Groups /\ Len(g \o h) = Len(g) + Len(h)
      BY <1>1, <1>5, GroupOps
    <2>2. new \in States /\ new.groups = g \o h
      BY <1>5, <2>1, StateOps
    <2>3. \A m, n : m \in 0 .. 8 /\ n \in 1 .. 2 => m < m + n
      OBVIOUS
    <2> QED
      BY <1>1, <1>5, <2>1, <2>2, <2>3
  <1>6. CASE new = Failed
    BY <1>6, StateOps DEF new
  <1>7. CASE st.ok /\ Len(g) <= 6 /\ v4 # Invalid /\ new = Reading(g \o quad, TRUE)
    <2>1. Len(quad) \in 1 .. 2 /\ Len(g) + Len(quad) <= 8
      <3>1. \A m : m \in 0 .. 8 /\ m <= 6 => m + 2 <= 8
        OBVIOUS
      <3>2. 2 \in 1 .. 2
        OBVIOUS
      <3> QED
        BY <1>1, <1>3, <1>7, <3>1, <3>2
    <2>2. new \in States /\ Len(g) < Len(new.groups)
      BY <1>3, <1>5, <1>7, <2>1
    <2> QED
      BY <1>7, <2>2 DEF new, g
  <1>8. CASE st.ok /\ Len(g) < 8 /\ hex # Invalid /\ new = Reading(g \o hex, FALSE)
    <2>1. Len(hex) \in 1 .. 2 /\ Len(g) + Len(hex) <= 8
      <3>1. \A m : m \in 0 .. 8 /\ m < 8 => m + 1 <= 8
        OBVIOUS
      <3>2. 1 \in 1 .. 2
        OBVIOUS
      <3> QED
        BY <1>1, <1>4, <1>8, <3>1, <3>2
    <2>2. new \in States /\ Len(g) < Len(new.groups)
      BY <1>4, <1>5, <1>8, <2>1
    <2> QED
      BY <1>8, <2>2 DEF new, g
  <1> QED
    BY <1>2, <1>6, <1>7, <1>8

\* The loop over the sections of one side.
Sections(st, words) == Accumulate(parse_one_section, st, words)

LEMMA SectionSteps ==
    ASSUME NEW st \in States
    PROVE  /\ Sections(st, << >>) = st
           /\ \A s \in Seq(Texts) : Sections(st, s) \in States
           /\ \A s \in Seq(Texts), x \in Texts :
                Sections(st, Append(s, x)) = parse_one_section(Sections(st, s), x)
  <1> DEFINE F == [x \in Texts |-> [v \in States |-> parse_one_section(v, x)]]
  <1>0. st \in States
    BY DEF States
  <1>1. F \in [Texts -> [States -> States]]
    BY SectionType
  <1>2. \A x \in Texts, v \in States : F[x][v] = parse_one_section(v, x)
    OBVIOUS
  <1> HIDE DEF F
  <1>3. ASSUME NEW s \in Seq(Texts) PROVE Sections(st, s) = Loop(States, st, F, s)
    <2> DEFINE n == Len(s)
               G(g) == [i \in 0 .. n |-> IF i = 0 THEN st ELSE parse_one_section(g[i - 1], s[i])]
               u == CHOOSE g : g = G(g)
    <2>0. n = Len(s)
      OBVIOUS
    <2>1. n \in Nat /\ \A i \in 1 .. n : s[i] \in Texts
      BY <1>3
    <2>2. Sections(st, s) = u[n]
      BY DEF Sections, Accumulate
    <2> HIDE DEF n
    <2>3. PICK t : t \in Traces(States, st, F, s)
      BY <1>0, <1>1, <1>3, TraceExists
    <2>31. /\ t \in [0 .. n -> States] /\ t[0] = st
           /\ \A i \in 1 .. n : t[i] = F[s[i]][t[i - 1]] /\ i - 1 \in 0 .. n
      BY <2>0, <2>1, <2>3 DEF Traces
    <2>4. \A i \in 1 .. n : t[i] = parse_one_section(t[i - 1], s[i])
      BY <1>2, <2>1, <2>31
    <2>5. t = G(t)
      BY <2>1, <2>31, <2>4
    <2>6. u = G(u)
      BY <2>5
    <2> HIDE DEF u
    <2>7. u[0] = st /\ \A i \in 1 .. n : u[i] = parse_one_section(u[i - 1], s[i])
      BY <2>1, <2>6
    <2>8. \A i \in 1 .. n : u[i - 1] \in States => u[i] = F[s[i]][u[i - 1]]
      BY <1>2, <2>1, <2>7
    <2>9. u[n] = Loop(States, st, F, s)
      <3>1. u[0] = st
        BY <2>7
      <3> QED
        BY ONLY <1>0, <1>1, <1>3, <2>0, <2>8, <3>1, LoopIs
    <2> QED
      BY <2>2, <2>9
  <1>4. << >> \in Seq(Texts) /\ \A s \in Seq(Texts), x \in Texts : Append(s, x) \in Seq(Texts)
    OBVIOUS
  <1>5. Loop(States, st, F, << >>) = st
    BY <1>0, <1>1, LoopEmpty
  <1>6. ASSUME NEW s \in Seq(Texts) PROVE Loop(States, st, F, s) \in States
    BY <1>0, <1>1, LoopType
  <1>7. ASSUME NEW s \in Seq(Texts), NEW x \in Texts
        PROVE  Loop(States, st, F, Append(s, x)) = F[x][Loop(States, st, F, s)]
    BY <1>0, <1>1, LoopAppend
  <1> QED
    BY <1>2, <1>3, <1>4, <1>5, <1>6, <1>7, ZenonT(40)

\* A side once read: the sections before it are still there.
LEMMA SectionsGrow ==
    ASSUME NEW st \in States
    PROVE  \A ws \in Seq(Texts) :
             Sections(st, ws).ok => st.ok /\ Len(st.groups) <= Len(Sections(st, ws).groups)
  <1> DEFINE S == {ws \in Seq(Texts) :
                     Sections(st, ws).ok => st.ok /\ Len(st.groups) <= Len(Sections(st, ws).groups)}
  <1>1. /\ Sections(st, << >>) = st
        /\ \A ws \in Seq(Texts) : Sections(st, ws) \in States
        /\ \A ws \in Seq(Texts), w \in Texts :
             Sections(st, Append(ws, w)) = parse_one_section(Sections(st, ws), w)
    BY SectionSteps
  <1>2. \A x \in States : Len(x.groups) \in Nat
    <2> TAKE x \in States
    <2>1. x.groups \in Groups
      BY StateOps
    <2>2. x.groups \in Seq(Words16)
      BY <2>1, GroupOps
    <2> QED
      BY <2>2
  <1>3. << >> \in S
    <2>1. Len(st.groups) <= Len(st.groups)
      BY <1>2
    <2> QED
      BY <1>1, <2>1
  <1>4. ASSUME NEW ws \in Seq(Texts), NEW w \in Texts, ws \in S PROVE Append(ws, w) \in S
    <2> DEFINE a == Sections(st, ws)
               b == Sections(st, Append(ws, w))
    <2>1. a \in States /\ b = parse_one_section(a, w) /\ Append(ws, w) \in Seq(Texts)
      BY <1>1
    <2>2. a.ok => st.ok /\ Len(st.groups) <= Len(a.groups)
      BY <1>4
    <2>3. b \in States
      BY <1>1, <2>1
    <2> HIDE DEF a
    <2>4. b.ok => a.ok /\ Len(a.groups) < Len(b.groups)
      BY <2>1, SectionType
    <2> HIDE DEF b
    <2>5. Len(st.groups) \in Nat /\ Len(a.groups) \in Nat /\ Len(b.groups) \in Nat
      BY <1>2, <2>1, <2>3
    <2>6. b.ok => st.ok /\ Len(st.groups) <= Len(b.groups)
      BY <2>2, <2>4, <2>5
    <2> QED
      BY <2>1, <2>6 DEF b
  <1> HIDE DEF S
  <1>5. Seq(Texts) \subseteq S
    BY <1>3, <1>4, InductSeq
  <1> QED
    BY <1>5 DEF S

\* ReadSide.
LEMMA SideType ==
    ASSUME NEW st \in States, NEW side \in Texts
    PROVE  /\ ReadSide(st, side) \in States
           /\ ReadSide(st, side).ok =>
                st.ok /\ Len(st.groups) <= Len(ReadSide(st, side).groups)
  <1>1. Split(side, Colon) \in Seq(Texts)
    BY PiecesType
  <1>2. \A ws \in Seq(Texts) : Sections(st, ws) \in States
    BY SectionSteps
  <1>3. ReadSide(st, side) = IF side = << >> THEN st ELSE Sections(st, Split(side, Colon))
    BY DEF ReadSide, Sections
  <1>4. Len(st.groups) <= Len(st.groups)
    <2>1. st.groups \in Groups
      BY StateOps
    <2>2. Len(st.groups) \in Nat
      BY <2>1, GroupOps
    <2> QED
      BY <2>2
  <1> QED
    BY <1>1, <1>2, <1>3, <1>4, SectionsGrow

-----------------------------------------------------------------------------
(* The gap, and the address as memory holds it *)

LEMMA ZerosType ==
    ASSUME NEW n \in Nat
    PROVE  Zeros(n) \in Seq(Words16) /\ Len(Zeros(n)) = n /\ \A i \in 1 .. n : Zeros(n)[i] = 0
  <1>1. 0 \in Words16
    BY Widths
  <1>2. Zeros(n) = [i \in 1 .. n |-> 0]
    BY DEF Zeros
  <1>3. \A i \in 1 .. n : Zeros(n)[i] = 0
    BY <1>2
  <1>4. Zeros(n) \in Seq(Words16) /\ Len(Zeros(n)) = n
    BY <1>1, <1>2
  <1> QED
    BY <1>3, <1>4

LEMMA GapType ==
    ASSUME NEW l \in Groups, NEW b \in Groups, Len(l) <= Len(b)
    PROVE  CloseGap(l, b) \in Seq(Words16) /\ Len(CloseGap(l, b)) = 8
  <1>1. l \in Seq(Words16) /\ b \in Seq(Words16) /\ Len(l) \in 0 .. 8 /\ Len(b) \in 0 .. 8
    BY GroupOps
  <1>2. 8 - Len(l) \in Nat /\ 8 - Len(b) \in Nat
    <2>1. \A n \in 0 .. 8 : 8 - n \in Nat
      OBVIOUS
    <2> QED
      BY <1>1, <2>1
  <1>3. CASE b = l
    <2> DEFINE z == Zeros(8 - Len(l))
    <2>1. z \in Seq(Words16) /\ Len(z) = 8 - Len(l)
      BY <1>2, ZerosType
    <2>2. CloseGap(l, b) = l \o z
      BY <1>3 DEF CloseGap
    <2> HIDE DEF z
    <2>3. l \o z \in Seq(Words16) /\ Len(l \o z) = Len(l) + Len(z)
      BY <1>1, <2>1, GroupOps
    <2>4. Len(l) + Len(z) = 8
      BY <1>1, <2>1
    <2> QED
      BY <2>2, <2>3, <2>4
  <1>4. CASE b # l
    <2> DEFINE z == Zeros(8 - Len(b))
               r == SubSeq(b, Len(l) + 1, Len(b))
    <2>1. z \in Seq(Words16) /\ Len(z) = 8 - Len(b)
      BY <1>2, ZerosType
    <2>2. r \in Seq(Words16) /\ Len(r) = Len(b) - Len(l)
      <3> DEFINE m == Len(l) + 1
                 n == Len(b)
      <3>1. m \in 1 .. n + 1 /\ n \in Nat /\ n = Len(b)
        BY <1>1
      <3>2. \A i \in m .. n : b[i] \in Words16
        BY <1>1
      <3> HIDE DEF m, n
      <3>3. SubSeq(b, m, n) \in Seq(Words16)
            /\ Len(SubSeq(b, m, n)) = IF m <= n THEN n - m + 1 ELSE 0
        BY ONLY <1>1, <3>1, <3>2, SubSeqProperties
      <3>4. (IF m <= n THEN n - m + 1 ELSE 0) = Len(b) - Len(l)
        BY <1>1, <3>1 DEF m, n
      <3> QED
        BY <3>3, <3>4 DEF m, n
    <2>3. CloseGap(l, b) = l \o z \o r
      BY <1>4 DEF CloseGap
    <2> HIDE DEF z, r
    <2>4. l \o z \in Seq(Words16) /\ Len(l \o z) = Len(l) + Len(z)
      BY <1>1, <2>1, GroupOps
    <2>5. l \o z \o r \in Seq(Words16) /\ Len(l \o z \o r) = Len(l) + Len(z) + Len(r)
      <3> DEFINE lz == l \o z
      <3>1. lz \in Seq(Words16) /\ Len(lz) = Len(l) + Len(z)
        BY <2>4
      <3> HIDE DEF lz
      <3>2. lz \o r \in Seq(Words16) /\ Len(lz \o r) = Len(lz) + Len(r)
        BY <2>2, <3>1, GroupOps
      <3> QED
        BY <3>1, <3>2 DEF lz
    <2>6. Len(l) + Len(z) + Len(r) = 8
      BY ONLY <1>1, <2>1, <2>2
    <2> QED
      BY <2>3, <2>5, <2>6
  <1> QED
    BY <1>3, <1>4

LEMMA NetworkOrder ==
    ASSUME NEW g \in Seq(Words16), Len(g) = 8
    PROVE  hton(g) \in [1 .. 8 -> Words16] /\ \A i \in 1 .. 8 : hton(g)[i] = hton_16(g[i])
  <1>1. DOMAIN g = 1 .. 8 /\ \A i \in 1 .. 8 : g[i] \in Words16
    <2>1. DOMAIN g = 1 .. Len(g) /\ \A i \in 1 .. Len(g) : g[i] \in Words16
      BY GroupOps
    <2> QED
      BY <2>1
  <1>2. hton(g) = [i \in 1 .. 8 |-> hton_16(g[i])]
    BY <1>1 DEF hton
  <1>3. \A i \in 1 .. 8 : hton_16(g[i]) \in Words16
    BY <1>1, Htons
  <1> QED
    BY <1>2, <1>3

\* A text address_v6::from_string accepts.
LEMMA V6Ok ==
    ASSUME NEW s \in Texts, V6FromString(s) # Invalid, NEW sides, sides = SplitPair(s, Colon, Colon),
           NEW left, left = ReadSide(Start, sides[1]), NEW both, both = ReadSide(left, sides[2])
    PROVE  /\ V6FromString(s) \in [1 .. 8 -> Words16]
           /\ s # << >> /\ Len(s) <= MaxV6Text
           /\ sides[1] \in Texts /\ left \in States /\ left.ok
           /\ \/ /\ Len(sides) = 1 /\ Len(left.groups) = 8 /\ V6FromString(s) = hton(left.groups)
              \/ /\ Len(sides) = 2 /\ sides[2] \in Texts /\ ~left.seen_ipv4
                 /\ both \in States /\ both.ok /\ RoomForZeros(left.groups, both.groups)
                 /\ V6FromString(s) = hton(CloseGap(left.groups, both.groups))
  <1>1. /\ ~(s = << >> \/ Len(s) > MaxV6Text \/ ~left.ok)
        /\ \/ Len(sides) = 1 /\ Len(left.groups) = 8 /\ V6FromString(s) = hton(left.groups)
           \/ /\ Len(sides) = 2 /\ ~left.seen_ipv4 /\ both.ok
              /\ RoomForZeros(left.groups, both.groups)
              /\ V6FromString(s) = hton(CloseGap(left.groups, both.groups))
    BY DEF V6FromString
  <1>2. Len(sides) \in Nat /\ Len(sides) >= 1 /\ \A k \in 1 .. Len(sides) : sides[k] \in Texts
    BY PairsType
  <1>3. sides[1] \in Texts
    BY <1>2
  <1>4. left \in States
    BY <1>3, StateOps, SideType
  <1>5. Len(s) <= MaxV6Text
    BY <1>1, TextOps DEF MaxV6Text
  <1>6. CASE Len(sides) = 1 /\ Len(left.groups) = 8 /\ V6FromString(s) = hton(left.groups)
    <2>1. left.groups \in Seq(Words16)
      BY <1>4, StateOps, GroupOps
    <2> QED
      BY <1>1, <1>3, <1>4, <1>5, <1>6, <2>1, NetworkOrder
  <1>7. CASE /\ Len(sides) = 2 /\ ~left.seen_ipv4 /\ both.ok
             /\ RoomForZeros(left.groups, both.groups)
             /\ V6FromString(s) = hton(CloseGap(left.groups, both.groups))
    <2>1. sides[2] \in Texts
      BY <1>2, <1>7
    <2>2. both \in States /\ Len(left.groups) <= Len(both.groups)
      BY <1>4, <1>7, <2>1, SideType
    <2>3. left.groups \in Groups /\ both.groups \in Groups
      BY <1>4, <2>2, StateOps
    <2>4. CloseGap(left.groups, both.groups) \in Seq(Words16)
          /\ Len(CloseGap(left.groups, both.groups)) = 8
      BY <2>2, <2>3, GapType
    <2> QED
      BY <1>1, <1>3, <1>4, <1>5, <1>7, <2>1, <2>2, <2>4, NetworkOrder
  <1> QED
    BY <1>1, <1>6, <1>7

-----------------------------------------------------------------------------
(* from_string_uncheck *)

\* The mark of undefined behaviour is no value.
LEMMA UndefinedApart ==
    /\ Undefined \notin Seq(Words16)
    /\ Undefined \notin [1 .. 4 -> Bytes] /\ Undefined \notin [1 .. 8 -> Words16]
    /\ Undefined \notin [1 .. 1 -> Words16]
  <1>1. Undefined[1] = -1 /\ DOMAIN Undefined = 1 .. 1 /\ Len(Undefined) = 1
    BY DEF Undefined
  <1>2. -1 \notin Words16 /\ -1 \notin Bytes
    BY Widths
  <1> HIDE DEF Undefined
  <1>3. Undefined \notin Seq(Words16)
    <2> SUFFICES ASSUME Undefined \in Seq(Words16) PROVE FALSE
      OBVIOUS
    <2>1. \A i \in 1 .. Len(Undefined) : Undefined[i] \in Words16
      BY GroupOps
    <2>2. 1 \in 1 .. 1
      OBVIOUS
    <2> QED
      BY <1>1, <1>2, <2>1, <2>2
  <1>4. \A S : \A n \in Nat : Undefined \in [1 .. n -> S] /\ n >= 1 => Undefined[1] \in S
    OBVIOUS
  <1> QED
    BY <1>1, <1>2, <1>3, <1>4

LEMMA V4UncheckType ==
    ASSUME NEW s \in Texts, V4Uncheck(s) # Undefined
    PROVE  V4Uncheck(s) \in [1 .. 4 -> Bytes]
  <1> DEFINE p == Split(s, Dot)
             n == Len(p)
             Part(k) == FromChars(p[k], 10, MaxByte)
  <1>1. /\ ~(n > 4 \/ \E k \in 1 .. n : Part(k) = Invalid)
        /\ V4Uncheck(s) = [k \in 1 .. 4 |-> IF k <= n THEN Part(k)[1] ELSE 0]
    BY DEF V4Uncheck
  <1>2. n \in Nat /\ \A k \in 1 .. n : p[k] \in Texts
    BY PiecesType
  <1> HIDE DEF p, n
  <1>3. ASSUME NEW k \in 1 .. 4 PROVE (IF k <= n THEN Part(k)[1] ELSE 0) \in Bytes
    <2>1. 0 \in Bytes
      BY Widths
    <2>2. CASE k <= n
      <3>1. k \in 1 .. n
        BY <1>2, <2>2
      <3>2. p[k] \in Texts /\ Part(k) # Invalid
        BY <1>1, <1>2, <3>1
      <3> DEFINE m == Number(p[k], 10)
      <3>3. Part(k) = <<m>> /\ m \in Nat /\ m <= MaxByte
        BY <3>2, FromCharsOk
      <3> HIDE DEF Part, m
      <3>4. m \in Bytes /\ Part(k)[1] = m
        BY <3>3, Widths
      <3> QED
        BY <2>2, <3>4
    <2> QED
      BY <2>1, <2>2
  <1> QED
    BY <1>1, <1>3

\* On a text address_v4::from_string accepts, from_string_uncheck returns the
\* same address.
LEMMA V4Agrees ==
    ASSUME NEW s \in Texts, V4FromString(s) # Invalid
    PROVE  V4Uncheck(s) = V4FromString(s)
  <1> DEFINE p == Split(s, Dot)
             Part(k) == FromChars(p[k], 10, MaxByte)
             a == V4FromString(s)
  <1>1. /\ a \in [1 .. 4 -> Bytes] /\ Len(p) = 4
        /\ \A k \in 1 .. 4 : p[k] \in Texts /\ V4Part(p[k]) # Invalid /\ a[k] = V4Part(p[k])[1]
    BY V4Ok
  <1>2. V4Uncheck(s) = IF Len(p) > 4 \/ \E k \in 1 .. Len(p) : Part(k) = Invalid
                       THEN Undefined
                       ELSE [k \in 1 .. 4 |-> IF k <= Len(p) THEN Part(k)[1] ELSE 0]
    BY DEF V4Uncheck
  <1> HIDE DEF p, a
  <1>3. \A k \in 1 .. 4 : Part(k) # Invalid /\ Part(k)[1] = a[k]
    BY <1>1, V4PartOk
  <1> HIDE DEF Part
  <1>4. V4Uncheck(s) = [k \in 1 .. 4 |-> IF k <= 4 THEN Part(k)[1] ELSE 0]
    BY <1>1, <1>2, <1>3
  <1>5. V4Uncheck(s) = [k \in 1 .. 4 |-> a[k]]
    BY <1>3, <1>4
  <1> QED
    BY <1>1, <1>5 DEF a

Reached == Groups \cup {Undefined}

LEMMA UncheckType ==
    ASSUME NEW g \in Reached, NEW sub \in Texts
    PROVE  parse_one_section_uncheck(g, sub) \in Reached
  <1> DEFINE v4 == V4Uncheck(sub)
             hex == FromChars(sub, 16, MaxWord)
             quad == SectionOfV4(v4)
             new == parse_one_section_uncheck(g, sub)
  <1>1. \/ new = Undefined
        \/ g # Undefined /\ ~(Len(g) > 6) /\ v4 # Undefined /\ new = g \o quad
        \/ g # Undefined /\ ~(Len(g) >= 8) /\ hex # Invalid /\ new = g \o hex
    BY DEF parse_one_section_uncheck
  <1>2. v4 # Undefined => quad \in Seq(Words16) /\ Len(quad) = 2
    BY V4UncheckType, QuadGroups
  <1>3. hex # Invalid => hex \in Seq(Words16) /\ Len(hex) = 1
    BY HexGroup
  <1>4. g # Undefined => g \in Seq(Words16) /\ Len(g) \in 0 .. 8
    BY GroupOps DEF Reached
  <1> HIDE DEF v4, hex, quad, new
  <1>5. CASE g # Undefined /\ ~(Len(g) > 6) /\ v4 # Undefined /\ new = g \o quad
    <2>1. \A m \in 0 .. 8 : ~(m > 6) => m + 2 <= 8
      OBVIOUS
    <2>2. Len(g) + Len(quad) <= 8
      BY <1>2, <1>4, <1>5, <2>1
    <2> QED
      BY <1>2, <1>4, <1>5, <2>2, GroupOps DEF Reached, new
  <1>6. CASE g # Undefined /\ ~(Len(g) >= 8) /\ hex # Invalid /\ new = g \o hex
    <2>1. \A m \in 0 .. 8 : ~(m >= 8) => m + 1 <= 8
      OBVIOUS
    <2>2. Len(g) + Len(hex) <= 8
      BY <1>3, <1>4, <1>6, <2>1
    <2> QED
      BY <1>3, <1>4, <1>6, <2>2, GroupOps DEF Reached, new
  <1> QED
    BY <1>1, <1>5, <1>6 DEF Reached, new

\* A section parse_one_section accepts.
LEMMA SectionAgrees ==
    ASSUME NEW st \in States, NEW sub \in Texts, parse_one_section(st, sub).ok
    PROVE  parse_one_section_uncheck(st.groups, sub) = parse_one_section(st, sub).groups
  <1> DEFINE g == st.groups
             v4 == V4FromString(sub)
             hex == FromChars(sub, 16, MaxWord)
             new == parse_one_section(st, sub)
             unc == parse_one_section_uncheck(st.groups, sub)
  <1>1. g \in Groups /\ g \in Seq(Words16) /\ Len(g) \in 0 .. 8
    BY StateOps, GroupOps
  <1>2. g # Undefined
    BY <1>1, UndefinedApart
  <1>3. new # Failed
    BY StateOps
  <1>4. \/ Contains(sub, Dot) /\ ~(Len(g) > 6) /\ v4 # Invalid /\ new = Reading(g \o SectionOfV4(v4), TRUE)
        \/ ~Contains(sub, Dot) /\ ~(Len(g) >= 8) /\ hex # Invalid /\ new = Reading(g \o hex, FALSE)
    BY <1>3, SectionIs
  <1>5. unc = IF g = Undefined \/ Len(g) >= 8 THEN Undefined
              ELSE IF Contains(sub, Dot)
              THEN IF Len(g) > 6 \/ V4Uncheck(sub) = Undefined
                   THEN Undefined ELSE g \o SectionOfV4(V4Uncheck(sub))
              ELSE IF hex = Invalid THEN Undefined ELSE g \o hex
    BY DEF parse_one_section_uncheck
  <1>6. v4 # Invalid => V4Uncheck(sub) = v4 /\ v4 # Undefined
    BY V4Agrees, V4Ok, UndefinedApart
  <1>7. ~(Len(g) > 6) => ~(Len(g) >= 8)
    <2>1. \A m \in 0 .. 8 : ~(m > 6) => ~(m >= 8)
      OBVIOUS
    <2> QED
      BY <1>1, <2>1
  <1>8. \A h, seen : Reading(h, seen).groups = h
    BY DEF Reading
  <1> HIDE DEF g, v4, hex, new, unc
  <1>9. unc = new.groups
    BY <1>2, <1>4, <1>5, <1>6, <1>7, <1>8
  <1> QED
    BY <1>9 DEF unc, new

SectionsUncheck(g, words) == Accumulate(parse_one_section_uncheck, g, words)

LEMMA UncheckSteps ==
    ASSUME NEW g \in Reached
    PROVE  /\ SectionsUncheck(g, << >>) = g
           /\ \A s \in Seq(Texts) : SectionsUncheck(g, s) \in Reached
           /\ \A s \in Seq(Texts), x \in Texts :
                SectionsUncheck(g, Append(s, x)) = parse_one_section_uncheck(SectionsUncheck(g, s), x)
  <1> DEFINE F == [x \in Texts |-> [v \in Reached |-> parse_one_section_uncheck(v, x)]]
  <1>0. g \in Reached
    BY DEF Reached
  <1>1. F \in [Texts -> [Reached -> Reached]]
    BY UncheckType
  <1>2. \A x \in Texts, v \in Reached : F[x][v] = parse_one_section_uncheck(v, x)
    OBVIOUS
  <1> HIDE DEF F
  <1>3. ASSUME NEW s \in Seq(Texts) PROVE SectionsUncheck(g, s) = Loop(Reached, g, F, s)
    <2> DEFINE n == Len(s)
               G(f) == [i \in 0 .. n |-> IF i = 0 THEN g ELSE parse_one_section_uncheck(f[i - 1], s[i])]
               u == CHOOSE f : f = G(f)
    <2>0. n = Len(s)
      OBVIOUS
    <2>1. n \in Nat /\ \A i \in 1 .. n : s[i] \in Texts
      BY <1>3
    <2>2. SectionsUncheck(g, s) = u[n]
      BY DEF SectionsUncheck, Accumulate
    <2> HIDE DEF n
    <2>3. PICK t : t \in Traces(Reached, g, F, s)
      BY <1>0, <1>1, <1>3, TraceExists
    <2>31. /\ t \in [0 .. n -> Reached] /\ t[0] = g
           /\ \A i \in 1 .. n : t[i] = F[s[i]][t[i - 1]] /\ i - 1 \in 0 .. n
      BY <2>0, <2>1, <2>3 DEF Traces
    <2>4. \A i \in 1 .. n : t[i] = parse_one_section_uncheck(t[i - 1], s[i])
      BY <1>2, <2>1, <2>31
    <2>5. t = G(t)
      BY <2>1, <2>31, <2>4
    <2>6. u = G(u)
      BY <2>5
    <2> HIDE DEF u
    <2>7. u[0] = g /\ \A i \in 1 .. n : u[i] = parse_one_section_uncheck(u[i - 1], s[i])
      BY <2>1, <2>6
    <2>8. \A i \in 1 .. n : u[i - 1] \in Reached => u[i] = F[s[i]][u[i - 1]]
      BY <1>2, <2>1, <2>7
    <2>9. u[n] = Loop(Reached, g, F, s)
      <3>1. u[0] = g
        BY <2>7
      <3> QED
        BY ONLY <1>0, <1>1, <1>3, <2>0, <2>8, <3>1, LoopIs
    <2> QED
      BY <2>2, <2>9
  <1>4. << >> \in Seq(Texts) /\ \A s \in Seq(Texts), x \in Texts : Append(s, x) \in Seq(Texts)
    OBVIOUS
  <1>5. Loop(Reached, g, F, << >>) = g
    BY <1>0, <1>1, LoopEmpty
  <1>6. ASSUME NEW s \in Seq(Texts) PROVE Loop(Reached, g, F, s) \in Reached
    BY <1>0, <1>1, LoopType
  <1>7. ASSUME NEW s \in Seq(Texts), NEW x \in Texts
        PROVE  Loop(Reached, g, F, Append(s, x)) = F[x][Loop(Reached, g, F, s)]
    BY <1>0, <1>1, LoopAppend
  <1> QED
    BY <1>2, <1>3, <1>4, <1>5, <1>6, <1>7, ZenonT(40)

\* The sections from_string accepts.
LEMMA SectionsAgree ==
    ASSUME NEW st \in States
    PROVE  \A ws \in Seq(Texts) :
             Sections(st, ws).ok => SectionsUncheck(st.groups, ws) = Sections(st, ws).groups
  <1> DEFINE S == {ws \in Seq(Texts) :
                     Sections(st, ws).ok => SectionsUncheck(st.groups, ws) = Sections(st, ws).groups}
             g == st.groups
  <1>1. /\ Sections(st, << >>) = st
        /\ \A ws \in Seq(Texts) : Sections(st, ws) \in States
        /\ \A ws \in Seq(Texts), w \in Texts :
             Sections(st, Append(ws, w)) = parse_one_section(Sections(st, ws), w)
    BY SectionSteps
  <1>2. g \in Reached
    BY StateOps DEF Reached
  <1>3. /\ SectionsUncheck(g, << >>) = g
        /\ \A ws \in Seq(Texts), w \in Texts :
             SectionsUncheck(g, Append(ws, w)) = parse_one_section_uncheck(SectionsUncheck(g, ws), w)
    BY <1>2, UncheckSteps
  <1>4. << >> \in S
    BY <1>1, <1>3
  <1>5. ASSUME NEW ws \in Seq(Texts), NEW w \in Texts, ws \in S PROVE Append(ws, w) \in S
    <2> DEFINE a == Sections(st, ws)
               b == Sections(st, Append(ws, w))
    <2>1. a \in States /\ b = parse_one_section(a, w) /\ Append(ws, w) \in Seq(Texts)
      BY <1>1
    <2>2. a.ok => SectionsUncheck(g, ws) = a.groups
      BY <1>5
    <2>3. SectionsUncheck(g, Append(ws, w)) = parse_one_section_uncheck(SectionsUncheck(g, ws), w)
      BY <1>3
    <2> HIDE DEF a, b, g
    <2>4. b.ok => a.ok /\ parse_one_section_uncheck(a.groups, w) = b.groups
      BY <2>1, SectionType, SectionAgrees
    <2>5. b.ok => SectionsUncheck(g, Append(ws, w)) = b.groups
      BY <2>2, <2>3, <2>4
    <2> QED
      BY <2>1, <2>5 DEF b, g
  <1> HIDE DEF S
  <1>6. Seq(Texts) \subseteq S
    BY <1>4, <1>5, InductSeq
  <1> QED
    BY <1>6 DEF S

LEMMA SideAgrees ==
    ASSUME NEW st \in States, NEW side \in Texts, ReadSide(st, side).ok
    PROVE  ReadSideUncheck(st.groups, side) = ReadSide(st, side).groups
  <1>1. Split(side, Colon) \in Seq(Texts)
    BY PiecesType
  <1>2. ReadSide(st, side) = IF side = << >> THEN st ELSE Sections(st, Split(side, Colon))
    BY DEF ReadSide, Sections
  <1>3. ReadSideUncheck(st.groups, side) =
          IF side = << >> THEN st.groups ELSE SectionsUncheck(st.groups, Split(side, Colon))
    BY DEF ReadSideUncheck, SectionsUncheck
  <1> QED
    BY <1>1, <1>2, <1>3, SectionsAgree

LEMMA V6Agrees ==
    ASSUME NEW s \in Texts, V6FromString(s) # Invalid
    PROVE  V6Uncheck(s) = V6FromString(s)
  <1> DEFINE sides == SplitPair(s, Colon, Colon)
             left  == ReadSide(Start, sides[1])
             both  == ReadSide(left, sides[2])
             l == ReadSideUncheck(<< >>, sides[1])
             b == IF Len(sides) = 1 THEN l ELSE ReadSideUncheck(l, sides[2])
  <1>1. /\ sides[1] \in Texts /\ left \in States /\ left.ok
        /\ \/ /\ Len(sides) = 1 /\ Len(left.groups) = 8 /\ V6FromString(s) = hton(left.groups)
           \/ /\ Len(sides) = 2 /\ sides[2] \in Texts /\ both \in States /\ both.ok
              /\ V6FromString(s) = hton(CloseGap(left.groups, both.groups))
    BY V6Ok
  <1>2. V6Uncheck(s) = IF Len(sides) > 2 \/ l = Undefined \/ b = Undefined
                       THEN Undefined ELSE hton(CloseGap(l, b))
    BY DEF V6Uncheck
  <1>3. l = left.groups
    <2>1. Start \in States /\ Start.groups = << >>
      BY StateOps DEF Start
    <2> QED
      BY <1>1, <2>1, SideAgrees
  <1>4. left.groups \in Groups /\ left.groups \in Seq(Words16)
    BY <1>1, StateOps, GroupOps
  <1> HIDE DEF sides, left, both, l
  <1>5. CASE /\ Len(sides) = 1 /\ Len(left.groups) = 8 /\ V6FromString(s) = hton(left.groups)
    <2> DEFINE g == left.groups
               z == Zeros(8 - Len(g))
    <2>1. g \in Seq(Words16) /\ Len(g) = 8 /\ g # Undefined
      BY <1>4, <1>5, UndefinedApart
    <2>2. z = << >>
      <3>1. 8 - Len(g) = 0
        BY <2>1
      <3>2. Zeros(0) \in Seq(Words16) /\ Len(Zeros(0)) = 0
        BY ZerosType
      <3> QED
        BY <3>1, <3>2, EmptySeq
    <2>3. CloseGap(g, g) = g \o z
      BY DEF CloseGap
    <2>4. g \o << >> = g
      BY <2>1
    <2>5. b = g
      BY <1>3, <1>5
    <2>6. ~(Len(sides) > 2)
      BY <1>5
    <2> HIDE DEF g, z, b
    <2>7. V6Uncheck(s) = hton(g)
      BY <1>2, <1>3, <2>1, <2>2, <2>3, <2>4, <2>5, <2>6 DEF g
    <2> QED
      BY <1>5, <2>7 DEF g
  <1>6. CASE /\ Len(sides) = 2 /\ sides[2] \in Texts /\ both \in States /\ both.ok
             /\ V6FromString(s) = hton(CloseGap(left.groups, both.groups))
    <2>1. ReadSideUncheck(left.groups, sides[2]) = both.groups
      BY <1>1, <1>6, SideAgrees DEF both
    <2>2. b = both.groups
      BY <1>3, <1>6, <2>1
    <2>3. both.groups \in Seq(Words16)
      BY <1>6, StateOps, GroupOps
    <2>4. l # Undefined /\ b # Undefined
      BY <1>3, <1>4, <2>2, <2>3, UndefinedApart
    <2>5. ~(Len(sides) > 2)
      BY <1>6
    <2> QED
      BY <1>2, <1>3, <1>6, <2>2, <2>4, <2>5
  <1> QED
    BY <1>1, <1>5, <1>6

-----------------------------------------------------------------------------
(* A text from its pieces *)

\* w is the last piece of s, and q the ones before it.
Peeled(s, q, w, ch) ==
    /\ q \in Seq(Texts) /\ w \in Texts /\ Split(s, ch) = Append(q, w) /\ ~Contains(w, ch)
    /\ \/ q = << >> /\ s = w
       \/ \E t \in Texts : Split(t, ch) = q /\ s = t \o <<ch>> \o w

LEMMA PeelOne ==
    ASSUME NEW ch \in Chars, NEW s \in Texts, NEW c \in Chars, NEW q, NEW w, Peeled(s, q, w, ch)
    PROVE  \E q2, w2 : Peeled(Append(s, c), q2, w2, ch)
  <1>1. /\ q \in Seq(Texts) /\ w \in Texts /\ Split(s, ch) = Append(q, w) /\ ~Contains(w, ch)
        /\ \/ q = << >> /\ s = w
           \/ \E t \in Texts : Split(t, ch) = q /\ s = t \o <<ch>> \o w
    BY DEF Peeled
  <1>2. Split(Append(s, c), ch) = Cut(Append(q, w), c, ch)
    BY <1>1, SplitSteps
  <1>3. Cut(Append(q, w), c, ch) = IF c = ch THEN Append(Append(q, w), << >>)
                                   ELSE Append(q, Append(w, c))
    BY <1>1, CutLast
  <1>4. <<ch>> \in Texts /\ Append(s, ch) = s \o <<ch>> \o << >>
    <2>1. s \o <<ch>> \in Texts /\ <<ch>> \in Texts
      BY TextOps
    <2>2. Append(s, ch) = s \o <<ch>>
      BY DEF Texts
    <2>3. (s \o <<ch>>) \o << >> = s \o <<ch>>
      BY <2>1, ConcatEmptySeq DEF Texts
    <2> QED
      BY <2>1, <2>2, <2>3
  <1>5. CASE c = ch
    <2> DEFINE e == << >>
               p == Append(q, w)
    <2>1. e \in Texts /\ ~Contains(e, ch) /\ Append(s, ch) = s \o <<ch>> \o e
      BY <1>4, TextOps, ContainsOps
    <2>2. Split(Append(s, c), ch) = Append(p, e)
      BY <1>2, <1>3, <1>5
    <2>3. p \in Seq(Texts) /\ Split(s, ch) = p
      BY <1>1
    <2> HIDE DEF e, p
    <2>4. Peeled(Append(s, c), p, e, ch)
      BY <1>5, <2>1, <2>2, <2>3 DEF Peeled
    <2> QED
      BY <2>4
  <1>6. CASE c # ch
    <2> DEFINE a == Append(w, c)
    <2>1. a \in Texts /\ ~Contains(a, ch)
      <3>1. a \in Texts
        BY <1>1, TextOps
      <3>2. Contains(a, ch) <=> Contains(w, ch) \/ c = ch
        BY <1>1, ContainsOps
      <3> QED
        BY <1>1, <1>6, <3>1, <3>2
    <2>2. Split(Append(s, c), ch) = Append(q, a)
      BY <1>2, <1>3, <1>6
    <2>3. (q = << >> /\ Append(s, c) = a) \/ \E t \in Texts : Split(t, ch) = q /\ Append(s, c) = t \o <<ch>> \o a
      <3>1. CASE q = << >> /\ s = w
        BY <3>1
      <3>2. ASSUME NEW t \in Texts, Split(t, ch) = q, s = t \o <<ch>> \o w
            PROVE  Append(s, c) = t \o <<ch>> \o a
        <4>1. t \o <<ch>> \in Texts
          BY <1>4, TextOps
        <4> QED
          BY <1>1, <3>2, <4>1, ConcatAppend
      <3> QED
        BY <1>1, <3>1, <3>2
    <2> HIDE DEF a
    <2>4. Peeled(Append(s, c), q, a, ch)
      BY <1>1, <2>1, <2>2, <2>3 DEF Peeled
    <2> QED
      BY <2>4
  <1> QED
    BY <1>5, <1>6

LEMMA Peel ==
    ASSUME NEW ch \in Chars
    PROVE  \A s \in Texts : \E q, w : Peeled(s, q, w, ch)
  <1> DEFINE S == {s \in Texts : \E q, w : Peeled(s, q, w, ch)}
  <1>1. << >> \in S
    <2> DEFINE e == << >>
               n == << >>
    <2>1. e \in Texts /\ ~Contains(e, ch) /\ n \in Seq(Texts)
      BY TextOps, ContainsOps
    <2>2. Split(e, ch) = Append(n, e)
      BY SplitSteps DEF Nothing
    <2>3. Peeled(e, n, e, ch)
      BY <2>1, <2>2 DEF Peeled
    <2> QED
      BY <2>1, <2>3
  <1>2. ASSUME NEW s \in Texts, NEW c \in Chars, s \in S PROVE Append(s, c) \in S
    <2>1. PICK q, w : Peeled(s, q, w, ch)
      BY <1>2
    <2>2. \E q2, w2 : Peeled(Append(s, c), q2, w2, ch)
      BY <2>1, PeelOne
    <2> QED
      BY <2>2, TextOps
  <1> HIDE DEF S
  <1>3. Texts \subseteq S
    BY <1>1, <1>2, InductText
  <1> QED
    BY <1>3 DEF S

\* t is s without its last piece and the separator in front of it.
Shorter(t, s, ch) ==
    LET p == Split(s, ch)
        n == Len(Split(s, ch))
    IN  /\ t \in Texts /\ s = t \o <<ch>> \o p[n]
        /\ p[n] \in Texts /\ ~Contains(p[n], ch)
        /\ Len(Split(t, ch)) = n - 1
        /\ \A k \in 1 .. n - 1 : Split(t, ch)[k] = p[k]

LEMMA LastPiece ==
    ASSUME NEW ch \in Chars, NEW s \in Texts, Len(Split(s, ch)) >= 2
    PROVE  \E t : Shorter(t, s, ch)
  <1> DEFINE p == Split(s, ch)
             n == Len(p)
  <1>1. PICK q, w : Peeled(s, q, w, ch)
    BY Peel
  <1>2. /\ q \in Seq(Texts) /\ w \in Texts /\ p = Append(q, w) /\ ~Contains(w, ch)
        /\ \/ q = << >> /\ s = w
           \/ \E t \in Texts : Split(t, ch) = q /\ s = t \o <<ch>> \o w
    BY <1>1 DEF Peeled
  <1>3. n = Len(q) + 1 /\ p[n] = w /\ Len(q) \in Nat /\ \A k \in 1 .. Len(q) : p[k] = q[k]
    BY <1>2, AppendProperties
  <1>4. n >= 2
    OBVIOUS
  <1> HIDE DEF p, n
  <1>5. Len(q) = n - 1 /\ Len(q) # 0
    BY <1>3, <1>4
  <1>6. PICK t \in Texts : Split(t, ch) = q /\ s = t \o <<ch>> \o w
    <2>1. q # << >>
      <3>1. Len(<< >>) = 0
        OBVIOUS
      <3> QED
        BY ONLY <1>5, <3>1
    <2> QED
      BY <1>2, <2>1
  <1>7. Shorter(t, s, ch)
    <2>1. /\ t \in Texts /\ s = t \o <<ch>> \o p[n] /\ p[n] \in Texts /\ ~Contains(p[n], ch)
          /\ Len(Split(t, ch)) = n - 1 /\ \A k \in 1 .. n - 1 : Split(t, ch)[k] = p[k]
      BY <1>2, <1>3, <1>5, <1>6
    <2> QED
      BY <2>1 DEF Shorter, p, n
  <1> QED
    BY <1>7

LEMMA OnePiece ==
    ASSUME NEW ch \in Chars, NEW s \in Texts, Len(Split(s, ch)) = 1
    PROVE  s = Split(s, ch)[1] /\ ~Contains(s, ch)
  <1> DEFINE p == Split(s, ch)
  <1>1. PICK q, w : Peeled(s, q, w, ch)
    BY Peel
  <1>2. /\ q \in Seq(Texts) /\ w \in Texts /\ p = Append(q, w) /\ ~Contains(w, ch)
        /\ \/ q = << >> /\ s = w
           \/ \E t \in Texts : Split(t, ch) = q /\ s = t \o <<ch>> \o w
    BY <1>1 DEF Peeled
  <1>3. Len(p) = Len(q) + 1 /\ p[Len(p)] = w /\ Len(q) \in Nat
    BY <1>2, AppendProperties
  <1>4. Len(p) = 1
    OBVIOUS
  <1> HIDE DEF p
  <1>5. Len(q) = 0 /\ p[1] = w
    <2>1. p[1] = w
      BY ONLY <1>3, <1>4
    <2>2. \A n \in Nat : 1 = n + 1 => n = 0
      OBVIOUS
    <2> QED
      BY ONLY <1>3, <1>4, <2>1, <2>2
  <1>6. \A t \in Texts : Len(Split(t, ch)) >= 1
    BY PiecesType
  <1>7. s = w
    BY <1>2, <1>5, <1>6
  <1> QED
    BY <1>2, <1>5, <1>7 DEF p

LEMMA TwoPieces ==
    ASSUME NEW ch \in Chars, NEW s \in Texts, NEW p, p = Split(s, ch), Len(p) = 2
    PROVE  /\ p[1] \in Texts /\ p[2] \in Texts /\ s = p[1] \o <<ch>> \o p[2]
           /\ ~Contains(p[1], ch) /\ ~Contains(p[2], ch)
           /\ \A x : Contains(s, x) <=> Contains(p[1], x) \/ x = ch \/ Contains(p[2], x)
  <1>1. Len(Split(s, ch)) = 2 /\ Len(Split(s, ch)) >= 2
    OBVIOUS
  <1>2. PICK t : Shorter(t, s, ch)
    BY <1>1, LastPiece
  <1>3. /\ t \in Texts /\ s = t \o <<ch>> \o p[2] /\ p[2] \in Texts /\ ~Contains(p[2], ch)
        /\ Len(Split(t, ch)) = 1 /\ Split(t, ch)[1] = p[1]
    BY <1>1, <1>2 DEF Shorter
  <1>4. t = p[1] /\ ~Contains(t, ch)
    BY <1>3, OnePiece
  <1>5. ASSUME NEW x PROVE Contains(s, x) <=> Contains(t, x) \/ x = ch \/ Contains(p[2], x)
    <2>1. <<ch>> \in Texts /\ (Contains(<<ch>>, x) <=> ch = x)
      BY TextOps, ContainsOps
    <2>2. t \o <<ch>> \in Texts /\ (Contains(t \o <<ch>>, x) <=> Contains(t, x) \/ Contains(<<ch>>, x))
      BY <1>3, <2>1, TextOps, ContainsOps
    <2> DEFINE u == t \o <<ch>>
    <2>3. u \in Texts /\ s = u \o p[2] /\ (Contains(u, x) <=> Contains(t, x) \/ x = ch)
      BY <1>3, <2>1, <2>2
    <2> HIDE DEF u
    <2>4. Contains(u \o p[2], x) <=> Contains(u, x) \/ Contains(p[2], x)
      BY <1>3, <2>3, ContainsOps
    <2> QED
      BY <2>3, <2>4
  <1> QED
    BY <1>3, <1>4, <1>5

-----------------------------------------------------------------------------
(* One spelling *)

\* D holds the five digits of v; w is a word of n digits for v, without a
\* zero in front; D is w with zeros in front.
Five(D, v) ==
    /\ D[1] \in 0 .. 9 /\ D[2] \in 0 .. 9 /\ D[3] \in 0 .. 9 /\ D[4] \in 0 .. 9 /\ D[5] \in 0 .. 9
    /\ (((D[1] * 10 + D[2]) * 10 + D[3]) * 10 + D[4]) * 10 + D[5] = v

Canonical(w, n, v) ==
    /\ \A i \in 1 .. n : w[i] \in 0 .. 9
    /\ n > 1 => w[1] # 0
    /\ n = 1 => v = w[1]
    /\ n = 2 => v = w[1] * 10 + w[2]
    /\ n = 3 => v = (w[1] * 10 + w[2]) * 10 + w[3]
    /\ n = 4 => v = ((w[1] * 10 + w[2]) * 10 + w[3]) * 10 + w[4]
    /\ n = 5 => v = (((w[1] * 10 + w[2]) * 10 + w[3]) * 10 + w[4]) * 10 + w[5]

Padded(D, w, n, f) ==
    /\ f \in 1 .. 5 /\ (f = 5 \/ D[f] # 0)
    /\ \A i \in 1 .. 5 : i < f => D[i] = 0
    /\ \A i \in 1 .. n : D[f + i - 1] = w[i]

LEMMA PaddedDigits ==
    ASSUME NEW v, NEW D, NEW w, NEW n \in 1 .. 5, NEW f, f = 6 - n, Five(D, v), Canonical(w, n, v)
    PROVE  Padded(D, w, n, f)
  <1>1. /\ D[1] \in 0 .. 9 /\ D[2] \in 0 .. 9 /\ D[3] \in 0 .. 9 /\ D[4] \in 0 .. 9 /\ D[5] \in 0 .. 9
        /\ (((D[1] * 10 + D[2]) * 10 + D[3]) * 10 + D[4]) * 10 + D[5] = v
        /\ \A i \in 1 .. n : w[i] \in 0 .. 9
        /\ n > 1 => w[1] # 0
        /\ f = 6 - n
    BY DEF Five, Canonical
  <1> DEFINE y1 == D[1]
             y2 == D[2]
             y3 == D[3]
             y4 == D[4]
             y5 == D[5]
  <1>2. /\ y1 \in 0 .. 9 /\ y2 \in 0 .. 9 /\ y3 \in 0 .. 9 /\ y4 \in 0 .. 9 /\ y5 \in 0 .. 9
        /\ (((y1 * 10 + y2) * 10 + y3) * 10 + y4) * 10 + y5 = v
    BY ONLY <1>1
  <1>3. CASE n = 1
    <2> DEFINE x1 == w[1]
    <2>1. x1 \in 0 .. 9
      BY ONLY <1>1, <1>3
    <2>2. x1 = v
      BY <1>3 DEF Canonical
    <2> HIDE DEF x1
    <2> HIDE DEF y1, y2, y3, y4, y5
    <2>3. y1 = 0 /\ y2 = 0 /\ y3 = 0 /\ y4 = 0 /\ y5 = x1
      BY ONLY <1>2, <2>1, <2>2
    <2>4. f = 5 /\ 1 .. n = 1 .. 1
      BY ONLY <1>1, <1>3
    <2>5. \A i \in 1 .. 5 : i < 5 => D[i] = 0
      BY ONLY <2>3 DEF y1, y2, y3, y4, y5
    <2>6. \A i \in 1 .. 1 : D[5 + i - 1] = w[i]
      BY ONLY <2>3 DEF y1, y2, y3, y4, y5, x1
    <2>7. f \in 1 .. 5 /\ (f = 5 \/ D[f] # 0)
      BY ONLY <2>4
    <2> QED
      BY ONLY <2>4, <2>5, <2>6, <2>7 DEF Padded
  <1>4. CASE n = 2
    <2> DEFINE x1 == w[1]
               x2 == w[2]
    <2>1. x1 \in 0 .. 9 /\ x2 \in 0 .. 9
      BY ONLY <1>1, <1>4
    <2>2. x1 * 10 + x2 = v
      BY <1>4 DEF Canonical
    <2> HIDE DEF x1, x2
    <2> HIDE DEF y1, y2, y3, y4, y5
    <2>3. y1 = 0 /\ y2 = 0 /\ y3 = 0 /\ y4 = x1 /\ y5 = x2
      BY ONLY <1>2, <2>1, <2>2
    <2>4. f = 4 /\ 1 .. n = 1 .. 2
      BY ONLY <1>1, <1>4
    <2>5. \A i \in 1 .. 5 : i < 4 => D[i] = 0
      BY ONLY <2>3 DEF y1, y2, y3, y4, y5
    <2>6. \A i \in 1 .. 2 : D[4 + i - 1] = w[i]
      BY ONLY <2>3 DEF y1, y2, y3, y4, y5, x1, x2
    <2>7. f \in 1 .. 5 /\ (f = 5 \/ D[f] # 0)
      BY ONLY <1>1, <1>4, <2>3, <2>4 DEF x1, y1, y2, y3, y4, y5
    <2> QED
      BY ONLY <2>4, <2>5, <2>6, <2>7 DEF Padded
  <1>5. CASE n = 3
    <2> DEFINE x1 == w[1]
               x2 == w[2]
               x3 == w[3]
    <2>1. x1 \in 0 .. 9 /\ x2 \in 0 .. 9 /\ x3 \in 0 .. 9
      BY ONLY <1>1, <1>5
    <2>2. (x1 * 10 + x2) * 10 + x3 = v
      BY <1>5 DEF Canonical
    <2> HIDE DEF x1, x2, x3
    <2> HIDE DEF y1, y2, y3, y4, y5
    <2>3. y1 = 0 /\ y2 = 0 /\ y3 = x1 /\ y4 = x2 /\ y5 = x3
      BY ONLY <1>2, <2>1, <2>2
    <2>4. f = 3 /\ 1 .. n = 1 .. 3
      BY ONLY <1>1, <1>5
    <2>5. \A i \in 1 .. 5 : i < 3 => D[i] = 0
      BY ONLY <2>3 DEF y1, y2, y3, y4, y5
    <2>6. \A i \in 1 .. 3 : D[3 + i - 1] = w[i]
      BY ONLY <2>3 DEF y1, y2, y3, y4, y5, x1, x2, x3
    <2>7. f \in 1 .. 5 /\ (f = 5 \/ D[f] # 0)
      BY ONLY <1>1, <1>5, <2>3, <2>4 DEF x1, y1, y2, y3, y4, y5
    <2> QED
      BY ONLY <2>4, <2>5, <2>6, <2>7 DEF Padded
  <1>6. CASE n = 4
    <2> DEFINE x1 == w[1]
               x2 == w[2]
               x3 == w[3]
               x4 == w[4]
    <2>1. x1 \in 0 .. 9 /\ x2 \in 0 .. 9 /\ x3 \in 0 .. 9 /\ x4 \in 0 .. 9
      BY ONLY <1>1, <1>6
    <2>2. ((x1 * 10 + x2) * 10 + x3) * 10 + x4 = v
      BY <1>6 DEF Canonical
    <2> HIDE DEF x1, x2, x3, x4
    <2> HIDE DEF y1, y2, y3, y4, y5
    <2>3. y1 = 0 /\ y2 = x1 /\ y3 = x2 /\ y4 = x3 /\ y5 = x4
      BY ONLY <1>2, <2>1, <2>2
    <2>4. f = 2 /\ 1 .. n = 1 .. 4
      BY ONLY <1>1, <1>6
    <2>5. \A i \in 1 .. 5 : i < 2 => D[i] = 0
      BY ONLY <2>3 DEF y1, y2, y3, y4, y5
    <2>6. \A i \in 1 .. 4 : D[2 + i - 1] = w[i]
      BY ONLY <2>3 DEF y1, y2, y3, y4, y5, x1, x2, x3, x4
    <2>7. f \in 1 .. 5 /\ (f = 5 \/ D[f] # 0)
      BY ONLY <1>1, <1>6, <2>3, <2>4 DEF x1, y1, y2, y3, y4, y5
    <2> QED
      BY ONLY <2>4, <2>5, <2>6, <2>7 DEF Padded
  <1>7. CASE n = 5
    <2> DEFINE x1 == w[1]
               x2 == w[2]
               x3 == w[3]
               x4 == w[4]
               x5 == w[5]
    <2>1. x1 \in 0 .. 9 /\ x2 \in 0 .. 9 /\ x3 \in 0 .. 9 /\ x4 \in 0 .. 9 /\ x5 \in 0 .. 9
      BY ONLY <1>1, <1>7
    <2>2. (((x1 * 10 + x2) * 10 + x3) * 10 + x4) * 10 + x5 = v
      BY <1>7 DEF Canonical
    <2> HIDE DEF x1, x2, x3, x4, x5
    <2> HIDE DEF y1, y2, y3, y4, y5
    <2>3. y1 = x1 /\ y2 = x2 /\ y3 = x3 /\ y4 = x4 /\ y5 = x5
      BY ONLY <1>2, <2>1, <2>2
    <2>4. f = 1 /\ 1 .. n = 1 .. 5
      BY ONLY <1>1, <1>7
    <2>5. \A i \in 1 .. 5 : i < 1 => D[i] = 0
      BY ONLY <2>3 DEF y1, y2, y3, y4, y5
    <2>6. \A i \in 1 .. 5 : D[1 + i - 1] = w[i]
      BY ONLY <2>3 DEF y1, y2, y3, y4, y5, x1, x2, x3, x4, x5
    <2>7. f \in 1 .. 5 /\ (f = 5 \/ D[f] # 0)
      BY ONLY <1>1, <1>7, <2>3, <2>4 DEF x1, y1, y2, y3, y4, y5
    <2> QED
      BY ONLY <2>4, <2>5, <2>6, <2>7 DEF Padded
  <1>8. n = 1 \/ n = 2 \/ n = 3 \/ n = 4 \/ n = 5
    BY ONLY n \in 1 .. 5
  <1> QED
    BY ONLY <1>3, <1>4, <1>5, <1>6, <1>7, <1>8

\* Decimal is the only word of at most five digits for its number that has no
\* zero in front.
LEMMA DecimalOnly ==
    ASSUME NEW v \in Words16, NEW w, IsWord(w, 10, v), Len(w) <= 5, Len(w) > 1 => w[1] # 0
    PROVE  Decimal(v) = w
  <1> DEFINE d1 == v \div 10000
             d2 == (v \div 1000) % 10
             d3 == (v \div 100) % 10
             d4 == (v \div 10) % 10
             d5 == v % 10
             D == <<d1, d2, d3, d4, d5>>
             n == Len(w)
             f == 6 - n
             u == SubSeq(D, f, 5)
  <1>1. w \in Texts /\ Number(w, 10) = v /\ n \in 1 .. 5
        /\ (\A i \in 1 .. n : w[i] < 10) /\ (n > 1 => w[1] # 0) /\ n = Len(w)
    <2>1. w \in Texts /\ w # << >> /\ Number(w, 10) = v /\ \A i \in DOMAIN w : w[i] < 10
      BY DEF IsWord
    <2>2. DOMAIN w = 1 .. n /\ n \in Nat /\ n >= 1
      BY <2>1, TextOps
    <2> QED
      BY <2>1, <2>2
  <1>2. Decimal(v) = Strip(D)
    BY DEF Decimal
  <1>3. /\ d1 \in 0 .. 9 /\ d2 \in 0 .. 9 /\ d3 \in 0 .. 9 /\ d4 \in 0 .. 9 /\ d5 \in 0 .. 9
        /\ (((d1 * 10 + d2) * 10 + d3) * 10 + d4) * 10 + d5 = v
    BY DecimalDigits
  <1> HIDE DEF d1, d2, d3, d4, d5, n
  <1>4. /\ D \in Texts /\ Len(D) = 5
        /\ D[1] = d1 /\ D[2] = d2 /\ D[3] = d3 /\ D[4] = d4 /\ D[5] = d5
    <2>1. d1 \in Chars /\ d2 \in Chars /\ d3 \in Chars /\ d4 \in Chars /\ d5 \in Chars
      BY <1>3 DEF Chars, Other
    <2> QED
      BY <2>1 DEF Texts
  <1> HIDE DEF D
  <1>5. \A i \in 1 .. n : w[i] \in 0 .. 9
    <2> TAKE i \in 1 .. n
    <2>1. w[i] \in Chars /\ w[i] < 10
      BY <1>1, TextOps
    <2> QED
      BY <2>1 DEF Chars
  <1>6. Canonical(w, n, v)
    <2>1. /\ n = 1 => v = w[1]
          /\ n = 2 => v = w[1] * 10 + w[2]
          /\ n = 3 => v = (w[1] * 10 + w[2]) * 10 + w[3]
          /\ n = 4 => v = ((w[1] * 10 + w[2]) * 10 + w[3]) * 10 + w[4]
          /\ n = 5 => v = (((w[1] * 10 + w[2]) * 10 + w[3]) * 10 + w[4]) * 10 + w[5]
      BY <1>1, NumberOf
    <2> QED
      BY ONLY <1>1, <1>5, <2>1 DEF Canonical
  <1>7. f = 6 - n /\ Five(D, v)
    BY <1>3, <1>4 DEF Five
  <1> HIDE DEF f
  <1>8. /\ f \in 1 .. 5 /\ (f = 5 \/ D[f] # 0)
        /\ \A i \in 1 .. 5 : i < f => D[i] = 0
        /\ \A i \in 1 .. n : D[f + i - 1] = w[i]
    <2>1. Padded(D, w, n, f)
      BY ONLY <1>1, <1>6, <1>7, PaddedDigits
    <2> QED
      BY ONLY <2>1 DEF Padded
  <1>9. Strip(D) = u
    BY <1>4, <1>8, StripIs
  <1>10. u \in Texts /\ Len(u) = 5 - f + 1 /\ \A i \in 1 .. 5 - f + 1 : u[i] = D[f + i - 1]
    <2>1. f \in 1 .. Len(D)
      BY <1>4, <1>8
    <2>2. /\ SubSeq(D, f, Len(D)) \in Texts
          /\ Len(SubSeq(D, f, Len(D))) = Len(D) - f + 1
          /\ \A i \in 1 .. Len(D) - f + 1 : SubSeq(D, f, Len(D))[i] = D[f + i - 1]
      BY <1>4, <2>1, Ending
    <2> QED
      BY <1>4, <2>2
  <1>11. 5 - f + 1 = n
    BY ONLY <1>1, <1>7
  <1> HIDE DEF u
  <1>12. u = w
    BY <1>1, <1>8, <1>10, <1>11, SameText
  <1> QED
    BY <1>2, <1>9, <1>12

\* A word of six digits or more without a zero in front is past 16 bits.
LEMMA LongNumber ==
    \A w \in Texts : Len(w) >= 6 /\ w[1] # 0 => Number(w, 10) > MaxWord
  <1> DEFINE S == {w \in Texts : Len(w) >= 6 /\ w[1] # 0 => Number(w, 10) > MaxWord}
  <1>1. << >> \in S
    BY TextOps
  <1>2. ASSUME NEW w \in Texts, NEW c \in Chars, w \in S PROVE Append(w, c) \in S
    <2> DEFINE a == Append(w, c)
               n == Number(w, 10)
               m == Len(w)
    <2>1. /\ a \in Texts /\ Len(a) = m + 1 /\ m \in Nat /\ m = Len(w)
          /\ \A i \in 1 .. m : a[i] = w[i]
      BY TextOps
    <2>2. Number(a, 10) = n * 10 + c /\ n \in Nat /\ c \in Nat
      <3>1. \A t \in Texts, x \in Chars : Number(Append(t, x), 10) = Number(t, 10) * 10 + x
        BY NumberSteps
      <3>2. n \in Nat /\ c \in Nat
        BY NumberSteps DEF Numbers, Chars, Other
      <3> QED
        BY <3>1, <3>2
    <2> HIDE DEF n, m
    <2> SUFFICES ASSUME Len(a) >= 6, a[1] # 0 PROVE Number(a, 10) > MaxWord
      BY <2>1
    <2> HIDE DEF a
    <2>3. m >= 5 /\ w[1] # 0
      BY <2>1
    <2>4. CASE m >= 6
      <3>1. n > MaxWord /\ MaxWord \in Nat
        BY <1>2, <2>1, <2>3, <2>4, Widths DEF n
      <3> QED
        BY ONLY <2>2, <3>1
    <2>5. CASE m = 5
      <3> DEFINE x1 == w[1]
                 x2 == w[2]
                 x3 == w[3]
                 x4 == w[4]
                 x5 == w[5]
      <3>1. n = (((w[1] * 10 + w[2]) * 10 + w[3]) * 10 + w[4]) * 10 + w[5]
        <4>1. Len(w) = 5
          BY ONLY <2>1, <2>5
        <4> QED
          BY <4>1, NumberOf DEF n
      <3>2. x1 \in Nat /\ x2 \in Nat /\ x3 \in Nat /\ x4 \in Nat /\ x5 \in Nat /\ x1 # 0
        <4>1. \A i \in 1 .. m : w[i] \in Chars
          BY <2>1, TextOps
        <4>2. \A x \in Chars : x \in Nat
          BY DEF Chars, Other
        <4>3. 1 \in 1 .. m /\ 2 \in 1 .. m /\ 3 \in 1 .. m /\ 4 \in 1 .. m /\ 5 \in 1 .. m
          BY ONLY <2>5
        <4> QED
          BY <2>3, <4>1, <4>2, <4>3
      <3>3. n = (((x1 * 10 + x2) * 10 + x3) * 10 + x4) * 10 + x5
        BY <3>1
      <3> HIDE DEF x1, x2, x3, x4, x5
      <3>4. n >= 10000
        BY ONLY <3>2, <3>3
      <3>5. Number(a, 10) > 65535
        BY ONLY <2>2, <3>4
      <3> QED
        BY ONLY <3>5, Widths
    <2>6. m >= 6 \/ m = 5
      BY ONLY <2>1, <2>3
    <2> QED
      BY <2>4, <2>5, <2>6
  <1> HIDE DEF S
  <1>3. Texts \subseteq S
    BY <1>1, <1>2, InductText
  <1> QED
    BY <1>3 DEF S

\* A port has one spelling, the one it is printed as.
LEMMA PortSpelled ==
    ASSUME NEW s \in Texts, PortFromString(s) # Invalid
    PROVE  FormatPort(PortFromString(s)) = s
  <1> DEFINE p == PortFromString(s)
             v == hton_16(p[1])
  <1>1. p \in [1 .. 1 -> Words16] /\ IsWord(s, 10, v) /\ (Len(s) > 1 => s[1] # 0)
    BY PortOk
  <1>2. FormatPort(p) = Decimal(v)
    BY <1>1 DEF FormatPort, hton
  <1>3. v \in Words16
    BY <1>1, Htons
  <1> HIDE DEF p, v
  <1>4. Len(s) <= 5
    <2> SUFFICES ASSUME ~(Len(s) <= 5) PROVE FALSE
      OBVIOUS
    <2>1. Len(s) \in Nat
      BY TextOps
    <2>2. Len(s) >= 6 /\ Len(s) > 1
      BY ONLY <2>1, ~(Len(s) <= 5)
    <2>3. Number(s, 10) > MaxWord /\ Number(s, 10) = v
      BY <1>1, <2>2, LongNumber DEF IsWord
    <2>4. v \in Nat /\ MaxWord \in Nat /\ v <= MaxWord
      BY <1>3, Widths
    <2> QED
      BY ONLY <2>3, <2>4
  <1>5. Decimal(v) = s
    BY <1>1, <1>3, <1>4, DecimalOnly
  <1> QED
    BY <1>2, <1>5 DEF p

\* An IPv4 address has one spelling.
LEMMA V4Spelled ==
    ASSUME NEW s \in Texts, V4FromString(s) # Invalid
    PROVE  FormatV4(V4FromString(s)) = s
  <1> DEFINE a == V4FromString(s)
             p == Split(s, Dot)
  <1>1. /\ a \in [1 .. 4 -> Bytes] /\ Len(p) = 4
        /\ \A k \in 1 .. 4 : p[k] \in Texts /\ V4Part(p[k]) # Invalid /\ a[k] = V4Part(p[k])[1]
    BY V4Ok
  <1>2. Dot \in Chars
    BY DEF Dot, Chars, Other
  <1> HIDE DEF a
  <1>3. ASSUME NEW k \in 1 .. 4 PROVE Decimal(a[k]) = p[k]
    <2> DEFINE w == p[k]
               v == a[k]
    <2>1. w \in Texts /\ V4Part(w) # Invalid /\ v = V4Part(w)[1] /\ v \in Bytes
      BY <1>1
    <2> HIDE DEF w, v
    <2>2. IsWord(w, 10, v) /\ Len(w) <= 3 /\ (Len(w) > 1 => w[1] # 0)
      BY <2>1, V4PartOk
    <2>3. Len(w) <= 5
      <3>1. Len(w) \in Nat
        BY <2>1, TextOps
      <3> QED
        BY ONLY <2>2, <3>1
    <2>4. v \in Words16
      <3>1. v \in Nat /\ v <= 255
        BY <2>1, Widths
      <3>2. v <= 65535
        BY ONLY <3>1
      <3> QED
        BY <3>1, <3>2, Widths
    <2>5. Decimal(v) = w
      BY <2>2, <2>3, <2>4, DecimalOnly
    <2> QED
      BY <2>5 DEF v, w
  <1>4. PICK t3 : Shorter(t3, s, Dot)
    <2>1. Len(Split(s, Dot)) >= 2
      BY <1>1
    <2> QED
      BY <1>2, <2>1, LastPiece
  <1>5. /\ t3 \in Texts /\ s = t3 \o <<Dot>> \o p[4] /\ Len(Split(t3, Dot)) = 3
        /\ \A k \in 1 .. 3 : Split(t3, Dot)[k] = p[k]
    BY <1>1, <1>4 DEF Shorter
  <1> HIDE DEF p
  <1>6. PICK t2 : Shorter(t2, t3, Dot)
    <2>1. Len(Split(t3, Dot)) >= 2
      BY <1>5
    <2> QED
      BY <1>2, <1>5, <2>1, LastPiece
  <1>7. /\ t2 \in Texts /\ t3 = t2 \o <<Dot>> \o p[3] /\ Len(Split(t2, Dot)) = 2
        /\ \A k \in 1 .. 2 : Split(t2, Dot)[k] = p[k]
    <2> DEFINE q == Split(t3, Dot)
    <2>1. Len(q) = 3 /\ \A k \in 1 .. 3 : q[k] = p[k]
      BY <1>5
    <2>2. /\ t2 \in Texts /\ t3 = t2 \o <<Dot>> \o q[Len(q)] /\ Len(Split(t2, Dot)) = Len(q) - 1
          /\ \A k \in 1 .. Len(q) - 1 : Split(t2, Dot)[k] = q[k]
      BY <1>6 DEF Shorter
    <2> HIDE DEF q
    <2>3. q[Len(q)] = p[3] /\ Len(q) - 1 = 2
      BY ONLY <2>1
    <2>4. \A k \in 1 .. 2 : q[k] = p[k]
      BY ONLY <2>1
    <2> QED
      BY ONLY <2>2, <2>3, <2>4
  <1>8. t2 = p[1] \o <<Dot>> \o p[2]
    <2> DEFINE q == Split(t2, Dot)
    <2>1. Len(q) = 2 /\ q[1] = p[1] /\ q[2] = p[2]
      BY <1>7
    <2>2. t2 = q[1] \o <<Dot>> \o q[2]
      BY <1>2, <1>7, <2>1, TwoPieces
    <2> QED
      BY <2>1, <2>2
  <1>9. FormatV4(a) = p[1] \o <<Dot>> \o p[2] \o <<Dot>> \o p[3] \o <<Dot>> \o p[4]
    <2>1. Decimal(a[1]) = p[1] /\ Decimal(a[2]) = p[2] /\ Decimal(a[3]) = p[3] /\ Decimal(a[4]) = p[4]
      BY ONLY <1>3
    <2> QED
      BY ONLY <2>1 DEF FormatV4
  <1>10. FormatV4(a) = s
    BY <1>5, <1>7, <1>8, <1>9
  <1> QED
    BY <1>10 DEF a

-----------------------------------------------------------------------------
(* Socket addresses *)

LEMMA Punctuation ==
    /\ Colon \in Chars /\ Dot \in Chars /\ Slash \in Chars /\ Hash \in Chars
    /\ Open \in Chars /\ Close \in Chars
    /\ Colon \in 16 .. Other /\ Dot \in 16 .. Other /\ Slash \in 16 .. Other
    /\ Hash \in 16 .. Other /\ Open \in 16 .. Other /\ Close \in 16 .. Other
    /\ Colon # Dot /\ Slash # Dot /\ Hash # Dot /\ Open # Dot /\ Close # Dot
    /\ Colon # Slash /\ Colon # Hash /\ Colon # Open /\ Colon # Close
    /\ Slash # Hash /\ Slash # Open /\ Slash # Close
    /\ Hash # Open /\ Hash # Close /\ Open # Close
    /\ Other \in 16 .. Other
  BY DEF Colon, Dot, Slash, Hash, Open, Close, Other, Chars

LEMMA V4Plain ==
    ASSUME NEW s \in Texts, V4FromString(s) # Invalid, NEW ch \in 16 .. Other, ch # Dot
    PROVE  ~Contains(s, ch)
  <1> DEFINE a == V4FromString(s)
  <1>1. a \in [1 .. 4 -> Bytes] /\ FormatV4(a) = s
    BY V4Ok, V4Spelled
  <1> HIDE DEF a
  <1>2. ~Contains(FormatV4(a), ch)
    BY <1>1, V4Text
  <1> QED
    BY <1>1, <1>2

LEMMA PortPlain ==
    ASSUME NEW s \in Texts, PortFromString(s) # Invalid, NEW ch \in 16 .. Other
    PROVE  ~Contains(s, ch)
  <1>1. IsWord(s, 10, hton_16(PortFromString(s)[1]))
    BY PortOk
  <1>2. 10 \in 1 .. 16
    OBVIOUS
  <1> QED
    BY <1>1, <1>2, WordFree

LEMMA PairOk ==
    ASSUME NEW p, NEW addr, ReadPair(p, addr) # Invalid
    PROVE  /\ Len(p) = 2 /\ addr # Invalid /\ PortFromString(p[2]) # Invalid
           /\ ReadPair(p, addr) = <<addr, PortFromString(p[2])>>
           /\ ReadPair(p, addr)[1] = addr /\ ReadPair(p, addr)[2] = PortFromString(p[2])
  BY DEF ReadPair

\* The separator socket_v4_info::from_string takes, and the pieces around it.
SockV4Sep(s) == IF Contains(s, Colon) THEN Colon ELSE Slash
SockV4Parts(s) == Split(s, SockV4Sep(s))

\* What an accepted text s is, when sep separates its pieces p.
TwoParts(s, p, sep) ==
    /\ Len(p) = 2 /\ p[1] \in Texts /\ p[2] \in Texts /\ s = p[1] \o <<sep>> \o p[2]
    /\ \A x : Contains(s, x) <=> Contains(p[1], x) \/ x = sep \/ Contains(p[2], x)

LEMMA SockV4Ok ==
    ASSUME NEW s \in Texts, SockV4FromString(s) # Invalid, NEW p, p = SockV4Parts(s)
    PROVE  /\ TwoParts(s, p, SockV4Sep(s))
           /\ Len(p) = 2 /\ p[1] \in Texts /\ p[2] \in Texts
           /\ V4FromString(p[1]) # Invalid /\ PortFromString(p[2]) # Invalid
           /\ SockV4FromString(s)[1] = V4FromString(p[1])
           /\ SockV4FromString(s)[2] = PortFromString(p[2])
           /\ SockV4FromString(s) = <<V4FromString(p[1]), PortFromString(p[2])>>
  <1>1. SockV4FromString(s) = ReadPair(p, V4FromString(p[1]))
    BY DEF SockV4FromString, SockV4Parts, SockV4Sep
  <1>2. /\ Len(p) = 2 /\ V4FromString(p[1]) # Invalid /\ PortFromString(p[2]) # Invalid
        /\ SockV4FromString(s) = <<V4FromString(p[1]), PortFromString(p[2])>>
        /\ SockV4FromString(s)[1] = V4FromString(p[1])
        /\ SockV4FromString(s)[2] = PortFromString(p[2])
    BY <1>1, PairOk
  <1>3. SockV4Sep(s) \in Chars /\ p = Split(s, SockV4Sep(s))
    BY Punctuation DEF SockV4Sep, SockV4Parts
  <1>4. /\ p[1] \in Texts /\ p[2] \in Texts /\ s = p[1] \o <<SockV4Sep(s)>> \o p[2]
        /\ \A x : Contains(s, x) <=> Contains(p[1], x) \/ x = SockV4Sep(s) \/ Contains(p[2], x)
    BY <1>2, <1>3, TwoPieces
  <1>5. TwoParts(s, p, SockV4Sep(s))
    BY <1>2, <1>4 DEF TwoParts
  <1> QED
    BY <1>2, <1>4, <1>5

LEMMA PairAgrees ==
    ASSUME NEW p, Len(p) = 2, p[2] \in Texts, NEW a, a # Undefined, PortFromString(p[2]) # Invalid
    PROVE  PairUncheck(p, a) = <<a, PortFromString(p[2])>>
  <1> DEFINE port == PortFromString(p[2])
  <1>1. port \in [1 .. 1 -> Words16] /\ port = hton(FromChars(p[2], 10, MaxWord))
        /\ FromChars(p[2], 10, MaxWord) # Invalid
    BY PortOk
  <1>2. PortUncheck(p[2]) = port
    BY <1>1 DEF PortUncheck
  <1> HIDE DEF port
  <1>3. port # Undefined
    BY <1>1, UndefinedApart
  <1>4. Last(p) = p[2]
    BY DEF Last
  <1>5. PairUncheck(p, a) = <<a, port>>
    BY <1>2, <1>3, <1>4 DEF PairUncheck
  <1> QED
    BY <1>5 DEF port

LEMMA SockV4Agrees ==
    ASSUME NEW s \in Texts, SockV4FromString(s) # Invalid
    PROVE  SockV4Uncheck(s) = SockV4FromString(s)
  <1> DEFINE sep == SockV4Sep(s)
             p == SockV4Parts(s)
             a == V4FromString(p[1])
  <1>1. /\ Len(p) = 2 /\ p[1] \in Texts /\ p[2] \in Texts /\ TwoParts(s, p, sep)
        /\ a # Invalid /\ PortFromString(p[2]) # Invalid
        /\ SockV4FromString(s) = <<a, PortFromString(p[2])>>
    BY SockV4Ok
  <1>2. \A x \in 16 .. Other : x # Dot => ~Contains(p[1], x)
    BY <1>1, V4Plain
  <1>3. \A x \in 16 .. Other : ~Contains(p[2], x)
    BY <1>1, PortPlain
  <1>4. sep = Colon \/ sep = Slash
    BY DEF SockV4Sep
  <1>5. V4Uncheck(p[1]) = a /\ a # Undefined
    BY <1>1, V4Agrees, V4Ok, UndefinedApart
  <1>6. p = Split(s, sep)
    BY DEF SockV4Parts
  <1> HIDE DEF sep, p, a
  <1>7. Contains(s, Slash) <=> sep = Slash
    <2>1. Slash \in 16 .. Other /\ Slash # Dot
      BY Punctuation
    <2>2. ~Contains(p[1], Slash) /\ ~Contains(p[2], Slash)
      BY ONLY <1>2, <1>3, <2>1
    <2>3. Contains(s, Slash) <=> Contains(p[1], Slash) \/ Slash = sep \/ Contains(p[2], Slash)
      BY ONLY <1>1 DEF TwoParts
    <2> QED
      BY ONLY <2>2, <2>3
  <1>8. SockV4Uncheck(s) = PairUncheck(p, V4Uncheck(p[1]))
    <2>1. sep = IF Contains(s, Slash) THEN Slash ELSE Colon
      BY <1>4, <1>7
    <2> QED
      BY <1>6, <2>1 DEF SockV4Uncheck
  <1>9. PairUncheck(p, a) = <<a, PortFromString(p[2])>>
    BY <1>1, <1>5, PairAgrees
  <1> QED
    BY <1>1, <1>5, <1>8, <1>9

\* The pieces socket_v6_info::from_string works on.
SockV6Parts(s) ==
    IF Len(SplitPair(s, Close, Colon)) > 1
    THEN SplitPair(Tail(s), Close, Colon)
    ELSE Split(s, IF Contains(s, Slash) THEN Slash ELSE Hash)

LEMMA SockV6PartsType ==
    ASSUME NEW s \in Texts, NEW p, p = SockV6Parts(s)
    PROVE  Len(p) >= 1 /\ \A k \in 1 .. Len(p) : p[k] \in Texts
  <1>1. CASE Len(SplitPair(s, Close, Colon)) > 1
    <2>1. s # << >>
      <3>1. SplitPair(<< >>, Close, Colon) = Nothing /\ Len(Nothing) = 1
        BY SplitPairSteps, NothingType
      <3>2. ~(1 > 1)
        OBVIOUS
      <3> QED
        BY ONLY <1>1, <3>1, <3>2
    <2>2. Tail(s) \in Texts
      BY <2>1, HeadTailProperties DEF Texts
    <2> QED
      BY <1>1, <2>2, PairsType DEF SockV6Parts
  <1>2. CASE ~(Len(SplitPair(s, Close, Colon)) > 1)
    BY <1>2, PiecesType DEF SockV6Parts
  <1> QED
    BY <1>1, <1>2

LEMMA SockV6Ok ==
    ASSUME NEW s \in Texts, SockV6FromString(s) # Invalid, NEW p, p = SockV6Parts(s)
    PROVE  /\ Len(p) = 2 /\ p[1] \in Texts /\ p[2] \in Texts
           /\ V6FromString(p[1]) # Invalid /\ PortFromString(p[2]) # Invalid
           /\ SockV6FromString(s)[1] = V6FromString(p[1])
           /\ SockV6FromString(s)[2] = PortFromString(p[2])
           /\ SockV6FromString(s) = <<V6FromString(p[1]), PortFromString(p[2])>>
           /\ Len(SplitPair(s, Close, Colon)) > 1 \/ Contains(s, Slash) \/ Contains(s, Hash)
  <1>1. SockV6FromString(s) = ReadPair(p, V6FromString(p[1]))
    BY DEF SockV6FromString, SockV6Parts
  <1>2. /\ Len(p) = 2 /\ V6FromString(p[1]) # Invalid /\ PortFromString(p[2]) # Invalid
        /\ SockV6FromString(s) = <<V6FromString(p[1]), PortFromString(p[2])>>
        /\ SockV6FromString(s)[1] = V6FromString(p[1])
        /\ SockV6FromString(s)[2] = PortFromString(p[2])
    BY <1>1, PairOk
  <1>3. p[1] \in Texts /\ p[2] \in Texts
    <2>1. \A k \in 1 .. Len(p) : p[k] \in Texts
      BY SockV6PartsType
    <2>2. 1 \in 1 .. 2 /\ 2 \in 1 .. 2
      OBVIOUS
    <2> QED
      BY ONLY <1>2, <2>1, <2>2
  <1>4. ASSUME ~(Len(SplitPair(s, Close, Colon)) > 1), ~Contains(s, Slash), ~Contains(s, Hash)
        PROVE  FALSE
    <2>1. p = Split(s, Hash)
      BY <1>4 DEF SockV6Parts
    <2>2. Split(s, Hash) = <<s>>
      BY <1>4, SplitFree
    <2>3. Len(<<s>>) = 1
      OBVIOUS
    <2> QED
      BY ONLY <1>2, <2>1, <2>2, <2>3
  <1> QED
    BY <1>2, <1>3, <1>4

LEMMA SockV6Agrees ==
    ASSUME NEW s \in Texts, SockV6FromString(s) # Invalid
    PROVE  SockV6Uncheck(s) = SockV6FromString(s)
  <1> DEFINE p == SockV6Parts(s)
             a == V6FromString(p[1])
             bracketed == Len(SplitPair(s, Close, Colon)) > 1
  <1>1. /\ Len(p) = 2 /\ p[1] \in Texts /\ p[2] \in Texts
        /\ a # Invalid /\ PortFromString(p[2]) # Invalid
        /\ SockV6FromString(s) = <<a, PortFromString(p[2])>>
        /\ bracketed \/ Contains(s, Slash) \/ Contains(s, Hash)
    BY SockV6Ok
  <1>2. V6Uncheck(p[1]) = a /\ a # Undefined
    BY <1>1, V6Agrees, V6Ok, UndefinedApart
  <1>3. SockV6Uncheck(s) = IF ~bracketed /\ ~Contains(s, Slash) /\ ~Contains(s, Hash)
                           THEN Undefined ELSE PairUncheck(p, V6Uncheck(p[1]))
    BY DEF SockV6Uncheck, SockV6Parts
  <1> HIDE DEF p, a, bracketed
  <1>4. PairUncheck(p, a) = <<a, PortFromString(p[2])>>
    BY <1>1, <1>2, PairAgrees
  <1> QED
    BY <1>1, <1>2, <1>3, <1>4

LEMMA PortAgrees ==
    ASSUME NEW s \in Texts, PortFromString(s) # Invalid
    PROVE  PortUncheck(s) = PortFromString(s)
  BY PortOk DEF PortUncheck

\* from_string_uncheck returns what from_string returns, for every text that
\* from_string accepts: none of the checks it leaves out matters then.
THEOREM UncheckSound ==
    ASSUME NEW k \in ClassNames, NEW s \in Texts, FromString(k, s) # Invalid
    PROVE  FromStringUncheck(k, s) = FromString(k, s)
  <1>1. CASE k = "address_v4"
    BY <1>1, V4Agrees DEF FromString, FromStringUncheck
  <1>2. CASE k = "address_v6"
    BY <1>2, V6Agrees DEF FromString, FromStringUncheck
  <1>3. CASE k = "port"
    BY <1>3, PortAgrees DEF FromString, FromStringUncheck
  <1>4. CASE k = "socket_v4_info"
    BY <1>4, SockV4Agrees DEF FromString, FromStringUncheck
  <1>5. CASE k = "socket_v6_info"
    BY <1>5, SockV6Agrees DEF FromString, FromStringUncheck
  <1> QED
    BY <1>1, <1>2, <1>3, <1>4, <1>5 DEF ClassNames

-----------------------------------------------------------------------------
(* What compressed_ipv6 and the two full forms print, and that              *)
(* address_v6::from_string reads it back.                                    *)

Indices == 1 .. 8
EightGroups == [Indices -> Words16]

Blank == << >>

AddAfter(acc, k, local, removed)  == acc \o HexWord(local[k], removed) \o <<Colon>>
AddBefore(acc, k, local, removed) == acc \o <<Colon>> \o HexWord(local[k], removed)

After(ks, local, removed) ==
    Accumulate(LAMBDA acc, k : AddAfter(acc, k, local, removed), Blank, ks)
Before(ks, local, removed) ==
    Accumulate(LAMBDA acc, k : AddBefore(acc, k, local, removed), Blank, ks)

LEMMA BlankType == Blank \in Texts
  BY DEF Blank, Texts

LEMMA AddType ==
    ASSUME NEW local \in EightGroups, NEW removed \in BOOLEAN, NEW k \in Indices, NEW acc \in Texts
    PROVE  AddAfter(acc, k, local, removed) \in Texts /\ AddBefore(acc, k, local, removed) \in Texts
  <1>1. local[k] \in Words16
    BY DEF EightGroups
  <1>2. HexWord(local[k], removed) \in Texts
    BY <1>1, HexWordIs DEF IsWord
  <1>3. <<Colon>> \in Texts
    BY Punctuation, TextOps
  <1> QED
    BY <1>2, <1>3, TextOps DEF AddAfter, AddBefore

LEMMA AfterSteps ==
    ASSUME NEW local \in EightGroups, NEW removed \in BOOLEAN
    PROVE  /\ After(<< >>, local, removed) = Blank
           /\ \A s \in Seq(Indices) : After(s, local, removed) \in Texts
           /\ \A s \in Seq(Indices), x \in Indices :
                After(Append(s, x), local, removed) = AddAfter(After(s, local, removed), x, local, removed)
  <1> DEFINE F == [x \in Indices |-> [v \in Texts |-> AddAfter(v, x, local, removed)]]
  <1>0. Blank \in Texts
    BY BlankType
  <1>1. F \in [Indices -> [Texts -> Texts]]
    BY AddType
  <1>2. \A x \in Indices, v \in Texts : F[x][v] = AddAfter(v, x, local, removed)
    OBVIOUS
  <1> HIDE DEF F
  <1>3. ASSUME NEW s \in Seq(Indices) PROVE After(s, local, removed) = Loop(Texts, Blank, F, s)
    <2> DEFINE n == Len(s)
               G(g) == [i \in 0 .. n |-> IF i = 0 THEN Blank ELSE AddAfter(g[i - 1], s[i], local, removed)]
               u == CHOOSE g : g = G(g)
    <2>0. n = Len(s)
      OBVIOUS
    <2>1. n \in Nat /\ \A i \in 1 .. n : s[i] \in Indices
      BY <1>3
    <2>2. After(s, local, removed) = u[n]
      BY DEF After, Accumulate
    <2> HIDE DEF n
    <2>3. PICK t : t \in Traces(Texts, Blank, F, s)
      BY <1>0, <1>1, <1>3, TraceExists
    <2>12. /\ t \in [0 .. n -> Texts] /\ t[0] = Blank
           /\ \A i \in 1 .. n : t[i] = F[s[i]][t[i - 1]] /\ i - 1 \in 0 .. n
      <3>1. t \in Traces(Texts, Blank, F, s) /\ n = Len(s) /\ n \in Nat
        BY <2>0, <2>1, <2>3
      <3>2. \A i \in 1 .. n : i - 1 \in 0 .. n
        BY ONLY <3>1
      <3> QED
        BY ONLY <3>1, <3>2 DEF Traces
    <2>4. \A i \in 1 .. n : t[i] = AddAfter(t[i - 1], s[i], local, removed)
      BY <1>2, <2>1, <2>12
    <2>5. t = G(t)
      BY <2>1, <2>12, <2>4
    <2>6. u = G(u)
      BY <2>5
    <2> HIDE DEF u
    <2>7. u[0] = Blank /\ \A i \in 1 .. n : u[i] = AddAfter(u[i - 1], s[i], local, removed)
      BY <2>1, <2>6
    <2>8. \A i \in 1 .. n : u[i - 1] \in Texts => u[i] = F[s[i]][u[i - 1]]
      BY <1>2, <2>1, <2>7
    <2>9. u[n] = Loop(Texts, Blank, F, s)
      <3>1. u[0] = Blank
        BY <2>7
      <3> QED
        BY ONLY <1>0, <1>1, <1>3, <2>0, <2>8, <3>1, LoopIs
    <2> QED
      BY <2>2, <2>9
  <1>4. << >> \in Seq(Indices) /\ \A s \in Seq(Indices), x \in Indices : Append(s, x) \in Seq(Indices)
    OBVIOUS
  <1>5. Loop(Texts, Blank, F, << >>) = Blank
    BY <1>0, <1>1, LoopEmpty
  <1>6. ASSUME NEW s \in Seq(Indices) PROVE Loop(Texts, Blank, F, s) \in Texts
    BY <1>0, <1>1, LoopType
  <1>7. ASSUME NEW s \in Seq(Indices), NEW x \in Indices
        PROVE  Loop(Texts, Blank, F, Append(s, x)) = F[x][Loop(Texts, Blank, F, s)]
    BY <1>0, <1>1, LoopAppend
  <1>8. After(<< >>, local, removed) = Blank
    BY <1>3, <1>4, <1>5
  <1>9. ASSUME NEW s \in Seq(Indices) PROVE After(s, local, removed) \in Texts
    BY <1>3, <1>6
  <1>10. ASSUME NEW s \in Seq(Indices), NEW x \in Indices
         PROVE  After(Append(s, x), local, removed) = AddAfter(After(s, local, removed), x, local, removed)
    BY <1>2, <1>3, <1>4, <1>7, <1>9, ZenonT(40)
  <1> QED
    BY <1>8, <1>9, <1>10

LEMMA BeforeSteps ==
    ASSUME NEW local \in EightGroups, NEW removed \in BOOLEAN
    PROVE  /\ Before(<< >>, local, removed) = Blank
           /\ \A s \in Seq(Indices) : Before(s, local, removed) \in Texts
           /\ \A s \in Seq(Indices), x \in Indices :
                Before(Append(s, x), local, removed) = AddBefore(Before(s, local, removed), x, local, removed)
  <1> DEFINE F == [x \in Indices |-> [v \in Texts |-> AddBefore(v, x, local, removed)]]
  <1>0. Blank \in Texts
    BY BlankType
  <1>1. F \in [Indices -> [Texts -> Texts]]
    BY AddType
  <1>2. \A x \in Indices, v \in Texts : F[x][v] = AddBefore(v, x, local, removed)
    OBVIOUS
  <1> HIDE DEF F
  <1>3. ASSUME NEW s \in Seq(Indices) PROVE Before(s, local, removed) = Loop(Texts, Blank, F, s)
    <2> DEFINE n == Len(s)
               G(g) == [i \in 0 .. n |-> IF i = 0 THEN Blank ELSE AddBefore(g[i - 1], s[i], local, removed)]
               u == CHOOSE g : g = G(g)
    <2>0. n = Len(s)
      OBVIOUS
    <2>1. n \in Nat /\ \A i \in 1 .. n : s[i] \in Indices
      BY <1>3
    <2>2. Before(s, local, removed) = u[n]
      BY DEF Before, Accumulate
    <2> HIDE DEF n
    <2>3. PICK t : t \in Traces(Texts, Blank, F, s)
      BY <1>0, <1>1, <1>3, TraceExists
    <2>12. /\ t \in [0 .. n -> Texts] /\ t[0] = Blank
           /\ \A i \in 1 .. n : t[i] = F[s[i]][t[i - 1]] /\ i - 1 \in 0 .. n
      <3>1. t \in Traces(Texts, Blank, F, s) /\ n = Len(s) /\ n \in Nat
        BY <2>0, <2>1, <2>3
      <3>2. \A i \in 1 .. n : i - 1 \in 0 .. n
        BY ONLY <3>1
      <3> QED
        BY ONLY <3>1, <3>2 DEF Traces
    <2>4. \A i \in 1 .. n : t[i] = AddBefore(t[i - 1], s[i], local, removed)
      BY <1>2, <2>1, <2>12
    <2>5. t = G(t)
      BY <2>1, <2>12, <2>4
    <2>6. u = G(u)
      BY <2>5
    <2> HIDE DEF u
    <2>7. u[0] = Blank /\ \A i \in 1 .. n : u[i] = AddBefore(u[i - 1], s[i], local, removed)
      BY <2>1, <2>6
    <2>8. \A i \in 1 .. n : u[i - 1] \in Texts => u[i] = F[s[i]][u[i - 1]]
      BY <1>2, <2>1, <2>7
    <2>9. u[n] = Loop(Texts, Blank, F, s)
      <3>1. u[0] = Blank
        BY <2>7
      <3> QED
        BY ONLY <1>0, <1>1, <1>3, <2>0, <2>8, <3>1, LoopIs
    <2> QED
      BY <2>2, <2>9
  <1>4. << >> \in Seq(Indices) /\ \A s \in Seq(Indices), x \in Indices : Append(s, x) \in Seq(Indices)
    OBVIOUS
  <1>5. Loop(Texts, Blank, F, << >>) = Blank
    BY <1>0, <1>1, LoopEmpty
  <1>6. ASSUME NEW s \in Seq(Indices) PROVE Loop(Texts, Blank, F, s) \in Texts
    BY <1>0, <1>1, LoopType
  <1>7. ASSUME NEW s \in Seq(Indices), NEW x \in Indices
        PROVE  Loop(Texts, Blank, F, Append(s, x)) = F[x][Loop(Texts, Blank, F, s)]
    BY <1>0, <1>1, LoopAppend
  <1>8. Before(<< >>, local, removed) = Blank
    BY <1>3, <1>4, <1>5
  <1>9. ASSUME NEW s \in Seq(Indices) PROVE Before(s, local, removed) \in Texts
    BY <1>3, <1>6
  <1>10. ASSUME NEW s \in Seq(Indices), NEW x \in Indices
         PROVE  Before(Append(s, x), local, removed) = AddBefore(Before(s, local, removed), x, local, removed)
    BY <1>2, <1>3, <1>4, <1>7, <1>9, ZenonT(40)
  <1> QED
    BY <1>8, <1>9, <1>10

\* The indices i .. j, in order.
Indexes(i, j) == [k \in 1 .. j - i + 1 |-> i + k - 1]

LEMMA IndexOps ==
    ASSUME NEW i \in 1 .. 9
    PROVE  /\ Indexes(i, i - 1) = << >>
           /\ \A j \in i - 1 .. 8 : Indexes(i, j) \in Seq(Indices)
           /\ \A j \in i .. 8 : Indexes(i, j) = Append(Indexes(i, j - 1), j)
  <1>1. Indexes(i, i - 1) = << >>
    BY DEF Indexes
  <1>2. ASSUME NEW j \in i - 1 .. 8 PROVE Indexes(i, j) \in Seq(Indices) /\ Len(Indexes(i, j)) = j - i + 1
    <2>1. j - i + 1 \in Nat /\ \A k \in 1 .. j - i + 1 : i + k - 1 \in Indices
      BY DEF Indices
    <2> QED
      BY <2>1 DEF Indexes
  <1>3. ASSUME NEW j \in i .. 8 PROVE Indexes(i, j) = Append(Indexes(i, j - 1), j)
    <2> DEFINE s == Indexes(i, j)
               t == Indexes(i, j - 1)
    <2>1. /\ s \in Seq(Indices) /\ Len(s) = j - i + 1
          /\ t \in Seq(Indices) /\ Len(t) = j - i
      BY <1>2
    <2>2. \A k \in 1 .. j - i + 1 : s[k] = i + k - 1
      BY DEF Indexes
    <2>3. \A k \in 1 .. j - i : t[k] = i + k - 1
      BY DEF Indexes
    <2>4. j \in Indices
      BY DEF Indices
    <2> HIDE DEF s, t
    <2>5. Append(t, j) \in Seq(Indices) /\ Len(Append(t, j)) = j - i + 1
      BY <2>1, <2>4
    <2>6. \A k \in 1 .. j - i + 1 : Append(t, j)[k] = i + k - 1
      BY <2>1, <2>3
    <2>7. s = Append(t, j)
      BY <2>1, <2>2, <2>5, <2>6, SeqEqual
    <2> QED
      BY <2>7 DEF s, t
  <1> QED
    BY <1>1, <1>2, <1>3

\* ColonAfter and ColonBefore, from the last group on.
LEMMA ColonSteps ==
    ASSUME NEW local \in EightGroups, NEW removed \in BOOLEAN, NEW i \in 1 .. 9
    PROVE  /\ ColonAfter(local, i, i - 1, removed) = << >>
           /\ ColonBefore(local, i, i - 1, removed) = << >>
           /\ \A j \in i - 1 .. 8 : /\ ColonAfter(local, i, j, removed) \in Texts
                                    /\ ColonBefore(local, i, j, removed) \in Texts
           /\ \A j \in i .. 8 :
                /\ ColonAfter(local, i, j, removed) =
                     ColonAfter(local, i, j - 1, removed) \o HexWord(local[j], removed) \o <<Colon>>
                /\ ColonBefore(local, i, j, removed) =
                     ColonBefore(local, i, j - 1, removed) \o <<Colon>> \o HexWord(local[j], removed)
  <1>1. \A j : /\ ColonAfter(local, i, j, removed) = After(Indexes(i, j), local, removed)
               /\ ColonBefore(local, i, j, removed) = Before(Indexes(i, j), local, removed)
    BY DEF ColonAfter, ColonBefore, After, Before, Indexes, AddAfter, AddBefore, Blank
  <1>2. \A j \in i .. 8 : j - 1 \in i - 1 .. 8 /\ j \in Indices
    BY DEF Indices
  <1>3. ASSUME NEW j \in i .. 8
        PROVE  /\ ColonAfter(local, i, j, removed) =
                    ColonAfter(local, i, j - 1, removed) \o HexWord(local[j], removed) \o <<Colon>>
               /\ ColonBefore(local, i, j, removed) =
                    ColonBefore(local, i, j - 1, removed) \o <<Colon>> \o HexWord(local[j], removed)
    <2>1. Indexes(i, j - 1) \in Seq(Indices) /\ j \in Indices
          /\ Indexes(i, j) = Append(Indexes(i, j - 1), j)
      BY <1>2, IndexOps
    <2> DEFINE k == Indexes(i, j - 1)
    <2>2. k \in Seq(Indices) /\ Indexes(i, j) = Append(k, j)
      BY <2>1
    <2> HIDE DEF k
    <2>3. /\ After(Append(k, j), local, removed) = AddAfter(After(k, local, removed), j, local, removed)
          /\ Before(Append(k, j), local, removed) = AddBefore(Before(k, local, removed), j, local, removed)
      BY <2>1, <2>2, AfterSteps, BeforeSteps
    <2> QED
      BY ONLY <1>1, <2>2, <2>3 DEF AddAfter, AddBefore, k
  <1>4. ASSUME NEW j \in i - 1 .. 8
        PROVE  ColonAfter(local, i, j, removed) \in Texts /\ ColonBefore(local, i, j, removed) \in Texts
    <2>1. Indexes(i, j) \in Seq(Indices)
      BY IndexOps
    <2> QED
      BY <1>1, <2>1, AfterSteps, BeforeSteps
  <1>5. /\ ColonAfter(local, i, i - 1, removed) = << >>
        /\ ColonBefore(local, i, i - 1, removed) = << >>
    <2>1. Indexes(i, i - 1) = << >>
      BY IndexOps
    <2>2. After(<< >>, local, removed) = << >> /\ Before(<< >>, local, removed) = << >>
      BY AfterSteps, BeforeSteps DEF Blank
    <2> QED
      BY ONLY <1>1, <2>1, <2>2
  <1> QED
    BY <1>3, <1>4, <1>5

-----------------------------------------------------------------------------
(* Texts of groups that address_v6::from_string reads, wherever they stand. *)

\* Without the characters a socket address is taken apart at.
Sealed(t) == /\ ~Contains(t, Slash) /\ ~Contains(t, Hash)
             /\ ~Contains(t, Open) /\ ~Contains(t, Close)

\* There is room for gs in what has been read so far.
Room(st, gs) == st \in States /\ st.ok /\ ~st.seen_ipv4 /\ Len(st.groups) + Len(gs) <= 8

Takes(t, gs, seen) == \A st : Room(st, gs) => ReadSide(st, t) = Reading(st.groups \o gs, seen)

\* The length of the longest text of n groups.
Most(n, seen) == 5 * n + (IF seen THEN 5 ELSE -1)

LEMMA MostIs ==
    /\ Most(1, FALSE) = 4 /\ Most(2, TRUE) = 15
    /\ \A n \in Nat : Most(n, FALSE) = 5 * n - 1 /\ Most(n, TRUE) = 5 * n + 5
    /\ \A n, m \in Nat, seen \in BOOLEAN : Most(n, FALSE) + 1 + Most(m, seen) = Most(n + m, seen)
  BY DEF Most

\* t is never cut at a "::" and is not too long for its groups.
Shaped(t, n, seen) ==
    /\ t \in Texts /\ t # << >> /\ Sealed(t)
    /\ Apart(t, Colon, Colon) /\ t[1] # Colon /\ t[Len(t)] # Colon
    /\ Len(t) <= Most(n, seen)

\* t spells gs, seen telling whether it ends with a dotted quad.
Reads(t, gs, seen) == gs \in Seq(Words16) /\ Shaped(t, Len(gs), seen) /\ Takes(t, gs, seen)

LEMMA OneSection ==
    ASSUME NEW st \in States, NEW w \in Texts, w # << >>, ~Contains(w, Colon)
    PROVE  ReadSide(st, w) = parse_one_section(st, w)
  <1>1. Split(w, Colon) = <<w>>
    BY SplitFree
  <1>2. ReadSide(st, w) = Sections(st, <<w>>)
    BY <1>1 DEF ReadSide, Sections
  <1>3. <<w>> = Append(<< >>, w) /\ << >> \in Seq(Texts)
    OBVIOUS
  <1>4. Sections(st, Append(<< >>, w)) = parse_one_section(Sections(st, << >>), w)
        /\ Sections(st, << >>) = st
    BY <1>3, SectionSteps
  <1> QED
    BY ONLY <1>2, <1>3, <1>4

LEMMA NextSection ==
    ASSUME NEW st \in States, NEW t \in Texts, t # << >>, NEW w \in Texts, ~Contains(w, Colon)
    PROVE  ReadSide(st, t \o <<Colon>> \o w) = parse_one_section(ReadSide(st, t), w)
  <1> DEFINE u == t \o <<Colon>> \o w
  <1>1. Split(u, Colon) = Append(Split(t, Colon), w)
    BY SplitAfter, Punctuation
  <1>2. u # << >>
    <2>1. <<Colon>> \in Texts /\ Len(<<Colon>>) = 1
      BY Punctuation, TextOps
    <2>2. t \o <<Colon>> \in Texts /\ Len(t \o <<Colon>>) = Len(t) + 1 /\ Len(t) \in Nat /\ Len(w) \in Nat
      BY <2>1, TextOps
    <2>3. Len(u) = Len(t) + 1 + Len(w)
      BY <2>2, TextOps
    <2> QED
      BY <2>2, <2>3
  <1>3. ReadSide(st, u) = Sections(st, Split(u, Colon)) /\ ReadSide(st, t) = Sections(st, Split(t, Colon))
    BY <1>2 DEF ReadSide, Sections
  <1>4. Split(t, Colon) \in Seq(Texts)
    BY PiecesType
  <1> HIDE DEF u
  <1>5. Sections(st, Append(Split(t, Colon), w)) = parse_one_section(Sections(st, Split(t, Colon)), w)
    BY <1>4, SectionSteps
  <1> QED
    BY ONLY <1>1, <1>3, <1>5 DEF u

\* What Reads says of a word without a colon.
LEMMA WordShape ==
    ASSUME NEW w \in Texts, w # << >>, Sealed(w), ~Contains(w, Colon), NEW n, NEW seen,
           Len(w) <= Most(n, seen)
    PROVE  Shaped(w, n, seen)
  <1>1. Len(w) >= 1 /\ Len(w) \in Nat /\ \A i \in 1 .. Len(w) : w[i] # Colon
    BY TextOps DEF Contains
  <1>2. Apart(w, Colon, Colon) /\ w[1] # Colon /\ w[Len(w)] # Colon
    BY <1>1 DEF Apart
  <1> QED
    BY <1>2 DEF Shaped

\* One section of hexadecimal digits.
LEMMA ShortWordReads ==
    ASSUME NEW v \in Words16, NEW w, IsWord(w, 16, v), Len(w) <= 4
    PROVE  /\ Reads(w, <<v>>, FALSE) /\ ~Contains(w, Colon) /\ ~Contains(w, Dot)
           /\ w \in Texts
  <1>1. IsWord(w, 16, v) /\ Len(w) <= 4
    OBVIOUS
  <1>2. w \in Texts /\ w # << >>
    BY <1>1 DEF IsWord
  <1>3. 16 \in 1 .. 16
    OBVIOUS
  <1>4. \A ch \in 16 .. Other : ~Contains(w, ch)
    BY <1>1, <1>3, WordFree
  <1>5. Sealed(w) /\ ~Contains(w, Colon) /\ ~Contains(w, Dot)
    BY <1>4, Punctuation DEF Sealed
  <1>6. FromChars(w, 16, MaxWord) = <<v>> /\ <<v>> # Invalid
    BY <1>1, FromCharsWord, Widths
  <1>7. <<v>> \in Seq(Words16) /\ Len(<<v>>) = 1
    BY GroupOps
  <1>8. ASSUME NEW st, Room(st, <<v>>) PROVE ReadSide(st, w) = Reading(st.groups \o <<v>>, FALSE)
    <2>1. st \in States /\ st.ok /\ ~st.seen_ipv4 /\ Len(st.groups) + 1 <= 8
      BY <1>7, <1>8 DEF Room
    <2>2. Len(st.groups) \in Nat
      BY <2>1, StateOps, GroupOps
    <2>3. ~(Len(st.groups) >= 8) /\ ~(Len(w) > 4)
      <3>1. \A m \in Nat : m + 1 <= 8 => ~(m >= 8)
        OBVIOUS
      <3>2. \A m \in Nat : m <= 4 => ~(m > 4)
        OBVIOUS
      <3>3. Len(w) \in Nat
        BY <1>2, TextOps
      <3> QED
        BY ONLY <1>1, <2>1, <2>2, <3>1, <3>2, <3>3
    <2>4. parse_one_section(st, w) = Reading(st.groups \o FromChars(w, 16, MaxWord), FALSE)
      BY <1>2, <1>5, <1>6, <2>1, <2>3, SectionIs
    <2> QED
      BY <1>2, <1>5, <1>6, <2>1, <2>4, OneSection
  <1>9. Shaped(w, 1, FALSE)
    BY <1>1, <1>2, <1>5, WordShape, MostIs
  <1>10. Reads(w, <<v>>, FALSE)
    BY <1>7, <1>8, <1>9 DEF Reads, Takes
  <1> QED
    BY <1>2, <1>5, <1>10

LEMMA WordReads ==
    ASSUME NEW v \in Words16, NEW removed \in BOOLEAN
    PROVE  /\ Reads(HexWord(v, removed), <<v>>, FALSE) /\ ~Contains(HexWord(v, removed), Colon)
           /\ HexWord(v, removed) \in Texts
  <1>1. IsWord(HexWord(v, removed), 16, v) /\ Len(HexWord(v, removed)) <= 4
    BY HexWordIs
  <1> QED
    BY ONLY <1>1, v \in Words16, ShortWordReads

\* A dotted quad.
LEMMA QuadOf ==
    ASSUME NEW o \in [1 .. 4 -> Bytes], NEW q, q = FormatV4(o), NEW gs, gs = SectionOfV4(o)
    PROVE  Reads(q, gs, TRUE) /\ ~Contains(q, Colon) /\ q \in Texts
  <1>3. SectionOfV4(o) = gs
    OBVIOUS
  <1>4. gs \in Seq(Words16) /\ Len(gs) = 2
    BY QuadGroups
  <1>5. q = FormatV4(o)
    OBVIOUS
  <1>6. /\ q \in Texts /\ q # << >> /\ Len(q) <= 15 /\ Contains(q, Dot)
        /\ \A ch \in 16 .. Other : ch # Dot => ~Contains(q, ch)
    BY <1>5, V4Text DEF MaxV4Text
  <1>7. Sealed(q) /\ ~Contains(q, Colon)
    BY <1>6, Punctuation DEF Sealed
  <1>8. V4FromString(q) = o /\ o # Invalid
    <2>1. V4FromString(q) = o
      BY <1>5, V4ReadsBack
    <2>2. 1 \in DOMAIN o /\ DOMAIN Invalid = {}
      BY DEF Invalid
    <2> QED
      BY <2>1, <2>2
  <1>9. ASSUME NEW st, Room(st, gs) PROVE ReadSide(st, q) = Reading(st.groups \o gs, TRUE)
    <2>1. st \in States /\ st.ok /\ ~st.seen_ipv4 /\ Len(st.groups) + 2 <= 8
      BY <1>4, <1>9 DEF Room
    <2>2. Len(st.groups) \in Nat
      BY <2>1, StateOps, GroupOps
    <2>3. ~(Len(st.groups) > 6)
      BY <2>1, <2>2
    <2>4. parse_one_section(st, q) = Reading(st.groups \o SectionOfV4(o), TRUE)
      BY <1>6, <1>8, <2>1, <2>3, SectionIs
    <2> QED
      BY <1>3, <1>6, <1>7, <2>1, <2>4, OneSection
  <1>10. Shaped(q, 2, TRUE)
    BY <1>6, <1>7, WordShape, MostIs
  <1>11. Reads(q, gs, TRUE)
    BY <1>4, <1>9, <1>10 DEF Reads, Takes
  <1> QED
    BY <1>6, <1>7, <1>11

\* The octets of two groups, as an address_v4.
LEMMA QuadReads ==
    ASSUME NEW u \in Words16, NEW v \in Words16, NEW q, q = FormatV4(Octets(u) \o Octets(v))
    PROVE  /\ Reads(q, <<hton_16(u), hton_16(v)>>, TRUE) /\ ~Contains(q, Colon) /\ q \in Texts
  <1> DEFINE o == Octets(u) \o Octets(v)
             gs == <<hton_16(u), hton_16(v)>>
  <1>1. /\ Octets(u) \in Seq(Bytes) /\ Len(Octets(u)) = 2 /\ Octets(v) \in Seq(Bytes) /\ Len(Octets(v)) = 2
        /\ Cast16(Octets(u)[1], Octets(u)[2]) = u /\ Cast16(Octets(v)[1], Octets(v)[2]) = v
    BY OctetsOf
  <1>2. /\ o \in [1 .. 4 -> Bytes] /\ o[1] = Octets(u)[1] /\ o[2] = Octets(u)[2]
        /\ o[3] = Octets(v)[1] /\ o[4] = Octets(v)[2]
    <2> DEFINE x == Octets(u)
               y == Octets(v)
    <2>1. x \in Seq(Bytes) /\ Len(x) = 2 /\ y \in Seq(Bytes) /\ Len(y) = 2
      BY <1>1
    <2> HIDE DEF x, y
    <2>2. /\ x \o y \in Seq(Bytes) /\ Len(x \o y) = 4
          /\ (x \o y)[1] = x[1] /\ (x \o y)[2] = x[2] /\ (x \o y)[3] = y[1] /\ (x \o y)[4] = y[2]
      <3>1. x \in Seq(Bytes) /\ y \in Seq(Bytes)
        BY <2>1
      <3>2. /\ x \o y \in Seq(Bytes) /\ Len(x \o y) = Len(x) + Len(y)
            /\ \A i \in 1 .. Len(x) + Len(y) :
                 (x \o y)[i] = IF i <= Len(x) THEN x[i] ELSE y[i - Len(x)]
        BY ONLY <3>1, ConcatProperties
      <3>3. Len(x) = 2 /\ Len(y) = 2
        BY <2>1
      <3> QED
        BY ONLY <3>2, <3>3
    <2>3. x \o y \in [1 .. 4 -> Bytes]
      <3>1. \A z \in Seq(Bytes) : z \in [1 .. Len(z) -> Bytes]
        OBVIOUS
      <3>2. x \o y \in Seq(Bytes) /\ Len(x \o y) = 4
        BY ONLY <2>2
      <3>3. x \o y \in [1 .. Len(x \o y) -> Bytes]
        BY ONLY <3>1, <3>2
      <3> QED
        BY ONLY <3>2, <3>3
    <2> QED
      BY <2>2, <2>3 DEF x, y
  <1>3. SectionOfV4(o) = gs
    BY <1>1, <1>2 DEF SectionOfV4
  <1>4. q = FormatV4(o)
    OBVIOUS
  <1>5. o \in [1 .. 4 -> Bytes]
    BY <1>2
  <1> HIDE DEF o, gs
  <1>6. Reads(q, SectionOfV4(o), TRUE) /\ ~Contains(q, Colon) /\ q \in Texts
    BY ONLY <1>4, <1>5, QuadOf
  <1> QED
    BY <1>3, <1>6 DEF gs

\* Where the characters of t \o <<c>> \o w are.
Joined(u, t, c, w) ==
    /\ Len(t) \in Nat /\ Len(w) \in Nat
    /\ u \in Texts /\ Len(u) = Len(t) + 1 + Len(w) /\ u # << >>
    /\ \A i \in 1 .. Len(t) : u[i] = t[i]
    /\ u[Len(t) + 1] = c
    /\ \A i \in 1 .. Len(w) : u[Len(t) + 1 + i] = w[i]
    /\ \A x : Contains(u, x) <=> Contains(t, x) \/ x = c \/ Contains(w, x)

LEMMA JoinOps ==
    ASSUME NEW t \in Texts, NEW c \in Chars, NEW w \in Texts
    PROVE  Joined(t \o <<c>> \o w, t, c, w)
  <1> DEFINE u == t \o <<c>> \o w
             m == Len(t)
             n == Len(w)
  <1> DEFINE b == t \o <<c>>
  <1>1. <<c>> \in Texts /\ Len(<<c>>) = 1 /\ <<c>>[1] = c
    BY TextOps
  <1>2. /\ m \in Nat /\ n \in Nat /\ b \in Texts /\ Len(b) = m + 1
        /\ \A i \in 1 .. m : b[i] = t[i]
        /\ \A i \in 1 .. 1 : b[m + i] = <<c>>[i]
    BY <1>1, TextOps
  <1>3. b[m + 1] = c
    BY <1>1, <1>2
  <1>4. u = b \o w
    OBVIOUS
  <1>5. \A x : Contains(b, x) <=> Contains(t, x) \/ x = c
    BY <1>1, ContainsOps
  <1> HIDE DEF b, u
  <1>6. /\ u \in Texts /\ Len(u) = m + 1 + n
        /\ \A i \in 1 .. m + 1 : u[i] = b[i]
        /\ \A i \in 1 .. n : u[m + 1 + i] = w[i]
    <2>1. b \in Texts /\ w \in Texts /\ Len(w) = n
      BY <1>2
    <2>2. /\ b \o w \in Texts /\ Len(b \o w) = Len(b) + Len(w)
          /\ \A i \in 1 .. Len(b) : (b \o w)[i] = b[i]
          /\ \A i \in 1 .. Len(w) : (b \o w)[Len(b) + i] = w[i]
      BY ONLY <2>1, TextOps
    <2> QED
      BY ONLY <1>2, <1>4, <2>1, <2>2
  <1>7. ASSUME NEW x PROVE Contains(u, x) <=> Contains(b, x) \/ Contains(w, x)
    <2>1. b \in Texts /\ w \in Texts
      BY <1>2
    <2>2. Contains(b \o w, x) <=> Contains(b, x) \/ Contains(w, x)
      BY ONLY <2>1, ContainsOps
    <2> QED
      BY ONLY <1>4, <2>2
  <1>8. u # << >>
    <2>1. Len(<< >>) = 0 /\ m + 1 + n # 0
      BY <1>2
    <2> QED
      BY <1>6, <2>1
  <1>9. \A i \in 1 .. m : i \in 1 .. m + 1 /\ u[i] = t[i]
    BY <1>2, <1>6
  <1>10. m + 1 \in 1 .. m + 1
    BY <1>2
  <1> QED
    <2>1. Joined(u, t, c, w)
      BY <1>2, <1>3, <1>5, <1>6, <1>7, <1>8, <1>9, <1>10 DEF Joined
    <2> QED
      BY <2>1 DEF u

LEMMA JoinShape ==
    ASSUME NEW n \in Nat, NEW m \in Nat, NEW seen \in BOOLEAN, NEW t, Shaped(t, n, FALSE),
           NEW w, Shaped(w, m, seen), ~Contains(w, Colon)
    PROVE  Shaped(t \o <<Colon>> \o w, n + m, seen)
  <1> DEFINE u == t \o <<Colon>> \o w
             a == Len(t)
             b == Len(w)
  <1>1. /\ t \in Texts /\ t # << >> /\ Sealed(t) /\ Apart(t, Colon, Colon) /\ t[1] # Colon
        /\ t[a] # Colon /\ a <= Most(n, FALSE)
        /\ w \in Texts /\ w # << >> /\ Sealed(w) /\ w[b] # Colon /\ b <= Most(m, seen)
    BY DEF Shaped
  <1>2. /\ a \in Nat /\ b \in Nat /\ u \in Texts /\ Len(u) = a + 1 + b /\ u # << >>
        /\ \A i \in 1 .. a : u[i] = t[i]
        /\ u[a + 1] = Colon
        /\ \A i \in 1 .. b : u[a + 1 + i] = w[i]
        /\ \A x : Contains(u, x) <=> Contains(t, x) \/ x = Colon \/ Contains(w, x)
    <2>1. Joined(u, t, Colon, w)
      BY <1>1, JoinOps, Punctuation
    <2> HIDE DEF u
    <2> QED
      BY ONLY <2>1 DEF Joined
  <1>3. a >= 1 /\ b >= 1 /\ \A i \in 1 .. b : w[i] # Colon
    BY <1>1, TextOps DEF Contains
  <1> HIDE DEF u
  <1>4. Sealed(u)
    BY <1>1, <1>2, Punctuation DEF Sealed
  <1>5. Apart(u, Colon, Colon)
    <2> SUFFICES ASSUME NEW i \in 1 .. Len(u) - 1, u[i] = Colon, u[i + 1] = Colon PROVE FALSE
      BY DEF Apart
    <2>1. CASE i < a
      <3>1. i \in 1 .. a - 1 /\ i \in 1 .. a /\ i + 1 \in 1 .. a
        BY <1>2, <2>1
      <3> QED
        BY <1>1, <1>2, <3>1 DEF Apart
    <2>2. CASE i = a
      <3>1. a \in 1 .. a
        BY <1>2, <1>3
      <3> QED
        BY <1>1, <1>2, <2>2, <3>1
    <2>3. CASE i > a
      <3>1. i - a \in 1 .. b /\ i + 1 = a + 1 + (i - a)
        BY <1>2, <2>3
      <3>2. u[i + 1] = w[i - a]
        BY ONLY <1>2, <3>1
      <3> QED
        BY <1>3, <3>1, <3>2
    <2> QED
      BY <1>2, <2>1, <2>2, <2>3
  <1>6. u[1] # Colon /\ u[Len(u)] # Colon
    <2>1. 1 \in 1 .. a /\ b \in 1 .. b
      BY <1>2, <1>3
    <2>2. u[1] = t[1] /\ u[a + 1 + b] = w[b]
      BY ONLY <1>2, <2>1
    <2> QED
      BY <1>1, <1>2, <2>2
  <1>7. Len(u) <= Most(n + m, seen)
    <2>1. Most(n, FALSE) + 1 + Most(m, seen) = Most(n + m, seen)
      BY MostIs
    <2>2. Most(n, FALSE) \in Int /\ Most(m, seen) \in Int
      BY DEF Most
    <2>3. \A p, q \in Int : a <= p /\ b <= q => a + 1 + b <= p + 1 + q
      BY <1>2
    <2> QED
      BY <1>1, <1>2, <2>1, <2>2, <2>3
  <1> QED
    BY <1>1, <1>2, <1>4, <1>5, <1>6, <1>7 DEF Shaped, u

\* One more section after a colon.
LEMMA JoinReads ==
    ASSUME NEW seen \in BOOLEAN, NEW t, NEW gs, Reads(t, gs, FALSE),
           NEW w, NEW hs, Reads(w, hs, seen), ~Contains(w, Colon)
    PROVE  Reads(t \o <<Colon>> \o w, gs \o hs, seen)
  <1>1. /\ gs \in Seq(Words16) /\ Shaped(t, Len(gs), FALSE) /\ Takes(t, gs, FALSE)
        /\ hs \in Seq(Words16) /\ Shaped(w, Len(hs), seen) /\ Takes(w, hs, seen)
    BY DEF Reads
  <1>2. /\ gs \o hs \in Seq(Words16) /\ Len(gs \o hs) = Len(gs) + Len(hs)
        /\ Len(gs) \in Nat /\ Len(hs) \in Nat
    BY <1>1, GroupOps
  <1>3. Shaped(t \o <<Colon>> \o w, Len(gs) + Len(hs), seen)
    BY <1>1, <1>2, JoinShape
  <1>4. t \in Texts /\ t # << >> /\ w \in Texts /\ w # << >>
    BY <1>1 DEF Shaped
  <1>5. ASSUME NEW st, Room(st, gs \o hs)
        PROVE  ReadSide(st, t \o <<Colon>> \o w) = Reading(st.groups \o (gs \o hs), seen)
    <2> DEFINE g == st.groups \o gs
               mid == Reading(g, FALSE)
    <2>1. st \in States /\ st.ok /\ ~st.seen_ipv4 /\ Len(st.groups) + (Len(gs) + Len(hs)) <= 8
      BY <1>2, <1>5 DEF Room
    <2>2. st.groups \in Seq(Words16) /\ Len(st.groups) \in Nat
      BY <2>1, StateOps, GroupOps
    <2>3. Room(st, gs)
      <3>1. \A p, q, r \in Nat : p + (q + r) <= 8 => p + q <= 8
        OBVIOUS
      <3> QED
        BY <1>2, <2>1, <2>2, <3>1 DEF Room
    <2>4. ReadSide(st, t) = mid
      BY <1>1, <2>3 DEF Takes
    <2>5. g \in Groups /\ Len(g) = Len(st.groups) + Len(gs)
      BY <1>1, <2>2, <2>3, GroupOps DEF Room
    <2>6. mid \in States /\ mid.ok /\ mid.groups = g /\ ~mid.seen_ipv4
      BY <2>5, StateOps
    <2>7. Room(mid, hs)
      <3>1. \A p, q, r \in Nat : p + (q + r) <= 8 => (p + q) + r <= 8
        OBVIOUS
      <3>2. Len(g) + Len(hs) <= 8
        BY <1>2, <2>1, <2>2, <2>5, <3>1
      <3> QED
        BY <2>6, <3>2 DEF Room
    <2> HIDE DEF mid, g
    <2>8. ReadSide(mid, w) = Reading(g \o hs, seen)
      BY <1>1, <2>6, <2>7 DEF Takes
    <2>9. ReadSide(mid, w) = parse_one_section(mid, w)
      BY <1>4, <2>6, OneSection
    <2>10. ReadSide(st, t \o <<Colon>> \o w) = parse_one_section(mid, w)
      BY <1>4, <2>1, <2>4, NextSection
    <2>11. g \o hs = st.groups \o (gs \o hs)
      <3>1. st.groups \in Seq(Words16) /\ gs \in Seq(Words16) /\ hs \in Seq(Words16)
        BY <1>1, <2>2
      <3>2. \A x, y, z \in Seq(Words16) : (x \o y) \o z = x \o (y \o z)
        BY ONLY ConcatAssociative
      <3>3. (st.groups \o gs) \o hs = st.groups \o (gs \o hs)
        BY ONLY <3>1, <3>2
      <3> QED
        BY <3>3 DEF g
    <2> QED
      BY ONLY <2>8, <2>9, <2>10, <2>11
  <1> QED
    BY <1>2, <1>3, <1>5 DEF Reads, Takes

\* Groups i .. j, and their text with colons between them.
Slice(local, i, j) == [k \in 1 .. j - i + 1 |-> local[i + k - 1]]

Line(local, i, j, removed) == HexWord(local[i], removed) \o ColonBefore(local, i + 1, j, removed)

LEMMA SliceOps ==
    ASSUME NEW local \in EightGroups, NEW i \in 1 .. 9
    PROVE  /\ \A j \in i - 1 .. 8 :
                /\ Slice(local, i, j) \in Seq(Words16) /\ Len(Slice(local, i, j)) = j - i + 1
                /\ \A k \in 1 .. j - i + 1 : Slice(local, i, j)[k] = local[i + k - 1]
           /\ \A j \in i .. 8 : Slice(local, i, j) = Slice(local, i, j - 1) \o <<local[j]>>
           /\ Slice(local, i, i - 1) = << >>
           /\ i <= 8 => Slice(local, i, i) = <<local[i]>>
  <1>1. \A j \in 1 .. 8 : local[j] \in Words16
    BY DEF EightGroups, Indices
  <1>2. ASSUME NEW j \in i - 1 .. 8
        PROVE  /\ Slice(local, i, j) \in Seq(Words16) /\ Len(Slice(local, i, j)) = j - i + 1
               /\ \A k \in 1 .. j - i + 1 : Slice(local, i, j)[k] = local[i + k - 1]
    <2>1. j - i + 1 \in Nat /\ \A k \in 1 .. j - i + 1 : i + k - 1 \in 1 .. 8
      OBVIOUS
    <2>2. \A k \in 1 .. j - i + 1 : local[i + k - 1] \in Words16
      BY <1>1, <2>1
    <2> QED
      BY <2>1, <2>2 DEF Slice
  <1>3. ASSUME NEW j \in i .. 8 PROVE Slice(local, i, j) = Slice(local, i, j - 1) \o <<local[j]>>
    <2> DEFINE s == Slice(local, i, j)
               t == Slice(local, i, j - 1)
               one == <<local[j]>>
               n == j - i + 1
    <2>1. j \in i - 1 .. 8 /\ j - 1 \in i - 1 .. 8 /\ j - 1 - i + 1 = n - 1 /\ n \in Nat /\ n >= 1
          /\ j \in 1 .. 8
      OBVIOUS
    <2>2. s \in Seq(Words16) /\ Len(s) = n /\ \A k \in 1 .. n : s[k] = local[i + k - 1]
      BY <1>2
    <2>3. t \in Seq(Words16) /\ Len(t) = n - 1 /\ \A k \in 1 .. n - 1 : t[k] = local[i + k - 1]
      BY <1>2, <2>1
    <2>4. one \in Seq(Words16) /\ Len(one) = 1 /\ one[1] = local[j]
      BY <1>1, <2>1, GroupOps
    <2>5. i + n - 1 = j
      OBVIOUS
    <2> HIDE DEF s, t, one, n
    <2>6. /\ t \o one \in Seq(Words16) /\ Len(t \o one) = Len(t) + Len(one)
          /\ \A k \in 1 .. Len(t) : (t \o one)[k] = t[k]
          /\ \A k \in 1 .. Len(one) : (t \o one)[Len(t) + k] = one[k]
      BY <2>3, <2>4, GroupOps
    <2>7. Len(t \o one) = n
      BY <2>1, <2>3, <2>4, <2>6
    <2>8. ASSUME NEW k \in 1 .. n PROVE (t \o one)[k] = s[k]
      <3>1. CASE k = n
        <4>1. (t \o one)[Len(t) + 1] = one[1] /\ Len(t) + 1 = n
          BY <2>1, <2>3, <2>4, <2>6
        <4> QED
          BY <2>2, <2>4, <2>5, <3>1, <4>1
      <3>2. CASE k # n
        <4>1. k \in 1 .. n - 1
          BY <2>1, <3>2
        <4> QED
          BY <2>2, <2>3, <2>6, <4>1
      <3> QED
        BY <3>1, <3>2
    <2>9. s = t \o one
      BY <2>2, <2>6, <2>7, <2>8, SeqEqual
    <2> QED
      BY <2>9 DEF s, t, one
  <1>4. Slice(local, i, i - 1) = << >>
    BY DEF Slice
  <1>5. ASSUME i <= 8 PROVE Slice(local, i, i) = <<local[i]>>
    <2>1. i \in i .. 8 /\ i \in 1 .. 8
      BY <1>5
    <2>2. Slice(local, i, i) = << >> \o <<local[i]>>
      BY <1>3, <1>4, <2>1
    <2>3. <<local[i]>> \in Seq(Words16)
      BY <1>1, <2>1, GroupOps
    <2> QED
      BY <2>2, <2>3, ConcatEmptySeq
  <1> QED
    BY <1>2, <1>3, <1>4, <1>5

\* What the line of groups i .. j reads as, and what the printers make of it.
Spelt(local, i, j, removed) ==
    /\ Reads(Line(local, i, j, removed), Slice(local, i, j), FALSE)
    /\ ColonAfter(local, i, j, removed) = Line(local, i, j, removed) \o <<Colon>>
    /\ ColonBefore(local, i, j, removed) = <<Colon>> \o Line(local, i, j, removed)

LEMMA TextAssoc ==
    /\ \A a, b, c \in Texts : (a \o b) \o c = a \o (b \o c)
    /\ \A a \in Texts : a \o << >> = a /\ << >> \o a = a
  BY ConcatAssociative, ConcatEmptySeq DEF Texts

LEMMA FirstSpelt ==
    ASSUME NEW local \in EightGroups, NEW removed \in BOOLEAN, NEW i \in 1 .. 8
    PROVE  Spelt(local, i, i, removed)
  <1> DEFINE w == HexWord(local[i], removed)
  <1>1. local[i] \in Words16
    BY DEF EightGroups, Indices
  <1>2. Reads(w, <<local[i]>>, FALSE) /\ w \in Texts
    BY <1>1, WordReads
  <1>3. i \in 1 .. 9 /\ i + 1 \in 1 .. 9 /\ i \in i .. 8 /\ (i + 1) - 1 = i
    OBVIOUS
  <1>4. ColonBefore(local, i + 1, i, removed) = << >>
    <2>1. ColonBefore(local, i + 1, (i + 1) - 1, removed) = << >>
      BY <1>3, ColonSteps
    <2> QED
      BY ONLY <1>3, <2>1
  <1>5. /\ ColonAfter(local, i, i - 1, removed) = << >> /\ ColonBefore(local, i, i - 1, removed) = << >>
        /\ ColonAfter(local, i, i, removed) = ColonAfter(local, i, i - 1, removed) \o w \o <<Colon>>
        /\ ColonBefore(local, i, i, removed) = ColonBefore(local, i, i - 1, removed) \o <<Colon>> \o w
    <2>1. ColonAfter(local, i, i - 1, removed) = << >> /\ ColonBefore(local, i, i - 1, removed) = << >>
      BY <1>3, ColonSteps
    <2>2. \A j \in i .. 8 :
            /\ ColonAfter(local, i, j, removed) =
                 ColonAfter(local, i, j - 1, removed) \o HexWord(local[j], removed) \o <<Colon>>
            /\ ColonBefore(local, i, j, removed) =
                 ColonBefore(local, i, j - 1, removed) \o <<Colon>> \o HexWord(local[j], removed)
      BY <1>3, ColonSteps
    <2>3. i \in i .. 8
      BY <1>3
    <2>4. /\ ColonAfter(local, i, i, removed) =
               ColonAfter(local, i, i - 1, removed) \o HexWord(local[i], removed) \o <<Colon>>
          /\ ColonBefore(local, i, i, removed) =
               ColonBefore(local, i, i - 1, removed) \o <<Colon>> \o HexWord(local[i], removed)
      BY ONLY <2>2, <2>3, Zenon
    <2> QED
      BY ONLY <2>1, <2>4
  <1>6. Line(local, i, i, removed) = w \o << >>
    BY <1>4 DEF Line
  <1>7. Slice(local, i, i) = <<local[i]>>
    <2>1. i \in 1 .. 9 /\ i <= 8
      BY <1>3
    <2>2. i <= 8 => Slice(local, i, i) = <<local[i]>>
      BY <2>1, SliceOps, Zenon
    <2> QED
      BY ONLY <2>1, <2>2
  <1>8. <<Colon>> \in Texts
    BY Punctuation, TextOps
  <1> HIDE DEF w
  <1>9. /\ << >> \o w = w /\ << >> \o <<Colon>> = <<Colon>> /\ w \o << >> = w
    BY <1>2, <1>8, TextAssoc
  <1> QED
    BY ONLY <1>2, <1>5, <1>6, <1>7, <1>9 DEF Spelt

LEMMA NextSpelt ==
    ASSUME NEW local \in EightGroups, NEW removed \in BOOLEAN, NEW i \in 1 .. 8,
           NEW j \in i + 1 .. 8, Spelt(local, i, j - 1, removed)
    PROVE  Spelt(local, i, j, removed)
  <1> DEFINE w == HexWord(local[j], removed)
             t == Line(local, i, j - 1, removed)
             u == Line(local, i, j, removed)
             colon == <<Colon>>
             h == HexWord(local[i], removed)
             b == ColonBefore(local, i + 1, j - 1, removed)
  <1>1. local[j] \in Words16 /\ local[i] \in Words16
    BY DEF EightGroups, Indices
  <1>2. Reads(w, <<local[j]>>, FALSE) /\ w \in Texts /\ h \in Texts /\ ~Contains(w, Colon)
    BY <1>1, WordReads
  <1>3. /\ i \in 1 .. 9 /\ i + 1 \in 1 .. 9 /\ j \in i .. 8 /\ j \in i + 1 .. 8
        /\ j - 1 \in (i + 1) - 1 .. 8
    OBVIOUS
  <1>4. ColonBefore(local, i + 1, j, removed) = b \o colon \o w /\ b \in Texts
    BY <1>3, ColonSteps
  <1>5. /\ ColonAfter(local, i, j, removed) = ColonAfter(local, i, j - 1, removed) \o w \o colon
        /\ ColonBefore(local, i, j, removed) = ColonBefore(local, i, j - 1, removed) \o colon \o w
    BY <1>3, ColonSteps
  <1>6. /\ Reads(t, Slice(local, i, j - 1), FALSE)
        /\ ColonAfter(local, i, j - 1, removed) = t \o colon
        /\ ColonBefore(local, i, j - 1, removed) = colon \o t
    BY DEF Spelt
  <1>7. Slice(local, i, j) = Slice(local, i, j - 1) \o <<local[j]>>
    BY <1>3, SliceOps
  <1>8. colon \in Texts
    BY Punctuation, TextOps
  <1>9. t = h \o b /\ u = h \o (b \o colon \o w)
    BY <1>4 DEF Line
  <1>10. Reads(t \o colon \o w, Slice(local, i, j), FALSE)
    BY <1>2, <1>6, <1>7, JoinReads
  <1>11. t \in Texts
    BY <1>6 DEF Reads, Shaped
  <1> HIDE DEF w, t, u, colon, h, b
  <1>12. u = t \o colon \o w
    <2>1. b \o colon \in Texts /\ h \o b \in Texts
      BY <1>2, <1>4, <1>8, TextOps
    <2>2. (b \o colon) \o w = b \o (colon \o w) /\ (h \o b) \o colon = h \o (b \o colon)
      BY <1>2, <1>4, <1>8, TextAssoc
    <2>3. h \o ((b \o colon) \o w) = (h \o (b \o colon)) \o w
      BY <1>2, <2>1, TextAssoc
    <2> QED
      BY ONLY <1>9, <2>2, <2>3
  <1>13. (colon \o t) \o colon \o w = colon \o u
    <2>1. t \o colon \in Texts /\ colon \o t \in Texts
      BY <1>8, <1>11, TextOps
    <2>2. (colon \o t) \o colon = colon \o (t \o colon)
      BY <1>8, <1>11, TextAssoc
    <2>3. (colon \o (t \o colon)) \o w = colon \o ((t \o colon) \o w)
      BY <1>2, <1>8, <2>1, TextAssoc
    <2> QED
      BY ONLY <1>12, <2>2, <2>3
  <1>14. Reads(u, Slice(local, i, j), FALSE)
    BY <1>10, <1>12
  <1>15. ColonAfter(local, i, j, removed) = u \o colon
    BY ONLY <1>5, <1>6, <1>12
  <1>16. ColonBefore(local, i, j, removed) = colon \o u
    BY ONLY <1>5, <1>6, <1>13
  <1> QED
    BY <1>14, <1>15, <1>16 DEF Spelt, u, colon

LEMMA LineReads ==
    ASSUME NEW local \in EightGroups, NEW removed \in BOOLEAN, NEW i \in 1 .. 8
    PROVE  \A j \in i .. 8 : Spelt(local, i, j, removed)
  <1> DEFINE S == {j \in 0 .. 8 : j >= i => Spelt(local, i, j, removed)}
  <1>1. 0 \in S
    OBVIOUS
  <1>2. ASSUME NEW j \in 1 .. 8, j - 1 \in S PROVE j \in S
    <2>1. CASE j < i
      BY <2>1
    <2>2. CASE j = i
      BY <2>2, FirstSpelt
    <2>3. CASE j > i
      <3>1. j \in i + 1 .. 8 /\ j - 1 >= i
        BY <2>3
      <3>2. Spelt(local, i, j - 1, removed)
        BY <1>2, <3>1
      <3> QED
        BY <3>1, <3>2, NextSpelt
    <2> QED
      BY <2>1, <2>2, <2>3
  <1> HIDE DEF S
  <1>3. 0 .. 8 \subseteq S
    BY <1>1, <1>2, InductUpTo
  <1> QED
    BY <1>3 DEF S

\* One side of a gap: nothing, or a text that reads as gs.
Part(t, gs, seen) == (t = << >> /\ gs = << >>) \/ Reads(t, gs, seen)

LEMMA PartIs ==
    ASSUME NEW t, NEW gs, NEW seen \in BOOLEAN, Part(t, gs, seen)
    PROVE  /\ t \in Texts /\ gs \in Seq(Words16) /\ Sealed(t) /\ Apart(t, Colon, Colon)
           /\ Apart(Append(t, Colon), Colon, Colon)
           /\ Len(t) \in Nat /\ Len(t) <= 5 * Len(gs) + 5 /\ (~seen => Len(t) <= 5 * Len(gs))
           /\ \A st : Room(st, gs) => \E sn \in BOOLEAN :
                ReadSide(st, t) = Reading(st.groups \o gs, sn) /\ (~seen => ~sn)
  <1>1. CASE t = << >> /\ gs = << >>
    <2>1. t \in Texts /\ gs \in Seq(Words16) /\ Len(t) = 0 /\ Len(gs) = 0
      BY <1>1, TextOps
    <2>2. \A x : ~Contains(t, x)
      BY <1>1, ContainsOps
    <2>3. Sealed(t)
      BY <2>2 DEF Sealed
    <2>4. Apart(t, Colon, Colon) /\ Apart(Append(t, Colon), Colon, Colon)
      BY <1>1, <2>1, ApartAppend, Punctuation
    <2>5. ASSUME NEW st, Room(st, gs)
          PROVE  ReadSide(st, t) = Reading(st.groups \o gs, FALSE)
      <3>1. st \in States /\ st.ok /\ ~st.seen_ipv4
        BY <2>5 DEF Room
      <3>2. st = Reading(st.groups, FALSE) /\ st.groups \in Seq(Words16)
        BY <3>1, StateOps, GroupOps
      <3>3. st.groups \o gs = st.groups
        BY <1>1, <3>2, ConcatEmptySeq
      <3>4. ReadSide(st, t) = st
        BY <1>1 DEF ReadSide
      <3> QED
        BY ONLY <3>2, <3>3, <3>4
    <2>6. FALSE \in BOOLEAN
      OBVIOUS
    <2>7. Len(t) \in Nat /\ Len(t) <= 5 * Len(gs) + 5 /\ Len(t) <= 5 * Len(gs)
      BY ONLY <2>1
    <2> QED
      BY <2>1, <2>3, <2>4, <2>5, <2>6, <2>7
  <1>2. CASE Reads(t, gs, seen)
    <2>1. gs \in Seq(Words16) /\ Shaped(t, Len(gs), seen) /\ Takes(t, gs, seen)
      BY <1>2 DEF Reads
    <2>2. /\ t \in Texts /\ t # << >> /\ Sealed(t) /\ Apart(t, Colon, Colon)
          /\ t[Len(t)] # Colon /\ Len(t) <= Most(Len(gs), seen)
      BY <2>1 DEF Shaped
    <2>3. Apart(Append(t, Colon), Colon, Colon)
      BY <2>2, ApartAppend, Punctuation
    <2>4. Len(t) \in Nat /\ Len(gs) \in Nat
      BY <2>1, <2>2, TextOps
    <2>5. Len(t) <= 5 * Len(gs) + 5 /\ (~seen => Len(t) <= 5 * Len(gs))
      <3>1. \A n \in Nat : Most(n, TRUE) = 5 * n + 5 /\ Most(n, FALSE) = 5 * n - 1
        BY MostIs
      <3>2. CASE seen = TRUE
        BY <2>2, <2>4, <3>1, <3>2
      <3>3. CASE seen = FALSE
        <4>1. Len(t) <= 5 * Len(gs) - 1
          BY <2>2, <2>4, <3>1, <3>3
        <4> QED
          BY <2>4, <4>1
      <3> QED
        BY <3>2, <3>3
    <2>6. \A st : Room(st, gs) => ReadSide(st, t) = Reading(st.groups \o gs, seen)
      BY <2>1 DEF Takes
    <2> QED
      BY <2>1, <2>2, <2>3, <2>4, <2>5, <2>6
  <1> QED
    BY <1>1, <1>2 DEF Part

\* What room the sections around a gap leave: a group at least, unless eight
\* groups come first and nothing follows.
Fitting(gl, rt, gr) == Len(gl) + Len(gr) <= 7 \/ (Len(gl) = 8 /\ rt = << >> /\ gr = << >>)

\* address_v6::from_string on a text with a gap.
LEMMA GapReads ==
    ASSUME NEW lt, NEW gl, Part(lt, gl, FALSE), NEW rt, NEW gr, NEW seen \in BOOLEAN, Part(rt, gr, seen),
           Fitting(gl, rt, gr)
    PROVE  /\ lt \o <<Colon, Colon>> \o rt \in Texts /\ lt \o <<Colon, Colon>> \o rt # << >>
           /\ Sealed(lt \o <<Colon, Colon>> \o rt)
           /\ V6FromString(lt \o <<Colon, Colon>> \o rt) = hton(CloseGap(gl, gl \o gr))
  <1> SUFFICES ASSUME NEW u, u = (lt \o <<Colon, Colon>> \o rt)
        PROVE  /\ u \in Texts /\ u # << >> /\ Sealed(u)
               /\ V6FromString(u) = hton(CloseGap(gl, gl \o gr))
    OBVIOUS
  <1>1. /\ lt \in Texts /\ gl \in Seq(Words16) /\ Sealed(lt) /\ Apart(Append(lt, Colon), Colon, Colon)
        /\ Len(lt) \in Nat /\ Len(lt) <= 5 * Len(gl)
        /\ \A st : Room(st, gl) => \E sn \in BOOLEAN :
                ReadSide(st, lt) = Reading(st.groups \o gl, sn) /\ ~sn
    BY PartIs, ZenonT(40)
  <1>2. /\ rt \in Texts /\ gr \in Seq(Words16) /\ Sealed(rt) /\ Apart(rt, Colon, Colon)
        /\ Len(rt) \in Nat /\ Len(rt) <= 5 * Len(gr) + 5
        /\ \A st : Room(st, gr) => \E sn \in BOOLEAN : ReadSide(st, rt) = Reading(st.groups \o gr, sn)
    BY PartIs
  <1>3. Len(gl) \in Nat /\ Len(gr) \in Nat
    BY <1>1, <1>2
  <1>15. /\ Len(gl) + Len(gr) <= 7 \/ (Len(gl) = 8 /\ Len(gr) = 0 /\ Len(rt) = 0)
         /\ Len(gl) + Len(gr) <= 7 \/ gr = << >>
    <2>1. Len(<< >>) = 0
      OBVIOUS
    <2> QED
      BY <2>1 DEF Fitting
  <1>4. SplitPair(u, Colon, Colon) = <<lt, rt>>
    BY <1>1, <1>2, PairBetween, Punctuation
  <1>5. /\ u \in Texts /\ Len(u) = Len(lt) + 2 + Len(rt)
        /\ \A x : Contains(u, x) <=> Contains(lt, x) \/ x = Colon \/ Contains(rt, x)
    <2> DEFINE c == <<Colon, Colon>>
               b == lt \o c
    <2>1. c \in Texts /\ Len(c) = 2
      BY Punctuation DEF Texts
    <2>2. \A x : Contains(c, x) <=> x = Colon
      BY DEF Contains
    <2> HIDE DEF c
    <2>3. b \in Texts /\ Len(b) = Len(lt) + 2
      <3>1. lt \in Texts /\ c \in Texts /\ Len(c) = 2
        BY <1>1, <2>1
      <3>2. lt \o c \in Texts /\ Len(lt \o c) = Len(lt) + Len(c)
        BY ONLY <3>1, TextOps
      <3> QED
        BY <3>1, <3>2
    <2>4. \A x : Contains(b, x) <=> Contains(lt, x) \/ x = Colon
      BY <1>1, <2>1, <2>2, ContainsOps
    <2>5. u = b \o rt
      BY DEF c
    <2> HIDE DEF b
    <2>6. u \in Texts /\ Len(u) = Len(lt) + 2 + Len(rt)
      <3>1. b \in Texts /\ rt \in Texts
        BY <1>2, <2>3
      <3>2. b \o rt \in Texts /\ Len(b \o rt) = Len(b) + Len(rt)
        BY ONLY <3>1, TextOps
      <3> QED
        BY ONLY <2>3, <2>5, <3>2
    <2>7. ASSUME NEW x PROVE Contains(u, x) <=> Contains(b, x) \/ Contains(rt, x)
      <3>1. b \in Texts /\ rt \in Texts
        BY <1>2, <2>3
      <3>2. Contains(b \o rt, x) <=> Contains(b, x) \/ Contains(rt, x)
        BY ONLY <3>1, ContainsOps
      <3> QED
        BY ONLY <2>5, <3>2
    <2> QED
      BY <2>4, <2>6, <2>7
  <1>6. Sealed(u)
    BY <1>1, <1>2, <1>5, Punctuation DEF Sealed
  <1>7. u # << >> /\ ~(Len(u) > MaxV6Text)
    <2>1. \A p, q, m, n \in Nat :
             (p + q <= 7 \/ (p = 8 /\ q = 0 /\ n = 0)) /\ m <= 5 * p /\ n <= 5 * q + 5 =>
             m + 2 + n # 0 /\ ~(m + 2 + n > 45)
      OBVIOUS
    <2>2. Len(lt) \in Nat /\ Len(rt) \in Nat /\ Len(lt) <= 5 * Len(gl) /\ Len(rt) <= 5 * Len(gr) + 5
      BY <1>1, <1>2
    <2>3. Len(lt) + 2 + Len(rt) # 0 /\ ~(Len(lt) + 2 + Len(rt) > 45)
      BY ONLY <1>3, <1>15, <2>1, <2>2
    <2>4. Len(u) # 0 /\ ~(Len(u) > 45)
      BY ONLY <1>5, <2>3
    <2>5. Len(<< >>) = 0
      OBVIOUS
    <2> QED
      BY <2>4, <2>5 DEF MaxV6Text
  <1> DEFINE left == ReadSide(Start, lt)
             both == ReadSide(left, rt)
  <1>8. left = Reading(gl, FALSE)
    <2>1. Start \in States /\ Start.ok /\ ~Start.seen_ipv4 /\ Start.groups = << >>
      BY StateOps DEF Start
    <2>2. Len(Start.groups) + Len(gl) <= 8
      <3>1. \A p, q \in Nat : p + q <= 7 \/ (p = 8 /\ q = 0) => 0 + p <= 8
        OBVIOUS
      <3>2. Len(<< >>) = 0
        OBVIOUS
      <3> QED
        BY <1>3, <1>15, <2>1, <3>1, <3>2
    <2>3. Room(Start, gl)
      BY <2>1, <2>2 DEF Room
    <2>4. << >> \o gl = gl
      BY <1>1, ConcatEmptySeq
    <2> QED
      BY <1>1, <2>1, <2>3, <2>4
  <1>9. /\ left \in States /\ left.ok /\ left.groups = gl /\ ~left.seen_ipv4
        /\ gl \in Groups
    <2>1. \A p, q \in Nat : p + q <= 7 \/ (p = 8 /\ q = 0) => p <= 8
      OBVIOUS
    <2>2. gl \in Groups
      BY <1>1, <1>3, <1>15, <2>1 DEF Groups
    <2> HIDE DEF left
    <2>3. FALSE \in BOOLEAN
      OBVIOUS
    <2>4. /\ Reading(gl, FALSE) \in States /\ Reading(gl, FALSE).ok
          /\ Reading(gl, FALSE).groups = gl /\ Reading(gl, FALSE).seen_ipv4 = FALSE
      BY ONLY <2>2, <2>3, StateOps
    <2> QED
      BY ONLY <1>8, <2>2, <2>4
  <1>10. \E sn \in BOOLEAN : both = Reading(gl \o gr, sn)
    <2>1. Len(left.groups) + Len(gr) <= 8
      <3>1. \A p, q \in Nat : p + q <= 7 \/ (p = 8 /\ q = 0) => p + q <= 8
        OBVIOUS
      <3> QED
        BY <1>3, <1>15, <1>9, <3>1
    <2>2. Room(left, gr)
      BY <1>9, <2>1 DEF Room
    <2> HIDE DEF left
    <2> QED
      BY <1>2, <1>9, <2>2
  <1>11. both.ok /\ both.groups = gl \o gr /\ (gr = << >> \/ Len(gl \o gr) < 8)
    <2>1. gl \o gr \in Groups /\ Len(gl \o gr) = Len(gl) + Len(gr)
      <3>1. \A p, q \in Nat : p + q <= 7 \/ (p = 8 /\ q = 0) => p + q <= 8
        OBVIOUS
      <3> QED
        BY <1>1, <1>2, <1>3, <1>15, <3>1, GroupOps
    <2>2. \A p, q \in Nat : p + q <= 7 => p + q < 8
      OBVIOUS
    <2> HIDE DEF both
    <2>3. PICK sn \in BOOLEAN : both = Reading(gl \o gr, sn)
      BY <1>10
    <2>4. Reading(gl \o gr, sn).ok /\ Reading(gl \o gr, sn).groups = gl \o gr
      BY ONLY <2>1, <2>3, StateOps
    <2>5. gr = << >> \/ Len(gl) + Len(gr) < 8
      BY <1>3, <1>15, <2>2
    <2> QED
      BY ONLY <2>1, <2>3, <2>4, <2>5
  <1>12. RoomForZeros(left.groups, both.groups)
    <2>1. gl \o << >> = gl
      BY <1>1, ConcatEmptySeq
    <2>2. both.groups = left.groups \/ Len(both.groups) < 8
      BY ONLY <1>9, <1>11, <2>1
    <2> QED
      BY <2>2 DEF RoomForZeros
  <1> DEFINE sides == SplitPair(u, Colon, Colon)
  <1>13. left = ReadSide(Start, sides[1]) /\ both = ReadSide(left, sides[2]) /\ Len(sides) = 2
    BY <1>4
  <1>14. V6FromString(u) = hton(CloseGap(left.groups, both.groups))
    <2> DEFINE l == ReadSide(Start, sides[1])
               b == ReadSide(l, sides[2])
    <2>1. V6FromString(u) =
             IF u = << >> \/ Len(u) > MaxV6Text \/ ~l.ok
             THEN Invalid
             ELSE IF Len(sides) = 1
             THEN IF Len(l.groups) = 8 THEN hton(l.groups) ELSE Invalid
             ELSE IF Len(sides) = 2 /\ ~l.seen_ipv4 /\ b.ok /\ RoomForZeros(l.groups, b.groups)
                  THEN hton(CloseGap(l.groups, b.groups))
                  ELSE Invalid
      BY DEF V6FromString
    <2>2. l = left /\ b = both
      BY <1>13
    <2>3. 2 # 1
      OBVIOUS
    <2> HIDE DEF left, both, l, b, sides
    <2> QED
      BY ONLY <1>7, <1>9, <1>11, <1>12, <1>13, <2>1, <2>2, <2>3
  <1> HIDE DEF left, both
  <1> QED
    BY <1>5, <1>6, <1>7, <1>9, <1>11, <1>14

\* The scan for the longest run of zero groups.
Runs == [best_start : Nat, best_len : Nat, cur_start : Nat, cur_len : Nat]

Run(ks, local) == Accumulate(LAMBDA r, i : Scan(r, i, local), NoRun, ks)

LEMMA NoRunType == NoRun \in Runs
  BY DEF NoRun, Runs

LEMMA ScanType ==
    ASSUME NEW r \in Runs, NEW i \in Indices, NEW local
    PROVE  Scan(r, i, local) \in Runs
  <1> DEFINE start == IF r.cur_len = 0 THEN i ELSE r.cur_start
             len == r.cur_len + 1
  <1>1. i \in Nat
    BY DEF Indices
  <1>2. start \in Nat /\ len \in Nat
    BY <1>1 DEF Runs
  <1>3. Scan(r, i, local) =
          IF local[i] # 0
          THEN [r EXCEPT !.cur_len = 0]
          ELSE IF Longer(len, r.best_len)
               THEN [best_start |-> start, best_len |-> len, cur_start |-> start, cur_len |-> len]
               ELSE [r EXCEPT !.cur_start = start, !.cur_len = len]
    BY DEF Scan
  <1> HIDE DEF start, len
  <1>4. [r EXCEPT !.cur_len = 0] \in Runs
    BY DEF Runs
  <1>5. [best_start |-> start, best_len |-> len, cur_start |-> start, cur_len |-> len] \in Runs
    BY <1>2 DEF Runs
  <1>6. [r EXCEPT !.cur_start = start, !.cur_len = len] \in Runs
    BY <1>2 DEF Runs
  <1> QED
    BY <1>3, <1>4, <1>5, <1>6

LEMMA RunSteps ==
    ASSUME NEW local \in EightGroups
    PROVE  /\ Run(<< >>, local) = NoRun
           /\ \A s \in Seq(Indices) : Run(s, local) \in Runs
           /\ \A s \in Seq(Indices), x \in Indices :
                Run(Append(s, x), local) = Scan(Run(s, local), x, local)
  <1> DEFINE F == [x \in Indices |-> [v \in Runs |-> Scan(v, x, local)]]
  <1>0. NoRun \in Runs
    BY NoRunType
  <1>1. F \in [Indices -> [Runs -> Runs]]
    BY ScanType
  <1>2. \A x \in Indices, v \in Runs : F[x][v] = Scan(v, x, local)
    OBVIOUS
  <1> HIDE DEF F
  <1>3. ASSUME NEW s \in Seq(Indices) PROVE Run(s, local) = Loop(Runs, NoRun, F, s)
    <2> DEFINE n == Len(s)
               G(g) == [i \in 0 .. n |-> IF i = 0 THEN NoRun ELSE Scan(g[i - 1], s[i], local)]
               u == CHOOSE g : g = G(g)
    <2>0. n = Len(s)
      OBVIOUS
    <2>1. n \in Nat /\ \A i \in 1 .. n : s[i] \in Indices
      BY <1>3
    <2>2. Run(s, local) = u[n]
      BY DEF Run, Accumulate
    <2> HIDE DEF n
    <2>3. PICK t : t \in Traces(Runs, NoRun, F, s)
      BY <1>0, <1>1, <1>3, TraceExists
    <2>12. /\ t \in [0 .. n -> Runs] /\ t[0] = NoRun
           /\ \A i \in 1 .. n : t[i] = F[s[i]][t[i - 1]] /\ i - 1 \in 0 .. n
      <3>1. t \in Traces(Runs, NoRun, F, s) /\ n = Len(s) /\ n \in Nat
        BY <2>0, <2>1, <2>3
      <3>2. \A i \in 1 .. n : i - 1 \in 0 .. n
        BY ONLY <3>1
      <3> QED
        BY ONLY <3>1, <3>2 DEF Traces
    <2>4. \A i \in 1 .. n : t[i] = Scan(t[i - 1], s[i], local)
      BY <1>2, <2>1, <2>12
    <2>5. t = G(t)
      BY <2>1, <2>12, <2>4
    <2>6. u = G(u)
      BY <2>5
    <2> HIDE DEF u
    <2>7. u[0] = NoRun /\ \A i \in 1 .. n : u[i] = Scan(u[i - 1], s[i], local)
      BY <2>1, <2>6
    <2>8. \A i \in 1 .. n : u[i - 1] \in Runs => u[i] = F[s[i]][u[i - 1]]
      BY <1>2, <2>1, <2>7
    <2>9. u[n] = Loop(Runs, NoRun, F, s)
      <3>1. u[0] = NoRun
        BY <2>7
      <3> QED
        BY ONLY <1>0, <1>1, <1>3, <2>0, <2>8, <3>1, LoopIs
    <2> QED
      BY <2>2, <2>9
  <1>4. << >> \in Seq(Indices) /\ \A s \in Seq(Indices), x \in Indices : Append(s, x) \in Seq(Indices)
    OBVIOUS
  <1>5. Loop(Runs, NoRun, F, << >>) = NoRun
    BY <1>0, <1>1, LoopEmpty
  <1>6. ASSUME NEW s \in Seq(Indices) PROVE Loop(Runs, NoRun, F, s) \in Runs
    BY <1>0, <1>1, LoopType
  <1>7. ASSUME NEW s \in Seq(Indices), NEW x \in Indices
        PROVE  Loop(Runs, NoRun, F, Append(s, x)) = F[x][Loop(Runs, NoRun, F, s)]
    BY <1>0, <1>1, LoopAppend
  <1>8. Run(<< >>, local) = NoRun
    BY <1>3, <1>4, <1>5
  <1>9. ASSUME NEW s \in Seq(Indices) PROVE Run(s, local) \in Runs
    BY <1>3, <1>6
  <1>10. ASSUME NEW s \in Seq(Indices), NEW x \in Indices
         PROVE  Run(Append(s, x), local) = Scan(Run(s, local), x, local)
    BY <1>2, <1>3, <1>4, <1>7, <1>9, ZenonT(40)
  <1> QED
    BY <1>8, <1>9, <1>10

\* Both runs are runs of zeros among the first n groups, the current one at their end.
GoodRun(r, n, local) ==
    /\ r \in Runs /\ r.best_start >= 1 /\ r.best_start + r.best_len <= n + 1
    /\ \A k \in 1 .. n : r.best_start <= k /\ k < r.best_start + r.best_len => local[k] = 0
    /\ r.cur_len > 0 => /\ r.cur_start >= 1 /\ r.cur_start + r.cur_len = n + 1
                        /\ \A k \in 1 .. n : r.cur_start <= k => local[k] = 0

LEMMA ScanGood ==
    ASSUME NEW local, NEW n \in Nat, NEW r, GoodRun(r, n, local)
    PROVE  GoodRun(Scan(r, n + 1, local), n + 1, local)
  <1> DEFINE i == n + 1
             start == IF r.cur_len = 0 THEN i ELSE r.cur_start
             len == r.cur_len + 1
             new == Scan(r, i, local)
  <1>1. /\ r \in Runs /\ r.best_start >= 1 /\ r.best_start + r.best_len <= n + 1
        /\ \A k \in 1 .. n : r.best_start <= k /\ k < r.best_start + r.best_len => local[k] = 0
        /\ r.cur_len > 0 => /\ r.cur_start >= 1 /\ r.cur_start + r.cur_len = n + 1
                            /\ \A k \in 1 .. n : r.cur_start <= k => local[k] = 0
    BY DEF GoodRun
  <1>2. /\ r.best_start \in Nat /\ r.best_len \in Nat /\ r.cur_start \in Nat /\ r.cur_len \in Nat
    BY <1>1 DEF Runs
  <1>3. /\ start \in Nat /\ len \in Nat /\ start >= 1 /\ start + len = n + 2
        /\ local[i] = 0 => \A k \in 1 .. n + 1 : start <= k => local[k] = 0
    BY <1>1, <1>2
  <1>4. \A k \in 1 .. n + 1 : k \in 1 .. n \/ k = n + 1
    OBVIOUS
  <1>5. CASE local[i] # 0
    <2>1. new = [r EXCEPT !.cur_len = 0]
      BY <1>5 DEF Scan
    <2>2. new \in Runs /\ new.best_start = r.best_start /\ new.best_len = r.best_len /\ new.cur_len = 0
      BY <1>1, <2>1 DEF Runs
    <2> HIDE DEF new
    <2>3. \A k \in 1 .. n + 1 : r.best_start <= k /\ k < r.best_start + r.best_len => local[k] = 0
      BY <1>1, <1>2, <1>4
    <2> QED
      BY <1>1, <1>2, <2>2, <2>3 DEF GoodRun, new
  <1>6. CASE local[i] = 0 /\ Longer(len, r.best_len)
    <2>1. new = [best_start |-> start, best_len |-> len, cur_start |-> start, cur_len |-> len]
      BY <1>6 DEF Scan
    <2>2. /\ new \in Runs /\ new.best_start = start /\ new.best_len = len
          /\ new.cur_start = start /\ new.cur_len = len
      BY <1>3, <2>1 DEF Runs
    <2> HIDE DEF new, start, len
    <2> QED
      BY <1>3, <1>6, <2>2 DEF GoodRun, new
  <1>7. CASE local[i] = 0 /\ ~Longer(len, r.best_len)
    <2>1. new = [r EXCEPT !.cur_start = start, !.cur_len = len]
      BY <1>7 DEF Scan
    <2>2. /\ new \in Runs /\ new.best_start = r.best_start /\ new.best_len = r.best_len
          /\ new.cur_start = start /\ new.cur_len = len
      BY <1>1, <1>3, <2>1 DEF Runs
    <2>3. \A k \in 1 .. n + 1 : r.best_start <= k /\ k < r.best_start + r.best_len => local[k] = 0
      BY <1>1, <1>2, <1>4
    <2> HIDE DEF new, start, len
    <2> QED
      BY <1>1, <1>2, <1>3, <1>7, <2>2, <2>3 DEF GoodRun, new
  <1> QED
    BY <1>5, <1>6, <1>7

\* The run in sight is as long as any that ends here, and the best one at
\* least as long as any so far, and further left if it is as long.
ZeroFor(local, a, m) == \A k \in a .. a + m - 1 : local[k] = 0
Ahead(start, len, a, m) == len > m \/ (len = m /\ start <= a)

NoLonger(r, n, local) ==
    \A a, m \in Nat : a >= 1 /\ m >= 1 /\ a + m = n + 1 /\ ZeroFor(local, a, m) => m <= r.cur_len
Leads(r, n, local) ==
    \A a, m \in Nat : a >= 1 /\ m >= 1 /\ a + m <= n + 1 /\ ZeroFor(local, a, m) =>
       Ahead(r.best_start, r.best_len, a, m)

TopRun(r, n, local) == GoodRun(r, n, local) /\ NoLonger(r, n, local) /\ Leads(r, n, local)

LEMMA ScanTop ==
    ASSUME NEW local, NEW n \in Nat, NEW r, TopRun(r, n, local)
    PROVE  TopRun(Scan(r, n + 1, local), n + 1, local)
  <1> DEFINE i == n + 1
             start == IF r.cur_len = 0 THEN i ELSE r.cur_start
             len == r.cur_len + 1
             new == Scan(r, i, local)
  <1>1. GoodRun(r, n, local) /\ NoLonger(r, n, local) /\ Leads(r, n, local)
    BY DEF TopRun
  <1>2. GoodRun(new, i, local)
    BY <1>1, ScanGood
  <1>3. /\ r.best_start \in Nat /\ r.best_len \in Nat /\ r.cur_start \in Nat /\ r.cur_len \in Nat
        /\ r.best_start + r.best_len <= n + 1
        /\ r.cur_len > 0 => r.cur_start + r.cur_len = n + 1
    BY <1>1 DEF GoodRun, Runs
  <1>4. start \in Nat /\ len \in Nat /\ start + len = n + 2
    <2>1. CASE r.cur_len = 0
      <3>1. start = n + 1 /\ len = 0 + 1
        BY <2>1
      <3> HIDE DEF start, len
      <3> QED
        BY ONLY <3>1, n \in Nat
    <2>2. CASE r.cur_len # 0
      <3>1. start = r.cur_start /\ len = r.cur_len + 1
        BY <2>2
      <3>2. \A p, q \in Nat : q # 0 => q > 0
        OBVIOUS
      <3>3. r.cur_start + r.cur_len = n + 1
        BY ONLY <1>3, <2>2, <3>2
      <3>4. \A p, q \in Nat : p + q = n + 1 => q + 1 \in Nat /\ p + (q + 1) = n + 2
        OBVIOUS
      <3> HIDE DEF start, len
      <3> QED
        BY ONLY <1>3, <3>1, <3>3, <3>4
    <2> QED
      BY ONLY <2>1, <2>2
  <1>5. /\ local[i] # 0 => new.best_start = r.best_start /\ new.best_len = r.best_len /\ new.cur_len = 0
        /\ local[i] = 0 /\ Longer(len, r.best_len) =>
             new.best_start = start /\ new.best_len = len /\ new.cur_len = len
        /\ local[i] = 0 /\ ~Longer(len, r.best_len) =>
             new.best_start = r.best_start /\ new.best_len = r.best_len /\ new.cur_len = len
    BY <1>1 DEF Scan, GoodRun, Runs
  <1> HIDE DEF new, start, len
  <1>6. \A a, m \in Nat : a >= 1 /\ m >= 1 /\ a + m = n + 1 /\ ZeroFor(local, a, m) => m <= r.cur_len
    BY <1>1 DEF NoLonger
  <1>7. \A a, m \in Nat : a >= 1 /\ m >= 1 /\ a + m <= n + 1 /\ ZeroFor(local, a, m) =>
           Ahead(r.best_start, r.best_len, a, m)
    BY <1>1 DEF Leads
  <1>8. ASSUME NEW a \in Nat, NEW m \in Nat, a >= 1, m >= 1, a + m = i + 1, ZeroFor(local, a, m)
        PROVE  local[i] = 0 /\ m <= len
    <2>1. local[i] = 0
      <3>1. i \in a .. a + m - 1
        BY <1>8
      <3> QED
        BY <1>8, <3>1 DEF ZeroFor
    <2>2. CASE m = 1
      <3>1. \A q \in Nat : 1 <= q + 1
        OBVIOUS
      <3>2. m <= len
        BY ONLY <1>3, <2>2, <3>1 DEF len
      <3> QED
        BY ONLY <2>1, <3>2
    <2>3. CASE m # 1
      <3> DEFINE j == m - 1
      <3>1. j \in Nat /\ j >= 1 /\ a + j = n + 1 /\ \A k \in a .. a + j - 1 : k \in a .. a + m - 1
        BY <1>8, <2>3
      <3>2. ZeroFor(local, a, j)
        BY <1>8, <3>1 DEF ZeroFor
      <3> HIDE DEF j
      <3>3. j <= r.cur_len
        BY ONLY <1>6, <1>8, <3>1, <3>2
      <3> QED
        BY <1>3, <2>1, <3>1, <3>3 DEF j, len
    <2> QED
      BY <2>2, <2>3
  <1>9. NoLonger(new, i, local)
    <2>1. local[i] = 0 => new.cur_len = len
      BY ONLY <1>5
    <2> QED
      BY ONLY <1>8, <2>1 DEF NoLonger
  <1>10. ASSUME NEW a \in Nat, NEW m \in Nat, a >= 1, m >= 1, a + m <= i + 1, ZeroFor(local, a, m)
         PROVE  Ahead(new.best_start, new.best_len, a, m)
    <2>1. CASE a + m <= n + 1
      <3>1. Ahead(r.best_start, r.best_len, a, m)
        BY ONLY <1>7, <1>10, <2>1
      <3>2. CASE local[i] = 0 /\ Longer(len, r.best_len)
        <4>1. len > r.best_len
          BY <3>2 DEF Longer
        <4>2. len > m
          BY <1>3, <1>4, <3>1, <4>1 DEF Ahead
        <4> QED
          BY ONLY <1>5, <3>2, <4>2 DEF Ahead
      <3>3. CASE ~(local[i] = 0 /\ Longer(len, r.best_len))
        <4>1. new.best_start = r.best_start /\ new.best_len = r.best_len
          BY ONLY <1>5, <3>3
        <4> QED
          BY ONLY <3>1, <4>1
      <3> QED
        BY <3>2, <3>3
    <2>2. CASE a + m = i + 1
      <3>1. local[i] = 0 /\ m <= len
        BY ONLY <1>8, <1>10, <2>2
      <3>2. CASE Longer(len, r.best_len)
        <4>1. new.best_start = start /\ new.best_len = len
          BY ONLY <1>5, <3>1, <3>2
        <4>2. len > m \/ (len = m /\ start <= a)
          BY <1>4, <2>2, <3>1
        <4> QED
          BY ONLY <4>1, <4>2 DEF Ahead
      <3>3. CASE ~Longer(len, r.best_len)
        <4>1. new.best_start = r.best_start /\ new.best_len = r.best_len
          BY ONLY <1>5, <3>1, <3>3
        <4>2. ~(len > r.best_len)
          BY <3>3 DEF Longer
        <4>3. r.best_len > m \/ (r.best_len = m /\ r.best_start <= a)
          BY <1>3, <1>4, <2>2, <3>1, <4>2
        <4> QED
          BY ONLY <4>1, <4>3 DEF Ahead
      <3> QED
        BY <3>2, <3>3
    <2> QED
      BY <1>10, <2>1, <2>2
  <1>11. Leads(new, i, local)
    BY ONLY <1>10 DEF Leads
  <1> QED
    BY <1>2, <1>9, <1>11 DEF TopRun, new

\* The run the printer leaves out is a run of zeros, and the first of the
\* longest ones.
LEMMA BestRunIs ==
    ASSUME NEW local \in EightGroups
    PROVE  \A n \in 0 .. 8 : TopRun(BestRun(local, n), n, local)
  <1>1. \A n \in 0 .. 8 : BestRun(local, n) = Run(Indexes(1, n), local)
    <2> SUFFICES ASSUME NEW n \in 0 .. 8 PROVE BestRun(local, n) = Run(Indexes(1, n), local)
      OBVIOUS
    <2>1. Indexes(1, n) = [i \in 1 .. n |-> i]
      <3>1. n - 1 + 1 = n /\ \A k \in 1 .. n : 1 + k - 1 = k
        OBVIOUS
      <3> QED
        BY <3>1 DEF Indexes
    <2> QED
      BY <2>1 DEF BestRun, Run
  <1> DEFINE S == {n \in 0 .. 8 : TopRun(Run(Indexes(1, n), local), n, local)}
  <1>2. 0 \in S
    <2>1. Indexes(1, 1 - 1) = << >>
      BY IndexOps
    <2>2. Run(Indexes(1, 0), local) = NoRun
      BY <2>1, RunSteps
    <2>3. TopRun(NoRun, 0, local)
      <3>1. GoodRun(NoRun, 0, local)
        BY NoRunType DEF GoodRun, NoRun
      <3>2. \A a, m \in Nat : ~(a >= 1 /\ m >= 1 /\ a + m <= 0 + 1) /\ ~(a >= 1 /\ m >= 1 /\ a + m = 0 + 1)
        OBVIOUS
      <3> QED
        BY ONLY <3>1, <3>2 DEF TopRun, NoLonger, Leads
    <2> QED
      BY <2>2, <2>3
  <1>3. ASSUME NEW n \in 1 .. 8, n - 1 \in S PROVE n \in S
    <2>1. n - 1 \in Nat /\ (n - 1) + 1 = n /\ n \in Indices /\ n - 1 \in 0 .. 8
      BY DEF Indices
    <2>2. Indexes(1, n - 1) \in Seq(Indices) /\ Indexes(1, n) = Append(Indexes(1, n - 1), n)
      <3>1. 1 \in 1 .. 9 /\ n - 1 \in 1 - 1 .. 8 /\ n \in 1 .. 8
        OBVIOUS
      <3>2. \A j \in 1 - 1 .. 8 : Indexes(1, j) \in Seq(Indices)
        BY ONLY <3>1, IndexOps, Zenon
      <3>3. \A j \in 1 .. 8 : Indexes(1, j) = Append(Indexes(1, j - 1), j)
        BY ONLY <3>1, IndexOps, Zenon
      <3> QED
        BY ONLY <3>1, <3>2, <3>3
    <2>3. Run(Indexes(1, n), local) = Scan(Run(Indexes(1, n - 1), local), n, local)
      BY <2>1, <2>2, RunSteps
    <2>4. TopRun(Run(Indexes(1, n - 1), local), n - 1, local)
      BY <1>3
    <2>5. TopRun(Scan(Run(Indexes(1, n - 1), local), (n - 1) + 1, local), (n - 1) + 1, local)
      BY <2>1, <2>4, ScanTop
    <2>6. TopRun(Run(Indexes(1, n), local), n, local)
      BY ONLY <2>1, <2>3, <2>5
    <2> QED
      BY <2>6
  <1> HIDE DEF S
  <1>4. 0 .. 8 \subseteq S
    <2>1. 8 \in Nat
      OBVIOUS
    <2> QED
      BY <1>2, <1>3, <2>1, InductUpTo
  <1> QED
    BY <1>1, <1>4 DEF S

LEMMA GroupsAssoc ==
    /\ \A a, b, c \in Seq(Words16) : (a \o b) \o c = a \o (b \o c)
    /\ \A a \in Seq(Words16) : a \o << >> = a /\ << >> \o a = a
    /\ \A a, b \in Seq(Words16) : a \o b = a <=> b = << >>
  BY ConcatAssociative, ConcatEmptySeq, ConcatEqualIffEmpty

LEMMA SliceJoin ==
    ASSUME NEW local \in EightGroups, NEW i \in 1 .. 9, NEW m \in i - 1 .. 8, NEW j \in m .. 8
    PROVE  Slice(local, i, m) \o Slice(local, m + 1, j) = Slice(local, i, j)
  <1> DEFINE a == Slice(local, i, m)
             b == Slice(local, m + 1, j)
             c == Slice(local, i, j)
  <1>1. /\ m + 1 \in 1 .. 9 /\ m \in i - 1 .. 8 /\ j \in (m + 1) - 1 .. 8 /\ j \in i - 1 .. 8
        /\ j - (m + 1) + 1 = j - m
    OBVIOUS
  <1>2. /\ a \in Seq(Words16) /\ Len(a) = m - i + 1
        /\ \A k \in 1 .. m - i + 1 : a[k] = local[i + k - 1]
    BY <1>1, SliceOps
  <1>3. /\ b \in Seq(Words16) /\ Len(b) = j - m
        /\ \A k \in 1 .. j - m : b[k] = local[m + 1 + k - 1]
    <2>1. /\ b \in Seq(Words16) /\ Len(b) = j - (m + 1) + 1
          /\ \A k \in 1 .. j - (m + 1) + 1 : b[k] = local[m + 1 + k - 1]
      BY <1>1, SliceOps
    <2> QED
      BY <1>1, <2>1
  <1>4. /\ c \in Seq(Words16) /\ Len(c) = j - i + 1
        /\ \A k \in 1 .. j - i + 1 : c[k] = local[i + k - 1]
    BY <1>1, SliceOps
  <1> HIDE DEF a, b, c
  <1>5. /\ a \o b \in Seq(Words16) /\ Len(a \o b) = Len(a) + Len(b)
        /\ \A k \in 1 .. Len(a) : (a \o b)[k] = a[k]
        /\ \A k \in 1 .. Len(b) : (a \o b)[Len(a) + k] = b[k]
    BY <1>2, <1>3, GroupOps, ZenonT(40)
  <1>6. Len(a \o b) = j - i + 1
    BY <1>2, <1>3, <1>5
  <1>7. ASSUME NEW k \in 1 .. j - i + 1 PROVE (a \o b)[k] = c[k]
    <2>1. CASE k <= m - i + 1
      <3>1. k \in 1 .. m - i + 1
        BY <2>1
      <3> QED
        BY <1>2, <1>4, <1>5, <3>1
    <2>2. CASE k > m - i + 1
      <3> DEFINE h == k - (m - i + 1)
      <3>1. h \in 1 .. j - m /\ k = (m - i + 1) + h /\ m + 1 + h - 1 = i + k - 1
        BY <2>2
      <3> HIDE DEF h
      <3>2. (a \o b)[k] = b[h]
        BY ONLY <1>2, <1>3, <1>5, <3>1
      <3>3. b[h] = local[i + k - 1]
        <4>1. h \in 1 .. j - m /\ m + 1 + h - 1 = i + k - 1
          BY <3>1
        <4>2. \A x \in 1 .. j - m : b[x] = local[m + 1 + x - 1]
          BY <1>3
        <4>3. b[h] = local[m + 1 + h - 1]
          BY <4>1, <4>2, Zenon
        <4> QED
          BY ONLY <4>1, <4>3
      <3> QED
        BY <1>4, <3>2, <3>3
    <2>3. k <= m - i + 1 \/ k > m - i + 1
      OBVIOUS
    <2> QED
      BY ONLY <2>1, <2>2, <2>3
  <1>8. a \o b = c
    BY <1>4, <1>5, <1>6, <1>7, SeqEqual
  <1> QED
    BY <1>8 DEF a, b, c

\* All the groups.
LEMMA SliceAll ==
    ASSUME NEW local \in EightGroups
    PROVE  Slice(local, 1, 8) = local /\ Slice(local, 7, 8) = <<local[7], local[8]>>
  <1>1. 8 - 1 + 1 = 8 /\ 8 - 7 + 1 = 2 /\ \A k \in 1 .. 8 : 1 + k - 1 = k
    OBVIOUS
  <1>2. local = [k \in 1 .. 8 |-> local[k]]
    BY DEF EightGroups, Indices
  <1>3. Slice(local, 1, 8) = local
    BY <1>1, <1>2 DEF Slice
  <1>4. Slice(local, 7, 8) = [k \in 1 .. 2 |-> local[7 + k - 1]]
    BY <1>1 DEF Slice
  <1>5. [k \in 1 .. 2 |-> local[7 + k - 1]] = <<local[7], local[8]>>
    OBVIOUS
  <1> QED
    BY <1>3, <1>4, <1>5

\* Groups start .. next - 1 are zero.
ZeroRun(local, start, next) == \A k \in 1 .. 8 : start <= k /\ k < next => local[k] = 0

\* The groups around a gap and the zeros between them.
LEMMA GapIs ==
    ASSUME NEW gl \in Seq(Words16), NEW gr \in Seq(Words16), Len(gl) + Len(gr) <= 8
    PROVE  CloseGap(gl, gl \o gr) = gl \o Zeros(8 - Len(gl) - Len(gr)) \o gr
  <1> DEFINE n == Len(gl)
             m == Len(gr)
             both == gl \o gr
             zs == Zeros(8 - n - m)
  <1>1. n \in Nat /\ m \in Nat
    BY GroupOps
  <1>2. /\ both \in Seq(Words16) /\ Len(both) = n + m
        /\ \A k \in 1 .. m : both[n + k] = gr[k]
    BY GroupOps
  <1>3. 8 - n - m \in Nat /\ 8 - (n + m) = 8 - n - m
    BY <1>1
  <1>4. CASE gr = << >>
    <2>1. both = gl
      BY <1>4, GroupsAssoc
    <2>2. m = 0
      BY <1>4
    <2>3. 8 - n = 8 - n - m
      BY <1>1, <2>2
    <2>4. CloseGap(gl, both) = gl \o zs
      BY <2>1, <2>3 DEF CloseGap
    <2>5. gl \o zs \in Seq(Words16)
      BY <1>3, ZerosType, GroupOps
    <2> HIDE DEF zs
    <2>6. gl \o zs \o gr = gl \o zs
      BY <1>4, <2>5, GroupsAssoc
    <2> QED
      BY <2>4, <2>6 DEF zs
  <1>5. CASE gr # << >>
    <2>1. both # gl
      BY <1>5, GroupsAssoc
    <2>3. SubSeq(both, n + 1, n + m) = gr
      <3> HIDE DEF n, m, both
      <3>3. SubSeq(both, n + 1, n + m) = [k \in 1 .. m |-> both[n + k]]
        BY <1>1, <1>2
      <3>4. gr = [k \in 1 .. m |-> gr[k]]
        BY DEF m
      <3>5. [k \in 1 .. m |-> both[n + k]] = [k \in 1 .. m |-> gr[k]]
        BY <1>2
      <3> QED
        BY ONLY <3>3, <3>4, <3>5
    <2>4. CloseGap(gl, both) = gl \o Zeros(8 - Len(both)) \o SubSeq(both, n + 1, Len(both))
      BY <2>1 DEF CloseGap
    <2> HIDE DEF n, m, both
    <2>5. CloseGap(gl, both) = gl \o zs \o gr
      BY ONLY <1>2, <1>3, <2>3, <2>4 DEF zs
    <2> QED
      BY ONLY <2>5 DEF zs, both, n, m
  <1> QED
    BY <1>4, <1>5

\* The zeros a gap stands for are the groups that were left out.
LEMMA GapGroups ==
    ASSUME NEW local \in EightGroups, NEW start \in 1 .. 9, NEW next \in start + 2 .. 9,
           ZeroRun(local, start, next)
    PROVE  /\ Len(Slice(local, 1, start - 1)) + Len(Slice(local, next, 8)) <= 7
           /\ CloseGap(Slice(local, 1, start - 1),
                       Slice(local, 1, start - 1) \o Slice(local, next, 8)) = local
  <1> SUFFICES ASSUME NEW gl, gl = Slice(local, 1, start - 1), NEW gr, gr = Slice(local, next, 8)
        PROVE  Len(gl) + Len(gr) <= 7 /\ CloseGap(gl, gl \o gr) = local
    OBVIOUS
  <1> DEFINE z == next - start
             zs == Zeros(z)
             both == gl \o gr
  <1>1. /\ 1 \in 1 .. 9 /\ start - 1 \in 1 - 1 .. 8 /\ start - 1 - 1 + 1 = start - 1
        /\ next \in 1 .. 9 /\ 8 \in next - 1 .. 8 /\ 8 - next + 1 = 9 - next
    OBVIOUS
  <1>2. gl \in Seq(Words16) /\ Len(gl) = start - 1
    <2>1. Slice(local, 1, start - 1) \in Seq(Words16)
          /\ Len(Slice(local, 1, start - 1)) = start - 1 - 1 + 1
      BY <1>1, SliceOps
    <2> QED
      BY <1>1, <2>1
  <1>3. gr \in Seq(Words16) /\ Len(gr) = 9 - next
    <2>1. Slice(local, next, 8) \in Seq(Words16) /\ Len(Slice(local, next, 8)) = 8 - next + 1
      BY <1>1, SliceOps
    <2> QED
      BY <1>1, <2>1
  <1>4. z \in Nat
    OBVIOUS
  <1>5. zs = Slice(local, start, next - 1)
    <2>1. next - 1 - start + 1 = z /\ \A k \in 1 .. z : start + k - 1 \in 1 .. 8
          /\ start <= start + k - 1 /\ start + k - 1 < next
      OBVIOUS
    <2>2. \A k \in 1 .. z : local[start + k - 1] = 0
      BY ONLY <2>1, ZeroRun(local, start, next) DEF ZeroRun
    <2>3. Slice(local, start, next - 1) = [k \in 1 .. z |-> local[start + k - 1]]
      BY <2>1 DEF Slice
    <2>4. [k \in 1 .. z |-> local[start + k - 1]] = [k \in 1 .. z |-> 0]
      BY <2>2
    <2> HIDE DEF z
    <2> QED
      BY <2>3, <2>4 DEF Zeros
  <1>6. gl \o zs = Slice(local, 1, next - 1)
    <2>1. 1 \in 1 .. 9 /\ start - 1 \in 1 - 1 .. 8 /\ next - 1 \in start - 1 .. 8 /\ (start - 1) + 1 = start
      OBVIOUS
    <2>2. Slice(local, 1, start - 1) \o Slice(local, (start - 1) + 1, next - 1) = Slice(local, 1, next - 1)
      BY ONLY <2>1, local \in EightGroups, SliceJoin
    <2> QED
      BY ONLY <1>5, <2>1, <2>2, gl = Slice(local, 1, start - 1)
  <1>7. Slice(local, 1, next - 1) \o gr = local
    <2>1. 1 \in 1 .. 9 /\ next - 1 \in 1 - 1 .. 8 /\ 8 \in next - 1 .. 8 /\ (next - 1) + 1 = next
      OBVIOUS
    <2>2. Slice(local, 1, next - 1) \o Slice(local, (next - 1) + 1, 8) = Slice(local, 1, 8)
      BY ONLY <2>1, local \in EightGroups, SliceJoin
    <2>3. Slice(local, 1, 8) = local
      BY SliceAll
    <2> QED
      BY ONLY <2>1, <2>2, <2>3, gr = Slice(local, next, 8)
  <1>8. gl \o zs \o gr = local
    BY ONLY <1>6, <1>7
  <1>9. Len(both) = (start - 1) + (9 - next) /\ Len(gl) + Len(gr) <= 7
    <2>1. Len(both) = Len(gl) + Len(gr)
      BY <1>2, <1>3, GroupOps
    <2> QED
      BY <1>2, <1>3, <2>1
  <1>10. CloseGap(gl, both) = gl \o Zeros(8 - Len(gl) - Len(gr)) \o gr
    <2>1. Len(gl) + Len(gr) <= 8
      BY <1>2, <1>3
    <2> QED
      BY <1>2, <1>3, <2>1, GapIs
  <1>11. 8 - Len(gl) - Len(gr) = z
    BY <1>2, <1>3
  <1> QED
    BY ONLY <1>8, <1>9, <1>10, <1>11 DEF zs, both

\* What compressed_ipv6 prints before the gap, its last colon left out.
Lead(local, start, removed) == IF start = 1 THEN << >> ELSE Line(local, 1, start - 1, removed)

\* What it prints after the gap, its first colon left out; q is the dotted quad.
Trail(local, next, removed) == IF next = 9 THEN << >> ELSE Line(local, next, 8, removed)

MixedTrail(local, next, removed, q) ==
    IF next = 7 THEN q ELSE Line(local, next, 6, removed) \o <<Colon>> \o q

LEMMA LeadIs ==
    ASSUME NEW local \in EightGroups, NEW removed \in BOOLEAN, NEW start \in 1 .. 9
    PROVE  /\ Part(Lead(local, start, removed), Slice(local, 1, start - 1), FALSE)
           /\ ColonAfter(local, 1, start - 1, removed) \o (IF start = 1 THEN <<Colon>> ELSE << >>)
                = Lead(local, start, removed) \o <<Colon>>
  <1> SUFFICES ASSUME NEW w, w = Lead(local, start, removed)
        PROVE  /\ Part(w, Slice(local, 1, start - 1), FALSE)
               /\ ColonAfter(local, 1, start - 1, removed) \o (IF start = 1 THEN <<Colon>> ELSE << >>)
                  = w \o <<Colon>>
    OBVIOUS
  <1>1. <<Colon>> \in Texts
    BY Punctuation, TextOps
  <1>2. CASE start = 1
    <2>1. start - 1 = 1 - 1 /\ 1 \in 1 .. 9
      BY <1>2
    <2>2. Slice(local, 1, 1 - 1) = << >> /\ ColonAfter(local, 1, 1 - 1, removed) = << >>
      BY <2>1, SliceOps, ColonSteps
    <2>3. w = << >>
      BY <1>2 DEF Lead
    <2> QED
      BY ONLY <1>2, <2>1, <2>2, <2>3 DEF Part
  <1>3. CASE start # 1
    <2>1. start - 1 \in 1 .. 8 /\ 1 \in 1 .. 8
      BY <1>3
    <2>2. w = Line(local, 1, start - 1, removed)
      BY <1>3 DEF Lead
    <2>3. Spelt(local, 1, start - 1, removed)
      BY <2>1, LineReads
    <2>4. Reads(w, Slice(local, 1, start - 1), FALSE) /\ ColonAfter(local, 1, start - 1, removed) = w \o <<Colon>>
      BY <2>2, <2>3 DEF Spelt
    <2>5. w \in Texts
      BY <2>4 DEF Reads, Shaped
    <2>6. w \o <<Colon>> \in Texts
      BY <1>1, <2>5, TextOps
    <2>7. (w \o <<Colon>>) \o << >> = w \o <<Colon>>
      BY <2>6, TextAssoc
    <2> QED
      BY ONLY <1>3, <2>4, <2>7 DEF Part
  <1> QED
    BY <1>2, <1>3

LEMMA TrailIs ==
    ASSUME NEW local \in EightGroups, NEW removed \in BOOLEAN, NEW next \in 1 .. 9
    PROVE  /\ Part(Trail(local, next, removed), Slice(local, next, 8), FALSE)
           /\ ColonBefore(local, next, 8, removed) \in Texts
           /\ ColonBefore(local, next, 8, removed) \o (IF next = 9 THEN <<Colon>> ELSE << >>)
                = <<Colon>> \o Trail(local, next, removed)
  <1> SUFFICES ASSUME NEW w, w = Trail(local, next, removed)
        PROVE  /\ Part(w, Slice(local, next, 8), FALSE)
               /\ ColonBefore(local, next, 8, removed) \in Texts
               /\ ColonBefore(local, next, 8, removed) \o (IF next = 9 THEN <<Colon>> ELSE << >>)
                  = <<Colon>> \o w
    OBVIOUS
  <1>1. <<Colon>> \in Texts
    BY Punctuation, TextOps
  <1>2. ColonBefore(local, next, 8, removed) \in Texts
    <2>1. 8 \in next - 1 .. 8
      OBVIOUS
    <2> QED
      BY <2>1, ColonSteps
  <1>3. CASE next = 9
    <2>1. 9 \in 1 .. 9 /\ 9 - 1 = 8
      OBVIOUS
    <2>2. Slice(local, 9, 9 - 1) = << >> /\ ColonBefore(local, 9, 9 - 1, removed) = << >>
      BY <2>1, SliceOps, ColonSteps
    <2>3. w = << >>
      BY <1>3 DEF Trail
    <2>4. <<Colon>> \o << >> = <<Colon>> /\ << >> \o <<Colon>> = <<Colon>>
      BY <1>1, TextAssoc
    <2> QED
      BY ONLY <1>2, <1>3, <2>1, <2>2, <2>3, <2>4 DEF Part
  <1>4. CASE next # 9
    <2>1. next \in 1 .. 8 /\ 8 \in next .. 8
      BY <1>4
    <2>2. w = Line(local, next, 8, removed)
      BY <1>4 DEF Trail
    <2>3. Spelt(local, next, 8, removed)
      BY <2>1, LineReads
    <2>4. Reads(w, Slice(local, next, 8), FALSE) /\ ColonBefore(local, next, 8, removed) = <<Colon>> \o w
      BY <2>2, <2>3 DEF Spelt
    <2>5. ColonBefore(local, next, 8, removed) \o << >> = ColonBefore(local, next, 8, removed)
      BY <1>2, TextAssoc
    <2> QED
      BY ONLY <1>2, <1>4, <2>4, <2>5 DEF Part
  <1> QED
    BY <1>3, <1>4

\* w is what follows the colon before group next, the quad q at its end.
MixedEnd(w, q, local, next, removed) ==
    /\ Part(w, Slice(local, next, 8), TRUE) /\ Reads(w, Slice(local, next, 8), TRUE)
    /\ ColonBefore(local, next, 6, removed) \in Texts
    /\ ColonBefore(local, next, 6, removed) \o <<Colon>> \o q = <<Colon>> \o w
    /\ next <= 6 => ColonAfter(local, next, 6, removed) \o q = w

LEMMA MixedTrailIs ==
    ASSUME NEW local \in EightGroups, NEW removed \in BOOLEAN, NEW next \in 1 .. 7,
           NEW q, Reads(q, Slice(local, 7, 8), TRUE), ~Contains(q, Colon), q \in Texts
    PROVE  MixedEnd(MixedTrail(local, next, removed, q), q, local, next, removed)
  <1> SUFFICES ASSUME NEW w, w = MixedTrail(local, next, removed, q)
               PROVE  MixedEnd(w, q, local, next, removed)
    OBVIOUS
  <1>1. <<Colon>> \in Texts
    BY Punctuation, TextOps
  <1>2. ColonBefore(local, next, 6, removed) \in Texts
    <2>1. 6 \in next - 1 .. 8 /\ next \in 1 .. 9
      OBVIOUS
    <2> QED
      BY <2>1, ColonSteps
  <1>3. CASE next = 7
    <2>1. 7 \in 1 .. 9 /\ 7 - 1 = 6
      OBVIOUS
    <2>2. ColonBefore(local, 7, 7 - 1, removed) = << >>
      BY <2>1, ColonSteps
    <2>3. w = q
      BY <1>3 DEF MixedTrail
    <2>4. << >> \o <<Colon>> = <<Colon>>
      BY <1>1, TextAssoc
    <2>5. ~(7 <= 6)
      OBVIOUS
    <2>6. Reads(w, Slice(local, next, 8), TRUE)
      BY <1>3, <2>3
    <2>7. ColonBefore(local, next, 6, removed) \o <<Colon>> \o q = <<Colon>> \o w
      BY ONLY <1>3, <2>1, <2>2, <2>3, <2>4
    <2> QED
      BY ONLY <1>2, <1>3, <2>5, <2>6, <2>7 DEF Part, MixedEnd
  <1>4. CASE next # 7
    <2>1. next \in 1 .. 8 /\ 6 \in next .. 8 /\ next \in 1 .. 9 /\ 6 \in next - 1 .. 8 /\ 8 \in 6 .. 8
      BY <1>4
    <2> DEFINE t == Line(local, next, 6, removed)
               colon == <<Colon>>
    <2>2. w = t \o colon \o q
      BY <1>4 DEF MixedTrail
    <2>3. Spelt(local, next, 6, removed)
      BY <2>1, LineReads
    <2>4. /\ Reads(t, Slice(local, next, 6), FALSE)
          /\ ColonBefore(local, next, 6, removed) = colon \o t
          /\ ColonAfter(local, next, 6, removed) = t \o colon
      BY <2>3 DEF Spelt
    <2>5. t \in Texts
      BY <2>4 DEF Reads, Shaped
    <2>6. Slice(local, next, 6) \o Slice(local, 6 + 1, 8) = Slice(local, next, 8)
      BY <2>1, SliceJoin
    <2>7. Slice(local, next, 6) \o Slice(local, 7, 8) = Slice(local, next, 8)
      <3>1. 6 + 1 = 7
        OBVIOUS
      <3> QED
        BY ONLY <2>6, <3>1
    <2>8. Reads(t \o colon \o q, Slice(local, next, 6) \o Slice(local, 7, 8), TRUE)
      <3>1. TRUE \in BOOLEAN
        OBVIOUS
      <3> QED
        BY <2>4, <3>1, JoinReads
    <2> HIDE DEF t, colon
    <2>9. Reads(w, Slice(local, next, 8), TRUE)
      BY ONLY <2>2, <2>7, <2>8
    <2>10. (colon \o t) \o colon \o q = colon \o (t \o colon \o q)
      <3>1. colon \in Texts
        BY <1>1 DEF colon
      <3>2. t \o colon \in Texts
        BY <2>5, <3>1, TextOps
      <3>3. (colon \o t) \o colon = colon \o (t \o colon)
        BY <2>5, <3>1, TextAssoc
      <3>4. (colon \o (t \o colon)) \o q = colon \o ((t \o colon) \o q)
        BY <3>1, <3>2, TextAssoc
      <3> QED
        BY ONLY <3>3, <3>4
    <2>11. ColonBefore(local, next, 6, removed) \o colon \o q = colon \o w
      BY ONLY <2>2, <2>4, <2>10
    <2>12. ColonAfter(local, next, 6, removed) \o q = w
      BY ONLY <2>2, <2>4
    <2> QED
      BY <1>2, <2>9, <2>11, <2>12 DEF Part, MixedEnd, colon
  <1> QED
    BY <1>3, <1>4

\* u is read as the address whose groups are local.
TextOf(u, local) == u \in Texts /\ u # << >> /\ Sealed(u) /\ V6FromString(u) = hton(local)

\* A text of eight groups.
LEMMA WholeReads ==
    ASSUME NEW local \in EightGroups, NEW u, NEW seen \in BOOLEAN, Reads(u, local, seen)
    PROVE  TextOf(u, local)
  <1>1. /\ local \in Seq(Words16) /\ Shaped(u, Len(local), seen)
        /\ Takes(u, local, seen) /\ Len(local) = 8
    BY DEF Reads, EightGroups, Indices
  <1>2. /\ u \in Texts /\ u # << >> /\ Sealed(u) /\ Apart(u, Colon, Colon)
        /\ Len(u) <= Most(Len(local), seen)
    BY <1>1 DEF Shaped
  <1>3. ~(Len(u) > MaxV6Text)
    <2>1. Most(8, TRUE) = 45 /\ Most(8, FALSE) = 39
      BY DEF Most
    <2>2. Len(u) \in Nat
      BY <1>2, TextOps
    <2>3. Len(u) <= 45
      <3>1. CASE seen = TRUE
        BY <1>1, <1>2, <2>1, <2>2, <3>1
      <3>2. CASE seen = FALSE
        <4>1. Len(u) <= 39
          BY <1>1, <1>2, <2>1, <2>2, <3>2
        <4> QED
          BY <2>2, <4>1
      <3> QED
        BY <3>1, <3>2
    <2> QED
      BY <2>2, <2>3 DEF MaxV6Text
  <1>4. SplitPair(u, Colon, Colon) = <<u>>
    BY <1>2, PairFree
  <1> DEFINE left == ReadSide(Start, u)
             sides == SplitPair(u, Colon, Colon)
  <1>5. left.ok /\ left.groups = local
    <2>1. Start \in States /\ Start.ok /\ ~Start.seen_ipv4 /\ Start.groups = << >>
      BY StateOps DEF Start
    <2>2. Len(<< >>) = 0 /\ 0 + 8 <= 8
      OBVIOUS
    <2>3. Room(Start, local)
      BY <1>1, <2>1, <2>2 DEF Room
    <2>4. << >> \o local = local
      BY <1>1, GroupsAssoc
    <2>5. left = Reading(local, seen)
      BY <1>1, <2>1, <2>3, <2>4 DEF Takes
    <2>6. local \in Groups
      <3>1. 8 <= 8
        OBVIOUS
      <3> QED
        BY ONLY <1>1, <3>1 DEF Groups
    <2> HIDE DEF left
    <2> QED
      BY <2>5, <2>6, StateOps
  <1>6. left = ReadSide(Start, sides[1]) /\ Len(sides) = 1
    BY <1>4
  <1>7. V6FromString(u) = hton(local)
    <2> DEFINE l == ReadSide(Start, sides[1])
               b == ReadSide(l, sides[2])
    <2>1. V6FromString(u) =
             IF u = << >> \/ Len(u) > MaxV6Text \/ ~l.ok
             THEN Invalid
             ELSE IF Len(sides) = 1
             THEN IF Len(l.groups) = 8 THEN hton(l.groups) ELSE Invalid
             ELSE IF Len(sides) = 2 /\ ~l.seen_ipv4 /\ b.ok /\ RoomForZeros(l.groups, b.groups)
                  THEN hton(CloseGap(l.groups, b.groups))
                  ELSE Invalid
      BY DEF V6FromString
    <2>2. l = left
      BY <1>6
    <2> HIDE DEF left, l, b, sides
    <2> QED
      BY ONLY <1>1, <1>2, <1>3, <1>5, <1>6, <2>1, <2>2
  <1> QED
    BY <1>2, <1>7 DEF TextOf

LEMMA TwoColons == <<Colon>> \o <<Colon>> = <<Colon, Colon>>
  <1>1. Colon \in Chars /\ <<Colon>> \in Seq(Chars)
    BY Punctuation, TextOps DEF Texts
  <1>2. Append(<<Colon>>, Colon) = <<Colon>> \o <<Colon>>
    BY ONLY <1>1, AppendIsConcat
  <1>3. Append(<<Colon>>, Colon) = <<Colon, Colon>>
    BY ONLY <1>1, TwoOf
  <1> QED
    BY ONLY <1>2, <1>3

LEMMA GapText ==
    ASSUME NEW local \in EightGroups, NEW start \in 1 .. 9, NEW next \in start + 2 .. 9,
           ZeroRun(local, start, next),
           NEW lt, Part(lt, Slice(local, 1, start - 1), FALSE),
           NEW rt, NEW seen \in BOOLEAN, Part(rt, Slice(local, next, 8), seen)
    PROVE  TextOf((lt \o <<Colon>>) \o (<<Colon>> \o rt), local)
  <1> SUFFICES ASSUME NEW u, u = (lt \o <<Colon>>) \o (<<Colon>> \o rt)
        PROVE  TextOf(u, local)
    OBVIOUS
  <1> DEFINE gl == Slice(local, 1, start - 1)
             gr == Slice(local, next, 8)
  <1>1. Len(gl) + Len(gr) <= 7 /\ CloseGap(gl, gl \o gr) = local
    BY GapGroups
  <1>2. lt \in Texts /\ rt \in Texts
    BY PartIs
  <1>3. u = lt \o <<Colon, Colon>> \o rt
    <2> DEFINE c == <<Colon>>
    <2>1. c \in Texts /\ <<Colon>> \o <<Colon>> = <<Colon, Colon>>
      <3>1. <<Colon>> \in Texts
        BY Punctuation, TextOps
      <3>2. <<Colon>> \o <<Colon>> = <<Colon, Colon>>
        BY TwoColons
      <3> QED
        BY <3>1, <3>2
    <2> HIDE DEF c
    <2>2. c \o rt \in Texts /\ lt \o c \in Texts
      BY <1>2, <2>1, TextOps
    <2>3. (lt \o c) \o (c \o rt) = ((lt \o c) \o c) \o rt
      BY <1>2, <2>1, <2>2, TextAssoc
    <2>4. (lt \o c) \o c = lt \o (c \o c)
      BY <1>2, <2>1, TextAssoc
    <2> QED
      BY <2>1, <2>3, <2>4 DEF c
  <1> HIDE DEF gl, gr
  <1>4. /\ u \in Texts /\ u # << >> /\ Sealed(u)
        /\ V6FromString(u) = hton(CloseGap(gl, gl \o gr))
    <2>1. Part(lt, gl, FALSE) /\ Part(rt, gr, seen)
      BY DEF gl, gr
    <2>2. seen \in BOOLEAN /\ Fitting(gl, rt, gr)
      BY <1>1 DEF Fitting
    <2> QED
      BY ONLY <1>3, <2>1, <2>2, GapReads
  <1> QED
    BY <1>1, <1>4 DEF TextOf

LEMMA FullReads ==
    ASSUME NEW local \in EightGroups, NEW removed \in BOOLEAN
    PROVE  TextOf(full_ipv6(local, removed), local)
  <1>1. Spelt(local, 1, 8, removed)
    <2>1. 1 \in 1 .. 8 /\ 8 \in 1 .. 8
      OBVIOUS
    <2> QED
      BY <2>1, LineReads
  <1>2. full_ipv6(local, removed) = Line(local, 1, 8, removed)
    <2>1. 1 + 1 = 2
      OBVIOUS
    <2> QED
      BY <2>1 DEF full_ipv6, Line
  <1>3. Reads(full_ipv6(local, removed), local, FALSE)
    BY <1>1, <1>2, SliceAll DEF Spelt
  <1> QED
    BY <1>3, WholeReads

\* Where the gap of a compressed text is: its run of zeros has two groups or more.
LEMMA RunPlace ==
    ASSUME NEW local \in EightGroups, NEW n \in {6, 8}, NEW best, best = BestRun(local, n),
           ~(best.best_len < 2), NEW start, start = best.best_start,
           NEW next, next = start + best.best_len
    PROVE  /\ start \in 1 .. 9 /\ next \in start + 2 .. 9 /\ next \in 1 .. n + 1
           /\ ZeroRun(local, start, next)
           /\ start = 1 /\ best.best_len = n => next = n + 1
  <1>1. n \in 0 .. 8 /\ n \in Nat
    OBVIOUS
  <1>2. GoodRun(best, n, local)
    BY <1>1, BestRunIs DEF TopRun
  <1>3. /\ best \in Runs /\ start >= 1 /\ next <= n + 1
        /\ \A k \in 1 .. n : start <= k /\ k < next => local[k] = 0
    BY <1>2 DEF GoodRun
  <1>4. start \in Nat /\ best.best_len \in Nat
    BY <1>3 DEF Runs
  <1>5. ZeroRun(local, start, next)
    BY <1>3, <1>4 DEF ZeroRun
  <1> QED
    BY <1>3, <1>4, <1>5

\* A run of two groups or more is left out: what is printed around it.
Shortened(u, local, start, next, removed) ==
    /\ Part(Lead(local, start, removed), Slice(local, 1, start - 1), FALSE)
    /\ Part(Trail(local, next, removed), Slice(local, next, 8), FALSE)
    /\ u = (Lead(local, start, removed) \o <<Colon>>) \o (<<Colon>> \o Trail(local, next, removed))

LEMMA CompressedIs ==
    ASSUME NEW local \in EightGroups, NEW removed \in BOOLEAN, NEW best, best = BestRun(local, 8),
           ~(best.best_len < 2), NEW start, start = best.best_start,
           NEW next, next = start + best.best_len
    PROVE  Shortened(compressed_ipv6(local, removed, FALSE), local, start, next, removed)
  <1> SUFFICES ASSUME NEW lt, lt = Lead(local, start, removed), NEW rt, rt = Trail(local, next, removed)
               PROVE  /\ Part(lt, Slice(local, 1, start - 1), FALSE) /\ Part(rt, Slice(local, next, 8), FALSE)
                      /\ compressed_ipv6(local, removed, FALSE) = (lt \o <<Colon>>) \o (<<Colon>> \o rt)
    BY DEF Shortened
  <1> DEFINE len == best.best_len
             u == compressed_ipv6(local, removed, FALSE)
             pre == ColonAfter(local, 1, start - 1, removed) \o (IF start = 1 THEN <<Colon>> ELSE << >>)
             bef == ColonBefore(local, next, 8, removed)
             post == IF next = 9 THEN <<Colon>> ELSE << >>
             v == (lt \o <<Colon>>) \o (<<Colon>> \o rt)
  <1>1. u = IF len < 2 THEN full_ipv6(local, removed)
            ELSE IF start = 1 /\ len = 8 THEN <<Colon, Colon>>
            ELSE (pre \o bef) \o post
    <2>1. 8 + 1 = 9
      OBVIOUS
    <2> QED
      BY <2>1 DEF compressed_ipv6
  <1>2. /\ start \in 1 .. 9 /\ next \in start + 2 .. 9 /\ next \in 1 .. 8 + 1
        /\ start = 1 /\ len = 8 => next = 8 + 1
    BY RunPlace
  <1>3. ~(len < 2)
    OBVIOUS
  <1> HIDE DEF len
  <1>4. next \in 1 .. 9
    BY <1>2
  <1>5. Part(lt, Slice(local, 1, start - 1), FALSE) /\ pre = lt \o <<Colon>>
    BY <1>2, LeadIs
  <1>6. Part(rt, Slice(local, next, 8), FALSE) /\ bef \in Texts /\ bef \o post = <<Colon>> \o rt
    BY <1>4, TrailIs
  <1>7. lt \in Texts /\ rt \in Texts
    <2>1. FALSE \in BOOLEAN /\ Part(lt, Slice(local, 1, start - 1), FALSE)
          /\ Part(rt, Slice(local, next, 8), FALSE)
      BY <1>5, <1>6
    <2> QED
      BY ONLY <2>1, PartIs
  <1>8. CASE start = 1 /\ len = 8
    <2>1. lt = << >> /\ rt = << >>
      BY <1>2, <1>8 DEF Lead, Trail
    <2>2. v = <<Colon, Colon>>
      <3>1. <<Colon>> \in Texts
        BY Punctuation, TextOps
      <3>2. << >> \o <<Colon>> = <<Colon>> /\ <<Colon>> \o << >> = <<Colon>>
        BY <3>1, TextAssoc
      <3>3. <<Colon>> \o <<Colon>> = <<Colon, Colon>>
        BY TwoColons
      <3> QED
        BY ONLY <2>1, <3>2, <3>3
    <2> HIDE DEF u, v, pre, bef, post
    <2>3. u = v
      BY ONLY <1>1, <1>3, <1>8, <2>2
    <2> QED
      BY <1>5, <1>6, <2>3 DEF u, v
  <1>9. CASE ~(start = 1 /\ len = 8)
    <2>1. post \in Texts /\ <<Colon>> \in Texts
      BY Punctuation, TextOps
    <2> HIDE DEF pre, bef, post
    <2>2. pre \in Texts
      BY <1>5, <1>7, <2>1, TextOps
    <2>3. (pre \o bef) \o post = pre \o (bef \o post)
      BY <1>6, <2>1, <2>2, TextAssoc
    <2>4. (pre \o bef) \o post = v
      BY ONLY <1>5, <1>6, <2>3
    <2> HIDE DEF u, v
    <2>5. u = v
      BY ONLY <1>1, <1>3, <1>9, <2>4
    <2> QED
      BY <1>5, <1>6, <2>5 DEF u, v
  <1> QED
    BY <1>8, <1>9

LEMMA CompressedReads ==
    ASSUME NEW local \in EightGroups, NEW removed \in BOOLEAN
    PROVE  TextOf(compressed_ipv6(local, removed, FALSE), local)
  <1> DEFINE best == BestRun(local, 8)
             start == best.best_start
             next == start + best.best_len
             lt == Lead(local, start, removed)
             rt == Trail(local, next, removed)
             u == compressed_ipv6(local, removed, FALSE)
  <1>1. CASE best.best_len < 2
    <2>1. u = full_ipv6(local, removed)
      BY <1>1 DEF compressed_ipv6
    <2> QED
      BY <2>1, FullReads
  <1>2. CASE ~(best.best_len < 2)
    <2>1. /\ Part(lt, Slice(local, 1, start - 1), FALSE) /\ Part(rt, Slice(local, next, 8), FALSE)
          /\ u = (lt \o <<Colon>>) \o (<<Colon>> \o rt)
      <3>1. Shortened(u, local, start, next, removed)
        BY <1>2, CompressedIs
      <3> QED
        BY ONLY <3>1 DEF Shortened, lt, rt
    <2>2. start \in 1 .. 9 /\ next \in start + 2 .. 9 /\ ZeroRun(local, start, next)
      BY <1>2, RunPlace
    <2> HIDE DEF best, start, next, lt, rt, u
    <2>3. TextOf(u, local)
      BY <2>1, <2>2, GapText
    <2> QED
      BY <2>3 DEF u
  <1> QED
    BY <1>1, <1>2

\* The forms that end with a dotted quad.
LEMMA MixedReads ==
    ASSUME NEW local \in EightGroups, NEW removed \in BOOLEAN,
           NEW q, Reads(q, Slice(local, 7, 8), TRUE), ~Contains(q, Colon), q \in Texts
    PROVE  /\ TextOf(mixed_full_ipv6(local, removed) \o q, local)
           /\ TextOf(compressed_ipv6(local, removed, TRUE) \o q, local)
  <1> DEFINE best == BestRun(local, 6)
             start == best.best_start
             len == best.best_len
             next == start + len
             u == compressed_ipv6(local, removed, TRUE)
             pre == ColonAfter(local, 1, start - 1, removed) \o (IF start = 1 THEN <<Colon>> ELSE << >>)
             bef == ColonBefore(local, next, 6, removed)
             lt == Lead(local, start, removed)
             rt == MixedTrail(local, next, removed, q)
             v == (lt \o <<Colon>>) \o (<<Colon>> \o rt)
             colon == <<Colon>>
  <1>1. colon \in Texts
    BY Punctuation, TextOps
  <1>2. TextOf(mixed_full_ipv6(local, removed) \o q, local)
    <2>1. 1 \in 1 .. 7 /\ 1 <= 6
      OBVIOUS
    <2> DEFINE w == MixedTrail(local, 1, removed, q)
    <2>2. MixedEnd(w, q, local, 1, removed)
      BY <2>1, MixedTrailIs
    <2> HIDE DEF w
    <2>3. Reads(w, Slice(local, 1, 8), TRUE) /\ ColonAfter(local, 1, 6, removed) \o q = w
      BY <2>1, <2>2 DEF MixedEnd
    <2>4. Reads(w, local, TRUE) /\ TRUE \in BOOLEAN
      BY <2>3, SliceAll
    <2>5. TextOf(w, local)
      BY <2>4, WholeReads
    <2> QED
      BY <2>3, <2>5 DEF mixed_full_ipv6
  <1>3. u = IF len < 2 THEN mixed_full_ipv6(local, removed)
            ELSE IF start = 1 /\ len = 6 THEN <<Colon, Colon>>
            ELSE (pre \o bef) \o colon
    BY DEF compressed_ipv6
  <1>4. CASE len < 2
    BY <1>2, <1>3, <1>4
  <1>5. CASE ~(len < 2)
    <2>1. /\ start \in 1 .. 9 /\ next \in start + 2 .. 9 /\ next \in 1 .. 6 + 1
          /\ ZeroRun(local, start, next)
          /\ start = 1 /\ len = 6 => next = 6 + 1
      BY <1>5, RunPlace
    <2> HIDE DEF best, start, len, next
    <2>2. next \in 1 .. 7
      BY <2>1
    <2>3. Part(lt, Slice(local, 1, start - 1), FALSE) /\ pre = lt \o colon
      BY ONLY <2>1, local \in EightGroups, removed \in BOOLEAN, LeadIs
    <2>4. MixedEnd(rt, q, local, next, removed)
      BY <2>2, MixedTrailIs
    <2>5. /\ Part(rt, Slice(local, next, 8), TRUE) /\ bef \in Texts
          /\ (bef \o colon) \o q = colon \o rt
      BY <2>4 DEF MixedEnd
    <2>6. TRUE \in BOOLEAN /\ FALSE \in BOOLEAN
      OBVIOUS
    <2>7. lt \in Texts /\ rt \in Texts
      BY <2>3, <2>5, <2>6, PartIs
    <2>8. TextOf(v, local)
      BY <2>1, <2>3, <2>5, <2>6, GapText
    <2>9. CASE start = 1 /\ len = 6
      <3>1. lt = << >> /\ rt = q
        BY <2>1, <2>9 DEF Lead, MixedTrail
      <3>2. v = <<Colon, Colon>> \o q
        <4> HIDE DEF lt, rt, colon
        <4>1. << >> \o colon = colon
          BY <1>1, TextAssoc
        <4>2. (colon \o colon) \o q = colon \o (colon \o q)
          BY <1>1, TextAssoc
        <4>3. colon \o colon = <<Colon, Colon>>
          BY TwoColons DEF colon
        <4>4. v = (lt \o colon) \o (colon \o rt)
          BY DEF colon
        <4> QED
          BY ONLY <3>1, <4>1, <4>2, <4>3, <4>4
      <3> HIDE DEF u, v, pre, bef, colon, lt, rt
      <3>3. u = <<Colon, Colon>>
        BY ONLY <1>3, <1>5, <2>9
      <3> QED
        BY ONLY <1>2, <2>8, <3>2, <3>3 DEF u
    <2>10. CASE ~(start = 1 /\ len = 6)
      <3> HIDE DEF pre, bef, lt, rt, colon
      <3>1. pre \in Texts
        BY <1>1, <2>3, <2>7, TextOps
      <3>2. pre \o bef \in Texts /\ bef \o colon \in Texts
        BY <1>1, <2>5, <3>1, TextOps
      <3>3. (pre \o bef) \o colon = pre \o (bef \o colon)
        BY <1>1, <2>5, <3>1, TextAssoc
      <3>4. (pre \o (bef \o colon)) \o q = pre \o ((bef \o colon) \o q)
        BY <3>1, <3>2, TextAssoc
      <3>5. v = (lt \o colon) \o (colon \o rt)
        BY DEF colon
      <3>6. u = (pre \o bef) \o colon
        BY <1>3, <1>5, <2>10
      <3> HIDE DEF u, v
      <3>7. u \o q = v
        BY ONLY <2>3, <2>5, <3>3, <3>4, <3>5, <3>6
      <3> QED
        BY ONLY <1>2, <2>8, <3>7 DEF u
    <2> QED
      BY <2>9, <2>10
  <1> QED
    BY <1>4, <1>5

\* An IPv6 address, printed with any specification, is read back.
LEMMA V6Text ==
    ASSUME NEW a \in [1 .. 8 -> Words16], NEW spec, NEW u, u = FormatV6(a, spec)
    PROVE  u \in Texts /\ u # << >> /\ Sealed(u) /\ V6FromString(u) = a
  <1> DEFINE local == hton(a)
             seen == Seen(spec)
             removed == "z" \notin seen
             mixed == IF "r" \in seen THEN "n" \notin seen /\ check_mixed(local) ELSE "m" \in seen
             q == ipv4_part(a)
  <1>1. local \in EightGroups /\ \A i \in 1 .. 8 : local[i] = hton_16(a[i])
    <2>1. \A i \in 1 .. 8 : hton_16(a[i]) \in Words16
      BY Htons
    <2>2. local = [i \in 1 .. 8 |-> hton_16(a[i])]
      BY DEF hton
    <2> HIDE DEF local
    <2> QED
      BY <2>1, <2>2 DEF EightGroups, Indices
  <1>2. hton(local) = a
    <2>1. hton(local) = [i \in 1 .. 8 |-> hton_16(local[i])]
      BY <1>1 DEF hton, EightGroups, Indices
    <2> HIDE DEF local
    <2>2. \A i \in 1 .. 8 : hton_16(local[i]) = a[i]
      BY <1>1, Htons
    <2>3. a = [i \in 1 .. 8 |-> a[i]]
      OBVIOUS
    <2> QED
      BY <2>1, <2>2, <2>3
  <1>3. Reads(q, Slice(local, 7, 8), TRUE) /\ ~Contains(q, Colon) /\ q \in Texts
    <2>1. a[7] \in Words16 /\ a[8] \in Words16 /\ q = FormatV4(Octets(a[7]) \o Octets(a[8]))
      BY DEF ipv4_part
    <2>2. Reads(q, <<hton_16(a[7]), hton_16(a[8])>>, TRUE) /\ ~Contains(q, Colon) /\ q \in Texts
      BY <2>1, QuadReads
    <2> HIDE DEF local, q
    <2>3. Slice(local, 7, 8) = <<hton_16(a[7]), hton_16(a[8])>>
      BY <1>1, SliceAll
    <2> QED
      BY <2>2, <2>3
  <1>4. removed \in BOOLEAN
    OBVIOUS
  <1>5. mixed \in BOOLEAN
    <2> HIDE DEF local, seen
    <2>1. check_mixed(local) \in BOOLEAN
      BY ONLY DEF check_mixed
    <2>2. ("n" \notin seen /\ check_mixed(local)) \in BOOLEAN /\ ("m" \in seen) \in BOOLEAN
      BY ONLY <2>1
    <2>3. CASE "r" \in seen
      <3>1. mixed = ("n" \notin seen /\ check_mixed(local))
        BY ONLY <2>3, Zenon
      <3> QED
        BY ONLY <2>2, <3>1, Zenon
    <2>4. CASE ~("r" \in seen)
      <3>1. mixed = ("m" \in seen)
        BY ONLY <2>4, Zenon
      <3> QED
        BY ONLY <2>2, <3>1, Zenon
    <2> QED
      BY ONLY <2>3, <2>4, Zenon
  <1>6. u = LET groups == IF "f" \in seen
                          THEN IF mixed THEN mixed_full_ipv6(local, removed) ELSE full_ipv6(local, removed)
                          ELSE compressed_ipv6(local, removed, mixed)
            IN  IF mixed THEN groups \o q ELSE groups
    BY DEF FormatV6
  <1> HIDE DEF local, seen, removed, mixed, q
  <1>7. CASE mixed = TRUE
    <2>1. u = mixed_full_ipv6(local, removed) \o q \/ u = compressed_ipv6(local, removed, TRUE) \o q
      BY <1>6, <1>7
    <2>2. TextOf(u, local)
      BY <1>1, <1>3, <1>4, <2>1, MixedReads
    <2> QED
      BY <1>2, <2>2 DEF TextOf
  <1>8. CASE mixed = FALSE
    <2>1. u = full_ipv6(local, removed) \/ u = compressed_ipv6(local, removed, FALSE)
      BY <1>6, <1>8
    <2>2. TextOf(u, local)
      BY <1>1, <1>4, <2>1, FullReads, CompressedReads
    <2> QED
      BY <1>2, <2>2 DEF TextOf
  <1> QED
    BY <1>5, <1>7, <1>8

-----------------------------------------------------------------------------
(* Every class: what from_string returns, and what is printed of it.         *)

Values(k) ==
    CASE k = "address_v4" -> [1 .. 4 -> Bytes]
      [] k = "address_v6" -> [1 .. 8 -> Words16]
      [] k = "port" -> [1 .. 1 -> Words16]
      [] k = "socket_v4_info" -> [1 .. 4 -> Bytes] \X [1 .. 1 -> Words16]
      [] k = "socket_v6_info" -> [1 .. 8 -> Words16] \X [1 .. 1 -> Words16]

\* What from_string returns has the shape of its class.
LEMMA ValueShape ==
    ASSUME NEW k \in ClassNames, NEW s \in Texts, FromString(k, s) # Invalid
    PROVE  FromString(k, s) \in Values(k)
  <1>1. CASE k = "address_v4"
    BY <1>1, V4Ok DEF FromString, Values
  <1>2. CASE k = "address_v6"
    <2>1. FromString(k, s) = V6FromString(s)
      BY <1>2 DEF FromString
    <2>2. V6FromString(s) \in [1 .. 8 -> Words16]
      BY <2>1, V6Ok
    <2>3. Values(k) = [1 .. 8 -> Words16]
      BY <1>2 DEF Values
    <2> QED
      BY ONLY <2>1, <2>2, <2>3
  <1>3. CASE k = "port"
    BY <1>3, PortOk DEF FromString, Values
  <1>4. CASE k = "socket_v4_info"
    <2> DEFINE p == SockV4Parts(s)
    <2>1. FromString(k, s) = SockV4FromString(s)
      BY <1>4 DEF FromString
    <2>2. /\ p[1] \in Texts /\ p[2] \in Texts
          /\ V4FromString(p[1]) # Invalid /\ PortFromString(p[2]) # Invalid
          /\ SockV4FromString(s) = <<V4FromString(p[1]), PortFromString(p[2])>>
      BY <2>1, SockV4Ok
    <2> HIDE DEF p
    <2>3. V4FromString(p[1]) \in [1 .. 4 -> Bytes] /\ PortFromString(p[2]) \in [1 .. 1 -> Words16]
      BY <2>2, V4Ok, PortOk
    <2>4. Values(k) = [1 .. 4 -> Bytes] \X [1 .. 1 -> Words16]
      BY <1>4 DEF Values
    <2> QED
      BY ONLY <2>1, <2>2, <2>3, <2>4
  <1>5. CASE k = "socket_v6_info"
    <2> DEFINE p == SockV6Parts(s)
    <2>1. FromString(k, s) = SockV6FromString(s)
      BY <1>5 DEF FromString
    <2>2. /\ p[1] \in Texts /\ p[2] \in Texts
          /\ V6FromString(p[1]) # Invalid /\ PortFromString(p[2]) # Invalid
          /\ SockV6FromString(s) = <<V6FromString(p[1]), PortFromString(p[2])>>
      BY <2>1, SockV6Ok
    <2> HIDE DEF p
    <2>3. V6FromString(p[1]) \in [1 .. 8 -> Words16] /\ PortFromString(p[2]) \in [1 .. 1 -> Words16]
      BY <2>2, V6Ok, PortOk
    <2>4. Values(k) = [1 .. 8 -> Words16] \X [1 .. 1 -> Words16]
      BY <1>5 DEF Values
    <2> QED
      BY ONLY <2>1, <2>2, <2>3, <2>4
  <1> QED
    BY <1>1, <1>2, <1>3, <1>4, <1>5 DEF ClassNames

\* A text with one separator is split in two.
LEMMA SplitOnce ==
    ASSUME NEW t \in Texts, NEW sep \in Chars, NEW w \in Texts, ~Contains(t, sep), ~Contains(w, sep)
    PROVE  Split(t \o <<sep>> \o w, sep) = <<t, w>>
  <1>1. Split(t, sep) = <<t>>
    BY SplitFree
  <1>2. Split(t \o <<sep>> \o w, sep) = Append(<<t>>, w)
    BY <1>1, SplitAfter
  <1> QED
    BY <1>2, TwoOf

LEMMA FreeApart ==
    ASSUME NEW w \in Texts, NEW c1, NEW c2, ~Contains(w, c1)
    PROVE  Apart(w, c1, c2)
  <1>1. Len(w) \in Nat /\ DOMAIN w = 1 .. Len(w)
    BY TextOps
  <1>2. \A i \in 1 .. Len(w) - 1 : i \in 1 .. Len(w)
    BY <1>1
  <1> QED
    BY <1>1, <1>2 DEF Apart, Contains

\* The two parts of a socket address are read one by one.
LEMMA PairReads ==
    ASSUME NEW a, a # Invalid, NEW t, NEW w, PortFromString(w) # Invalid, NEW p, p = <<t, w>>
    PROVE  ReadPair(p, a) = <<a, PortFromString(w)>>
  <1>1. Len(p) = 2 /\ p[2] = w
    OBVIOUS
  <1> QED
    BY <1>1 DEF ReadPair

LEMMA SockV4Reads ==
    ASSUME NEW a \in [1 .. 4 -> Bytes], NEW p \in [1 .. 1 -> Words16], NEW sep \in {Colon, Slash},
           NEW s, s = FormatV4(a) \o <<sep>> \o FormatPort(p)
    PROVE  s \in Texts /\ SockV4FromString(s) = <<a, p>>
  <1> DEFINE t == FormatV4(a)
             w == FormatPort(p)
  <1>1. t \in Texts /\ \A ch \in 16 .. Other : ch # Dot => ~Contains(t, ch)
    BY V4Text
  <1>2. /\ w \in Texts /\ PortFromString(w) = p /\ p # Invalid
        /\ \A ch \in 16 .. Other : ~Contains(w, ch)
    BY PortText
  <1>3. V4FromString(t) = a
    BY V4ReadsBack
  <1>4. a # Invalid
    <2>1. 1 \in DOMAIN a /\ DOMAIN Invalid = {}
      BY DEF Invalid
    <2> QED
      BY <2>1
  <1> HIDE DEF t, w
  <1>5. ~Contains(t, Colon) /\ ~Contains(t, Slash) /\ ~Contains(w, Colon) /\ ~Contains(w, Slash)
    BY <1>1, <1>2, Punctuation
  <1>6. sep \in Chars /\ s = t \o <<sep>> \o w
    BY Punctuation DEF t, w
  <1>7. Joined(s, t, sep, w)
    BY <1>1, <1>2, <1>6, JoinOps
  <1>8. s \in Texts /\ (Contains(s, Colon) <=> sep = Colon)
    BY <1>5, <1>7 DEF Joined
  <1>9. sep = IF Contains(s, Colon) THEN Colon ELSE Slash
    BY <1>8
  <1>10. Split(s, sep) = <<t, w>>
    BY <1>1, <1>2, <1>5, <1>6, SplitOnce
  <1>11. SockV4FromString(s) = ReadPair(<<t, w>>, V4FromString(<<t, w>>[1]))
    BY <1>9, <1>10 DEF SockV4FromString
  <1>12. <<t, w>>[1] = t
    OBVIOUS
  <1>13. ReadPair(<<t, w>>, a) = <<a, p>>
    BY <1>2, <1>4, PairReads
  <1> QED
    BY ONLY <1>3, <1>8, <1>11, <1>12, <1>13

\* The head and the rest of a text that begins with c.
LEMMA TailOf ==
    ASSUME NEW c \in Chars, NEW t \in Texts
    PROVE  Head(<<c>> \o t) = c /\ Tail(<<c>> \o t) = t
  <1> SUFFICES ASSUME NEW one \in Texts, Len(one) = 1, one[1] = c, one = <<c>>
               PROVE  Head(one \o t) = c /\ Tail(one \o t) = t
    BY TextOps
  <1> SUFFICES ASSUME NEW u, u = one \o t
               PROVE  Head(u) = c /\ Tail(u) = t
    OBVIOUS
  <1>1. /\ u \in Texts /\ Len(u) = Len(one) + Len(t)
        /\ \A i \in 1 .. Len(one) : u[i] = one[i]
        /\ \A i \in 1 .. Len(t) : u[Len(one) + i] = t[i]
    BY TextOps
  <1>2. Len(t) \in Nat
    BY TextOps
  <1>3. /\ Len(u) = 1 + Len(t) /\ u[1] = c
        /\ \A i \in 1 .. Len(t) : u[1 + i] = t[i]
    BY ONLY Len(one) = 1, one[1] = c, <1>1, <1>2
  <1>4. u # << >> /\ Head(u) = c
    <2>1. Len(<< >>) = 0
      OBVIOUS
    <2>2. u # << >>
      BY ONLY <1>2, <1>3, <2>1
    <2> QED
      BY ONLY <1>3, <2>2
  <1>5. /\ Tail(u) \in Texts /\ Len(Tail(u)) = Len(u) - 1
        /\ \A i \in 1 .. Len(Tail(u)) : Tail(u)[i] = u[i + 1]
    BY <1>1, <1>4, HeadTailProperties DEF Texts
  <1>6. Tail(u) = t
    <2> SUFFICES ASSUME NEW r \in Texts, Len(r) = Len(u) - 1,
                        \A i \in 1 .. Len(r) : r[i] = u[i + 1]
                 PROVE  r = t
      BY <1>5
    <2>1. Len(r) = Len(t)
      BY <1>2, <1>3
    <2>2. ASSUME NEW i \in 1 .. Len(r) PROVE r[i] = t[i]
      <3>1. i \in 1 .. Len(t) /\ i + 1 = 1 + i
        BY <1>2, <2>1
      <3> QED
        BY ONLY <1>3, <3>1, \A k \in 1 .. Len(r) : r[k] = u[k + 1], <2>2
    <2> QED
      BY ONLY <2>1, <2>2, r \in Texts, t \in Texts, SameText
  <1> QED
    BY <1>4, <1>6

\* A socket address with brackets is taken apart at "]:", before and after
\* its bracket is dropped.
LEMMA BracketedParts ==
    ASSUME NEW t \in Texts, Sealed(t), NEW w \in Texts, ~Contains(w, Close),
           NEW s, s = <<Open>> \o t \o <<Close, Colon>> \o w
    PROVE  /\ s \in Texts /\ Len(SplitPair(s, Close, Colon)) > 1
           /\ Head(s) = Open /\ SockV6Parts(s) = <<t, w>>
  <1> SUFFICES ASSUME NEW one \in Texts, one = <<Open>>, NEW two \in Texts, two = <<Close, Colon>>
               PROVE  /\ s \in Texts /\ Len(SplitPair(s, Close, Colon)) > 1
                      /\ Head(s) = Open /\ SockV6Parts(s) = <<t, w>>
    <2>1. <<Open>> \in Texts
      BY Punctuation, TextOps
    <2>2. <<Close, Colon>> \in Texts
      BY Punctuation DEF Texts
    <2> QED
      BY <2>1, <2>2
  <1> DEFINE ot == one \o t
             tail == t \o two \o w
  <1>1. /\ ot \in Texts /\ tail \in Texts /\ t \o two \in Texts /\ ot \o two \in Texts
        /\ ot \o two \o w \in Texts
    BY TextOps
  <1>2. s = ot \o two \o w /\ s = one \o tail
    <2>1. s = ot \o two \o w
      OBVIOUS
    <2>2. ot \o two = one \o (t \o two)
      BY TextAssoc
    <2>3. (one \o (t \o two)) \o w = one \o tail
      <3> DEFINE m == t \o two
      <3>1. m \in Texts /\ one \in Texts /\ w \in Texts
        BY <1>1
      <3> HIDE DEF m
      <3>2. (one \o m) \o w = one \o (m \o w)
        BY ONLY <3>1, TextAssoc
      <3> QED
        BY ONLY <3>2 DEF m
    <2> QED
      BY ONLY <2>1, <2>2, <2>3
  <1>3. Head(s) = Open /\ Tail(s) = tail
    BY <1>1, <1>2, Punctuation, TailOf, ZenonT(40)
  <1>4. ~Contains(t, Close) /\ ~Contains(ot, Close)
    <2>1. ~Contains(one, Close)
      BY ContainsOps, Punctuation
    <2> QED
      BY <2>1, ContainsOps DEF Sealed
  <1>5. ASSUME NEW x \in Texts, ~Contains(x, Close)
        PROVE  SplitPair(x \o <<Close, Colon>> \o w, Close, Colon) = <<x, w>>
    <2>1. Apart(x, Close, Colon)
      BY <1>5, FreeApart
    <2>2. Apart(Append(x, Close), Close, Colon)
      BY <1>5, <2>1, Punctuation, ApartAppend
    <2>3. Apart(w, Close, Colon)
      BY FreeApart
    <2>4. Close \in Chars /\ Colon \in Chars
      BY Punctuation
    <2> QED
      BY ONLY <2>2, <2>3, <2>4, x \in Texts, w \in Texts, PairBetween
  <1>6. SplitPair(ot \o two \o w, Close, Colon) = <<ot, w>>
    <2> HIDE DEF ot
    <2>1. ot \in Texts /\ ~Contains(ot, Close)
      BY <1>1, <1>4
    <2> QED
      BY ONLY <1>5, <2>1, two = <<Close, Colon>>
  <1>7. SplitPair(s, Close, Colon) = <<ot, w>>
    BY ONLY <1>2, <1>6
  <1>8. SplitPair(tail, Close, Colon) = <<t, w>>
    BY ONLY <1>4, <1>5, t \in Texts, two = <<Close, Colon>>
  <1> HIDE DEF ot, tail
  <1>9. Len(<<ot, w>>) > 1
    OBVIOUS
  <1>10. s \in Texts
    BY <1>1, <1>2
  <1> QED
    BY <1>3, <1>7, <1>8, <1>9, <1>10 DEF SockV6Parts

\* One without brackets is taken apart at its slash or hash sign.
LEMMA PlainParts ==
    ASSUME NEW t \in Texts, Sealed(t), NEW w \in Texts, NEW sep \in {Slash, Hash},
           \A ch \in 16 .. Other : ~Contains(w, ch),
           NEW s, s = t \o <<sep>> \o w
    PROVE  /\ s \in Texts /\ ~(Len(SplitPair(s, Close, Colon)) > 1)
           /\ SockV6Parts(s) = <<t, w>>
  <1>1. /\ sep \in Chars /\ sep # Close /\ (sep = Slash \/ sep = Hash) /\ Slash # Hash
        /\ ~Contains(w, Close) /\ ~Contains(w, Slash) /\ ~Contains(w, Hash)
    BY Punctuation
  <1>2. ~Contains(t, Close) /\ ~Contains(t, Slash) /\ ~Contains(t, Hash)
    BY DEF Sealed
  <1>3. Joined(s, t, sep, w)
    BY <1>1, JoinOps
  <1>4. s \in Texts /\ ~Contains(s, Close) /\ (Contains(s, Slash) <=> sep = Slash)
    BY <1>1, <1>2, <1>3 DEF Joined
  <1>5. SplitPair(s, Close, Colon) = <<s>>
    <2>1. Apart(s, Close, Colon)
      BY <1>4, FreeApart
    <2> QED
      BY <1>4, <2>1, PairFree
  <1>6. ~(Len(<<s>>) > 1)
    OBVIOUS
  <1>7. sep = IF Contains(s, Slash) THEN Slash ELSE Hash
    BY <1>1, <1>4
  <1>8. ~Contains(t, sep) /\ ~Contains(w, sep)
    BY <1>1, <1>2
  <1>9. Split(s, sep) = <<t, w>>
    BY <1>1, <1>8, SplitOnce
  <1>10. ~(Len(SplitPair(s, Close, Colon)) > 1)
    BY ONLY <1>5, <1>6
  <1> QED
    BY <1>4, <1>7, <1>9, <1>10 DEF SockV6Parts

LEMMA SockV6Reads ==
    ASSUME NEW a \in [1 .. 8 -> Words16], NEW p \in [1 .. 1 -> Words16], NEW spec,
           NEW sep \in {Close, Slash, Hash}, NEW s,
           s = IF sep = Close
               THEN <<Open>> \o FormatV6(a, spec) \o <<Close, Colon>> \o FormatPort(p)
               ELSE FormatV6(a, spec) \o <<sep>> \o FormatPort(p)
    PROVE  s \in Texts /\ SockV6FromString(s) = <<a, p>>
  <1> DEFINE t == FormatV6(a, spec)
             w == FormatPort(p)
             bracketed == Len(SplitPair(s, Close, Colon)) > 1
  <1>1. t \in Texts /\ Sealed(t) /\ V6FromString(t) = a
    BY V6Text
  <1>2. /\ w \in Texts /\ PortFromString(w) = p /\ p # Invalid
        /\ \A ch \in 16 .. Other : ~Contains(w, ch)
    BY PortText
  <1>3. a # Invalid
    <2>1. 1 \in DOMAIN a /\ DOMAIN Invalid = {}
      BY DEF Invalid
    <2> QED
      BY <2>1
  <1>4. ~Contains(w, Close)
    BY <1>2, Punctuation
  <1> HIDE DEF t, w
  <1>5. s \in Texts /\ SockV6Parts(s) = <<t, w>> /\ (bracketed => Head(s) = Open)
    <2>1. CASE sep = Close
      <3>1. s = <<Open>> \o t \o <<Close, Colon>> \o w
        BY <2>1 DEF t, w
      <3> QED
        BY <1>1, <1>2, <1>4, <3>1, BracketedParts
    <2>2. CASE sep # Close
      <3>1. s = t \o <<sep>> \o w /\ sep \in {Slash, Hash}
        BY <2>2 DEF t, w
      <3> QED
        BY <1>1, <1>2, <3>1, PlainParts
    <2> QED
      BY <2>1, <2>2
  <1>6. SockV6FromString(s) = IF bracketed /\ Head(s) # Open THEN Invalid
                              ELSE ReadPair(SockV6Parts(s), V6FromString(SockV6Parts(s)[1]))
    BY DEF SockV6FromString, SockV6Parts
  <1> HIDE DEF bracketed
  <1>7. SockV6FromString(s) = ReadPair(<<t, w>>, V6FromString(<<t, w>>[1]))
    BY <1>5, <1>6
  <1>8. <<t, w>>[1] = t
    OBVIOUS
  <1>9. ReadPair(<<t, w>>, a) = <<a, p>>
    BY <1>2, <1>3, PairReads
  <1> QED
    BY ONLY <1>1, <1>5, <1>7, <1>8, <1>9

\* Whatever a value of a class is printed with, from_string reads it back from
\* the text: the formatter specialisations, with any specification and any
\* separator, against the parsers, for every address and every port.
THEOREM ShownReadsBack ==
    ASSUME NEW k \in ClassNames, NEW v \in Values(k), NEW sep \in Separators(k), NEW spec
    PROVE  Format(k, v, sep, spec) \in Texts /\ FromString(k, Format(k, v, sep, spec)) = v
  <1> DEFINE s == Format(k, v, sep, spec)
  <1>1. CASE k = "address_v4"
    <2>1. v \in [1 .. 4 -> Bytes] /\ s = FormatV4(v)
      BY <1>1 DEF Values, Format
    <2> HIDE DEF s
    <2>2. s \in Texts /\ V4FromString(s) = v
      BY <2>1, V4Text, V4ReadsBack
    <2> QED
      BY <1>1, <2>2 DEF FromString, s
  <1>2. CASE k = "address_v6"
    <2>1. v \in [1 .. 8 -> Words16] /\ s = FormatV6(v, spec)
      BY <1>2 DEF Values, Format
    <2> HIDE DEF s
    <2>2. s \in Texts /\ V6FromString(s) = v
      BY <2>1, V6Text
    <2> QED
      BY <1>2, <2>2 DEF FromString, s
  <1>3. CASE k = "port"
    <2>1. v \in [1 .. 1 -> Words16] /\ s = FormatPort(v)
      BY <1>3 DEF Values, Format
    <2> HIDE DEF s
    <2>2. s \in Texts /\ PortFromString(s) = v
      BY <2>1, PortText
    <2> QED
      BY <1>3, <2>2 DEF FromString, s
  <1>4. CASE k = "socket_v4_info"
    <2>1. v \in [1 .. 4 -> Bytes] \X [1 .. 1 -> Words16]
      BY <1>4 DEF Values
    <2>2. PICK a \in [1 .. 4 -> Bytes], p \in [1 .. 1 -> Words16] : v = <<a, p>>
      BY <2>1
    <2>3. v[1] = a /\ v[2] = p
      BY <2>2
    <2>4. s = FormatV4(a) \o <<sep>> \o FormatPort(p) /\ sep \in {Colon, Slash}
      BY <1>4, <2>3 DEF Format, Separators
    <2> HIDE DEF s
    <2>5. s \in Texts /\ SockV4FromString(s) = <<a, p>>
      BY <2>4, SockV4Reads
    <2> QED
      BY <1>4, <2>2, <2>5 DEF FromString, s
  <1>5. CASE k = "socket_v6_info"
    <2>1. v \in [1 .. 8 -> Words16] \X [1 .. 1 -> Words16]
      BY <1>5 DEF Values
    <2>2. PICK a \in [1 .. 8 -> Words16], p \in [1 .. 1 -> Words16] : v = <<a, p>>
      BY <2>1
    <2>3. v[1] = a /\ v[2] = p
      BY <2>2
    <2>4. /\ s = IF sep = Close
                 THEN <<Open>> \o FormatV6(a, spec) \o <<Close, Colon>> \o FormatPort(p)
                 ELSE FormatV6(a, spec) \o <<sep>> \o FormatPort(p)
          /\ sep \in {Close, Slash, Hash}
      BY <1>5, <2>3 DEF Format, Separators
    <2> HIDE DEF s
    <2>5. s \in Texts /\ SockV6FromString(s) = <<a, p>>
      BY <2>4, SockV6Reads, ZenonT(40)
    <2> QED
      BY <1>5, <2>2, <2>5 DEF FromString, s
  <1> QED
    BY <1>1, <1>2, <1>3, <1>4, <1>5 DEF ClassNames

-----------------------------------------------------------------------------
(* The invariants of the caller's steps. *)

\* The invariant that is preserved: there is a value only once the text has
\* been read, it has the shape of its class, and the text of either later
\* phase is one that from_string reads it from.
Kept ==
    /\ class \in Classes
    /\ text \in Texts
    /\ odd \in 0 .. Len(MaxTokens[class]) - 1
    /\ tokens \in 0 .. MaxTokens[class][1]
    /\ phase \in {"typed", "read", "printed"}
    /\ value # Invalid => value \in Values(class)
    /\ phase = "typed" => value = Invalid
    /\ phase \in {"read", "printed"} => FromString(class, text) = value
    /\ phase = "printed" => value # Invalid

LEMMA Bounds ==
    ASSUME NEW k \in Classes
    PROVE  /\ k \in ClassNames
           /\ Len(MaxTokens[k]) \in Nat /\ Len(MaxTokens[k]) >= 1
           /\ \A i \in 1 .. Len(MaxTokens[k]) :
                MaxTokens[k][i] \in Nat /\ MaxTokens[k][i] <= MaxTokens[k][1]
           /\ \A token \in Tokens[k] : token \in Texts
  <1>1. /\ k \in ClassNames /\ \A token \in Tokens[k] : token \in Seq(0 .. Other)
        /\ MaxTokens[k] \in Seq(Nat) /\ MaxTokens[k] # << >>
        /\ \A i \in DOMAIN MaxTokens[k] : MaxTokens[k][i] <= MaxTokens[k][1]
    BY InputAssumption
  <1>2. \A token \in Tokens[k] : token \in Texts
    BY <1>1 DEF Texts, Chars
  <1> SUFFICES ASSUME NEW m \in Seq(Nat), m # << >>, m = MaxTokens[k],
                      \A i \in DOMAIN m : m[i] <= m[1]
               PROVE  /\ Len(m) \in Nat /\ Len(m) >= 1
                      /\ \A i \in 1 .. Len(m) : m[i] \in Nat /\ m[i] <= m[1]
    BY <1>1, <1>2
  <1>3. Len(m) \in Nat /\ DOMAIN m = 1 .. Len(m) /\ \A i \in 1 .. Len(m) : m[i] \in Nat
    OBVIOUS
  <1>4. Len(m) # 0
    BY EmptySeq
  <1> QED
    BY <1>3, <1>4

LEMMA KeptInit == Init => Kept
  <1> SUFFICES ASSUME Init PROVE Kept
    OBVIOUS
  <1>1. /\ class \in Classes /\ text = << >> /\ tokens = 0 /\ odd = 0
        /\ phase = "typed" /\ value = Invalid
    BY DEF Init
  <1>2. << >> \in Texts
    BY TextOps
  <1>3. /\ Len(MaxTokens[class]) \in Nat /\ Len(MaxTokens[class]) >= 1
        /\ MaxTokens[class][1] \in Nat
    <2>1. /\ Len(MaxTokens[class]) \in Nat /\ Len(MaxTokens[class]) >= 1
          /\ \A i \in 1 .. Len(MaxTokens[class]) : MaxTokens[class][i] \in Nat
      BY <1>1, Bounds
    <2>2. 1 \in 1 .. Len(MaxTokens[class])
      BY <2>1
    <2> QED
      BY <2>1, <2>2
  <1> QED
    BY <1>1, <1>2, <1>3 DEF Kept

LEMMA KeptType ==
    ASSUME Kept, NEW token \in Tokens[class], Type(token)
    PROVE  Kept'
  <1> DEFINE m == MaxTokens[class]
             odds == IF token \in OddTokens[class] THEN odd + 1 ELSE odd
  <1>1. /\ phase = "typed" /\ odds < Len(m) /\ tokens < m[odds + 1]
        /\ text' = text \o token /\ tokens' = tokens + 1 /\ odd' = odds
        /\ class' = class /\ phase' = phase /\ value' = value
    BY DEF Type
  <1>2. /\ class \in Classes /\ text \in Texts /\ odd \in 0 .. Len(m) - 1
        /\ tokens \in 0 .. m[1] /\ value = Invalid
    BY <1>1 DEF Kept
  <1>3. /\ Len(m) \in Nat /\ \A i \in 1 .. Len(m) : m[i] \in Nat /\ m[i] <= m[1]
        /\ token \in Texts
    BY <1>2, Bounds
  <1>4. text' \in Texts
    BY <1>1, <1>2, <1>3, TextOps
  <1>5. odd \in Nat /\ (odds = odd \/ odds = odd + 1)
    BY <1>2
  <1> HIDE DEF odds, m
  <1>6. odds \in 0 .. Len(m) - 1 /\ odds + 1 \in 1 .. Len(m)
    BY <1>1, <1>3, <1>5
  <1>7. tokens + 1 \in 0 .. m[1]
    <2>1. m[odds + 1] \in Nat /\ m[odds + 1] <= m[1]
      BY <1>3, <1>6
    <2>2. tokens \in Nat
      BY <1>2
    <2>3. 1 \in 1 .. Len(m)
      BY <1>3, <1>6
    <2>4. m[1] \in Nat
      BY <1>3, <2>3
    <2> QED
      BY <1>1, <2>1, <2>2, <2>4
  <1>8. /\ class' \in Classes /\ odd' \in 0 .. Len(MaxTokens[class'])  - 1
        /\ tokens' \in 0 .. MaxTokens[class'][1]
    BY <1>1, <1>2, <1>6, <1>7 DEF m
  <1> QED
    BY <1>1, <1>2, <1>4, <1>8 DEF Kept

LEMMA KeptRead ==
    ASSUME Kept, Read
    PROVE  Kept'
  <1>1. /\ phase = "typed" /\ phase' = "read" /\ value' = FromString(class, text)
        /\ class' = class /\ text' = text /\ tokens' = tokens /\ odd' = odd
    BY DEF Read
  <1>2. /\ class \in Classes /\ text \in Texts /\ odd \in 0 .. Len(MaxTokens[class]) - 1
        /\ tokens \in 0 .. MaxTokens[class][1]
    BY DEF Kept
  <1>3. class \in ClassNames
    BY <1>2, Bounds
  <1>4. value' # Invalid => value' \in Values(class')
    BY <1>1, <1>2, <1>3, ValueShape
  <1>5. FromString(class', text') = value'
    BY <1>1
  <1> QED
    BY <1>1, <1>2, <1>4, <1>5 DEF Kept

LEMMA KeptShow ==
    ASSUME Kept, NEW sep \in Separators(class), NEW spec \in Specs, Show(sep, spec)
    PROVE  Kept'
  <1>1. /\ phase = "read" /\ value # Invalid /\ phase' = "printed"
        /\ text' = Format(class, value, sep, spec)
        /\ tokens' = 0 /\ odd' = 0 /\ class' = class /\ value' = value
    BY DEF Show
  <1>2. class \in Classes /\ value \in Values(class)
    BY <1>1 DEF Kept
  <1>3. /\ class \in ClassNames
        /\ Len(MaxTokens[class]) \in Nat /\ Len(MaxTokens[class]) >= 1
        /\ \A i \in 1 .. Len(MaxTokens[class]) : MaxTokens[class][i] \in Nat
    BY <1>2, Bounds
  <1>4. text' \in Texts /\ FromString(class, text') = value
    BY <1>1, <1>2, <1>3, ShownReadsBack
  <1>5. 0 \in 0 .. Len(MaxTokens[class]) - 1 /\ 0 \in 0 .. MaxTokens[class][1]
    <2>1. 1 \in 1 .. Len(MaxTokens[class])
      BY <1>3
    <2>2. MaxTokens[class][1] \in Nat
      BY <1>3, <2>1
    <2> QED
      BY <1>3, <2>2
  <1> QED
    BY <1>1, <1>2, <1>4, <1>5 DEF Kept

LEMMA KeptStep == Kept /\ [Next]_vars => Kept'
  <1> SUFFICES ASSUME Kept, [Next]_vars PROVE Kept'
    OBVIOUS
  <1>1. ASSUME NEW token \in Tokens[class], Type(token) PROVE Kept'
    BY <1>1, KeptType
  <1>2. CASE Read
    BY <1>2, KeptRead
  <1>3. ASSUME NEW sep \in Separators(class), NEW spec \in Specs, Show(sep, spec) PROVE Kept'
    BY <1>3, KeptShow
  <1>4. CASE UNCHANGED vars
    BY <1>4 DEF vars, Kept
  <1> QED
    BY <1>1, <1>2, <1>3, <1>4 DEF Next

\* The invariant holds in every state.
THEOREM AddressesKept == Spec => []Kept
  BY KeptInit, KeptStep, PTL DEF Spec

\* Every text the caller types or is shown is a sequence of characters, and
\* a value has the shape and the widths of its class (from_string).
THEOREM AddressesTypeOK == Spec => []TypeOK
  <1>1. Kept => TypeOK
    <2> SUFFICES ASSUME Kept PROVE TypeOK
      OBVIOUS
    <2>1. /\ class \in Classes /\ text \in Texts /\ odd \in 0 .. Len(MaxTokens[class]) - 1
          /\ tokens \in 0 .. MaxTokens[class][1] /\ phase \in {"typed", "read", "printed"}
          /\ value # Invalid => value \in Values(class)
      BY DEF Kept
    <2>2. text \in Seq(0 .. Other)
      BY <2>1 DEF Texts, Chars
    <2>3. class \in ClassNames
      BY <2>1, Bounds
    <2>4. ASSUME value # Invalid
          PROVE  CASE class = "address_v4" -> value \in [1 .. 4 -> Bytes]
                   [] class = "address_v6" -> value \in [1 .. 8 -> Words16]
                   [] class = "port" -> value \in [1 .. 1 -> Words16]
                   [] class = "socket_v4_info" -> value[1] \in [1 .. 4 -> Bytes] /\ value[2] \in [1 .. 1 -> Words16]
                   [] class = "socket_v6_info" -> value[1] \in [1 .. 8 -> Words16] /\ value[2] \in [1 .. 1 -> Words16]
      <3>1. value \in Values(class)
        BY <2>1, <2>4
      <3>2. CASE class = "address_v4"
        BY <3>1, <3>2 DEF Values
      <3>3. CASE class = "address_v6"
        BY <3>1, <3>3 DEF Values
      <3>4. CASE class = "port"
        BY <3>1, <3>4 DEF Values
      <3>5. CASE class = "socket_v4_info"
        <4>1. value \in [1 .. 4 -> Bytes] \X [1 .. 1 -> Words16]
          BY <3>1, <3>5 DEF Values
        <4>2. value[1] \in [1 .. 4 -> Bytes] /\ value[2] \in [1 .. 1 -> Words16]
          BY <4>1
        <4> QED
          BY <3>5, <4>2
      <3>6. CASE class = "socket_v6_info"
        <4>1. value \in [1 .. 8 -> Words16] \X [1 .. 1 -> Words16]
          BY <3>1, <3>6 DEF Values
        <4>2. value[1] \in [1 .. 8 -> Words16] /\ value[2] \in [1 .. 1 -> Words16]
          BY <4>1
        <4> QED
          BY <3>6, <4>2
      <3> QED
        BY <2>3, <3>2, <3>3, <3>4, <3>5, <3>6 DEF ClassNames
    <2> QED
      BY <2>1, <2>2, <2>4 DEF TypeOK
  <1> QED
    BY <1>1, AddressesKept, PTL

\* A printed value is read back, whatever specification and separator it was
\* printed with (std::format and to_string against from_string).
THEOREM AddressesReadBack == Spec => []ReadsBack
  <1>1. Kept => ReadsBack
    BY DEF Kept, ReadsBack
  <1> QED
    BY <1>1, AddressesKept, PTL

\* from_string_uncheck meets no undefined behaviour on a text that from_string
\* accepts, typed or printed, and returns the same value.
THEOREM AddressesUncheckAgrees == Spec => []UncheckAgrees
  <1>1. Kept => UncheckAgrees
    <2> SUFFICES ASSUME Kept, phase # "typed", value # Invalid
                 PROVE  FromStringUncheck(class, text) = value
      BY DEF UncheckAgrees
    <2>1. class \in Classes /\ text \in Texts /\ FromString(class, text) = value
      BY DEF Kept
    <2>2. class \in ClassNames
      BY <2>1, Bounds
    <2> QED
      BY <2>1, <2>2, UncheckSound
  <1> QED
    BY <1>1, AddressesKept, PTL

-----------------------------------------------------------------------------
(* Sequences of octets. *)

Strings == Seq(Bytes)

LEMMA StringOps ==
    /\ << >> \in Strings
    /\ \A a, b \in Bytes : /\ <<a, b>> \in Strings /\ Len(<<a, b>>) = 2
                          /\ <<a, b>>[1] = a /\ <<a, b>>[2] = b
    /\ \A s, t \in Strings :
         /\ s \o t \in Strings /\ Len(s \o t) = Len(s) + Len(t)
         /\ \A i \in 1 .. Len(s) : (s \o t)[i] = s[i]
         /\ \A i \in 1 .. Len(t) : (s \o t)[Len(s) + i] = t[i]
    /\ \A s \in Strings : Len(s) \in Nat /\ DOMAIN s = 1 .. Len(s)
                          /\ \A i \in 1 .. Len(s) : s[i] \in Bytes
    /\ \A n \in Nat : \A f \in [1 .. n -> Bytes] : f \in Strings /\ Len(f) = n
    /\ 0 \in Bytes /\ 255 \in Bytes
  <1>1. << >> \in Strings
    BY DEF Strings
  <1>2. \A a, b \in Bytes : /\ <<a, b>> \in Strings /\ Len(<<a, b>>) = 2
                           /\ <<a, b>>[1] = a /\ <<a, b>>[2] = b
    BY DEF Strings
  <1>3. ASSUME NEW s \in Strings, NEW t \in Strings
        PROVE  /\ s \o t \in Strings /\ Len(s \o t) = Len(s) + Len(t)
               /\ \A i \in 1 .. Len(s) : (s \o t)[i] = s[i]
               /\ \A i \in 1 .. Len(t) : (s \o t)[Len(s) + i] = t[i]
    BY ConcatProperties DEF Strings
  <1>4. \A s \in Strings : Len(s) \in Nat /\ DOMAIN s = 1 .. Len(s)
                          /\ \A i \in 1 .. Len(s) : s[i] \in Bytes
    BY DEF Strings
  <1>5. ASSUME NEW n \in Nat, NEW f \in [1 .. n -> Bytes]
        PROVE  f \in Strings /\ Len(f) = n
    <2>1. f \in Strings
      <3> SUFFICES ASSUME NEW S, NEW g \in [1 .. n -> S] PROVE g \in Seq(S)
        BY DEF Strings
      <3> QED
        OBVIOUS
    <2> QED
      BY <2>1 DEF Strings
  <1>6. 0 \in Bytes
    BY Widths
  <1>7. 255 \in Bytes
    BY DEF Bytes, MaxByte
  <1> QED
    BY <1>1, <1>2, <1>3, <1>4, <1>5, <1>6, <1>7

LEMMA JoinedString ==
    ASSUME NEW s \in Strings, NEW t \in Strings
    PROVE  /\ s \o t \in Strings /\ Len(s \o t) = Len(s) + Len(t)
           /\ \A i \in 1 .. Len(s) : (s \o t)[i] = s[i]
           /\ \A i \in 1 .. Len(t) : (s \o t)[Len(s) + i] = t[i]
  BY StringOps

LEMMA StringOf ==
    ASSUME NEW n \in Nat, NEW f \in [1 .. n -> Bytes]
    PROVE  f \in Strings /\ Len(f) = n
  BY StringOps

LEMMA SameString ==
    ASSUME NEW s \in Strings, NEW t \in Strings, Len(s) = Len(t),
           \A i \in 1 .. Len(s) : s[i] = t[i]
    PROVE  s = t
  BY SeqEqual DEF Strings

\* The octets that make the smallest and the largest 16-bit number, in either
\* byte order.
LEMMA PlainOctets ==
    ASSUME NEW v \in Words16
    PROVE  /\ v = 0 <=> Octets(v)[1] = 0 /\ Octets(v)[2] = 0
           /\ v = 65535 <=> Octets(v)[1] = 255 /\ Octets(v)[2] = 255
  <1> DEFINE r == v % 256
             q == v \div 256
  <1>1. r \in Bytes /\ q \in Bytes /\ r + 256 * q = v
    BY ItsOctets
  <1>2. Octets(v) = IF LittleEndian THEN <<r, q>> ELSE <<q, r>>
    BY DEF Octets
  <1> HIDE DEF q, r
  <1>3. r \in Nat /\ r <= 255 /\ q \in Nat /\ q <= 255
    BY <1>1, Widths
  <1>4. (v = 0 <=> r = 0 /\ q = 0) /\ (v = 65535 <=> r = 255 /\ q = 255)
    BY ONLY <1>1, <1>3
  <1>5. \A a, b : <<a, b>>[1] = a /\ <<a, b>>[2] = b
    OBVIOUS
  <1>6. CASE LittleEndian
    BY ONLY <1>2, <1>4, <1>5, <1>6
  <1>7. CASE ~LittleEndian
    BY ONLY <1>2, <1>4, <1>5, <1>7
  <1> QED
    BY <1>6, <1>7

\* The octets of an address, group by group.
LEMMA MemoryIs ==
    ASSUME NEW a \in [1 .. 8 -> Words16]
    PROVE  /\ Memory(a) \in Strings /\ Len(Memory(a)) = 16
           /\ \A i \in 1 .. 8 : /\ Memory(a)[2 * i - 1] = Octets(a[i])[1]
                                /\ Memory(a)[2 * i] = Octets(a[i])[2]
  <1> DEFINE f == [k \in 1 .. 16 |-> Octets(a[(k + 1) \div 2])[2 - (k % 2)]]
  <1>1. Memory(a) = f
    BY DEF Memory
  <1>2. ASSUME NEW i \in 1 .. 8
        PROVE  f[2 * i - 1] = Octets(a[i])[1] /\ f[2 * i] = Octets(a[i])[2]
    <2>1. /\ 2 * i - 1 \in 1 .. 16 /\ 2 * i \in 1 .. 16
          /\ ((2 * i - 1) + 1) \div 2 = i /\ 2 - ((2 * i - 1) % 2) = 1
          /\ ((2 * i) + 1) \div 2 = i /\ 2 - ((2 * i) % 2) = 2
      OBVIOUS
    <2>2. f[2 * i - 1] = Octets(a[((2 * i - 1) + 1) \div 2])[2 - ((2 * i - 1) % 2)]
      BY <2>1
    <2>3. f[2 * i] = Octets(a[((2 * i) + 1) \div 2])[2 - ((2 * i) % 2)]
      BY <2>1
    <2> QED
      BY ONLY <2>1, <2>2, <2>3
  <1>3. \A k \in 1 .. 16 : f[k] \in Bytes
    <2> TAKE k \in 1 .. 16
    <2>1. PICK i \in 1 .. 8 : k = 2 * i - 1 \/ k = 2 * i
      <3>1. (k + 1) \div 2 \in 1 .. 8 /\ (k = 2 * ((k + 1) \div 2) - 1 \/ k = 2 * ((k + 1) \div 2))
        OBVIOUS
      <3> QED
        BY <3>1
    <2>2. Octets(a[i])[1] \in Bytes /\ Octets(a[i])[2] \in Bytes
      BY OctetsOf
    <2> HIDE DEF f
    <2> QED
      BY <1>2, <2>1, <2>2
  <1>4. f \in [1 .. 16 -> Bytes]
    BY <1>3
  <1> HIDE DEF f
  <1>5. f \in Strings /\ Len(f) = 16
    <2>1. 16 \in Nat
      OBVIOUS
    <2> QED
      BY ONLY <1>4, <2>1, StringOf
  <1> QED
    BY <1>1, <1>2, <1>5

LEMMA MappedIs ==
    ASSUME NEW a \in [1 .. 8 -> Words16]
    PROVE  /\ is_ipv4_mapped(a) <=> SubSeq(Memory(a), 1, 12) = Zeros(10) \o <<255, 255>>
           /\ to_ipv4_mapped(a) = SubSeq(Memory(a), 13, 16)
  <1> SUFFICES ASSUME NEW m \in Strings, Len(m) = 16, m = Memory(a),
                      \A i \in 1 .. 8 : m[2 * i - 1] = Octets(a[i])[1] /\ m[2 * i] = Octets(a[i])[2]
               PROVE  /\ is_ipv4_mapped(a) <=> SubSeq(m, 1, 12) = Zeros(10) \o <<255, 255>>
                      /\ to_ipv4_mapped(a) = SubSeq(m, 13, 16)
    BY MemoryIs
  <1>1. \A i \in 1 .. 16 : m[i] \in Bytes
    BY ONLY m \in Strings, Len(m) = 16, StringOps, ZenonT(40)
  <1> DEFINE front == SubSeq(m, 1, 12)
             mapped == Zeros(10) \o <<255, 255>>
             back == SubSeq(m, 13, 16)
             last == Octets(a[7]) \o Octets(a[8])
  <1>2. front \in Strings /\ Len(front) = 12 /\ \A i \in 1 .. 12 : front[i] = m[i]
    <2>1. \A i \in 1 .. 12 : m[i] \in Bytes
      BY <1>1
    <2>2. /\ front \in Strings /\ Len(front) = (IF 1 <= 12 THEN 12 - 1 + 1 ELSE 0)
          /\ \A i \in 1 .. 12 - 1 + 1 : front[i] = m[1 + i - 1]
      BY ONLY <2>1, SubSeqProperties DEF Strings
    <2>3. \A i \in 1 .. 12 : 1 + i - 1 = i
      OBVIOUS
    <2> HIDE DEF front
    <2> QED
      BY <2>2, <2>3
  <1>3. back \in Strings /\ Len(back) = 4 /\ \A i \in 1 .. 4 : back[i] = m[12 + i]
    <2>1. \A i \in 13 .. 16 : m[i] \in Bytes
      BY <1>1
    <2>2. /\ back \in Strings /\ Len(back) = (IF 13 <= 16 THEN 16 - 13 + 1 ELSE 0)
          /\ \A i \in 1 .. 16 - 13 + 1 : back[i] = m[13 + i - 1]
      BY ONLY <2>1, SubSeqProperties DEF Strings
    <2>3. \A i \in 1 .. 4 : 13 + i - 1 = 12 + i
      OBVIOUS
    <2> HIDE DEF back
    <2> QED
      BY <2>2, <2>3
  <1>4. /\ mapped \in Strings /\ Len(mapped) = 12 /\ \A i \in 1 .. 10 : mapped[i] = 0
        /\ mapped[11] = 255 /\ mapped[12] = 255
    <2> DEFINE z == Zeros(10)
               e == <<255, 255>>
    <2>1. z \in Strings /\ Len(z) = 10 /\ \A i \in 1 .. 10 : z[i] = 0
      <3>1. 0 \in Bytes /\ 10 \in Nat
        BY StringOps
      <3>2. z = [i \in 1 .. 10 |-> 0]
        BY DEF Zeros
      <3>3. z \in [1 .. 10 -> Bytes] /\ \A i \in 1 .. 10 : z[i] = 0
        BY ONLY <3>1, <3>2
      <3> HIDE DEF z
      <3> QED
        BY <3>1, <3>3, StringOps, ZenonT(40)
    <2>2. e \in Strings /\ Len(e) = 2 /\ e[1] = 255 /\ e[2] = 255
      BY StringOps
    <2> HIDE DEF z, e
    <2>3. /\ z \o e \in Strings /\ Len(z \o e) = Len(z) + Len(e)
          /\ \A i \in 1 .. Len(z) : (z \o e)[i] = z[i]
          /\ \A i \in 1 .. Len(e) : (z \o e)[Len(z) + i] = e[i]
      <3>1. z \in Strings /\ e \in Strings
        BY ONLY <2>1, <2>2
      <3> QED
        BY ONLY <3>1, JoinedString
    <2>4. mapped = z \o e
      BY DEF z, e
    <2> HIDE DEF mapped
    <2>5. \A i \in 1 .. 10 : mapped[i] = 0
      BY ONLY <2>1, <2>3, <2>4
    <2>6. mapped[11] = e[1] /\ mapped[12] = e[2] /\ Len(mapped) = 12
      BY ONLY <2>1, <2>2, <2>3, <2>4
    <2> QED
      BY ONLY <2>2, <2>3, <2>4, <2>5, <2>6
  <1>5. /\ last \in Strings /\ Len(last) = 4
        /\ last[1] = Octets(a[7])[1] /\ last[2] = Octets(a[7])[2]
        /\ last[3] = Octets(a[8])[1] /\ last[4] = Octets(a[8])[2]
    <2> DEFINE x == Octets(a[7])
               y == Octets(a[8])
    <2>1. x \in Strings /\ Len(x) = 2 /\ y \in Strings /\ Len(y) = 2
      <3>1. a[7] \in Words16 /\ a[8] \in Words16
        OBVIOUS
      <3> QED
        BY <3>1, OctetsOf DEF Strings
    <2> HIDE DEF x, y
    <2>2. /\ x \o y \in Strings /\ Len(x \o y) = 4
          /\ (x \o y)[1] = x[1] /\ (x \o y)[2] = x[2]
          /\ (x \o y)[3] = y[1] /\ (x \o y)[4] = y[2]
      <3>1. /\ x \o y \in Strings /\ Len(x \o y) = Len(x) + Len(y)
            /\ \A i \in 1 .. Len(x) : (x \o y)[i] = x[i]
            /\ \A i \in 1 .. Len(y) : (x \o y)[Len(x) + i] = y[i]
        BY <2>1, StringOps
      <3> QED
        BY <2>1, <3>1
    <2> QED
      BY <2>2 DEF x, y
  <1> HIDE DEF front, mapped, back, last
  <1>6. back = last
    <2>1. back[1] = last[1] /\ back[2] = last[2] /\ back[3] = last[3] /\ back[4] = last[4]
      <3>1. /\ m[13] = Octets(a[7])[1] /\ m[14] = Octets(a[7])[2]
            /\ m[15] = Octets(a[8])[1] /\ m[16] = Octets(a[8])[2]
        <4>1. m[2 * 7 - 1] = Octets(a[7])[1] /\ m[2 * 7] = Octets(a[7])[2]
          OBVIOUS
        <4>2. m[2 * 8 - 1] = Octets(a[8])[1] /\ m[2 * 8] = Octets(a[8])[2]
          OBVIOUS
        <4> QED
          BY ONLY <4>1, <4>2
      <3>2. back[1] = m[13] /\ back[2] = m[14] /\ back[3] = m[15] /\ back[4] = m[16]
        BY ONLY <1>3
      <3> QED
        BY ONLY <1>5, <3>1, <3>2
    <2>2. \A i \in 1 .. 4 : i = 1 \/ i = 2 \/ i = 3 \/ i = 4
      OBVIOUS
    <2>3. \A i \in 1 .. 4 : back[i] = last[i]
      BY ONLY <2>1, <2>2
    <2> QED
      BY ONLY <1>3, <1>5, <2>3, SameString
  <1>7. front = mapped <=> \A i \in 1 .. 12 : front[i] = mapped[i]
    <2>1. ASSUME \A i \in 1 .. 12 : front[i] = mapped[i] PROVE front = mapped
      <3>1. Len(front) = Len(mapped) /\ \A i \in 1 .. Len(front) : front[i] = mapped[i]
        BY ONLY <1>2, <1>4, <2>1
      <3> QED
        <4>1. front \in Strings /\ mapped \in Strings
          BY ONLY <1>2, <1>4
        <4> QED
          BY ONLY <3>1, <4>1, SameString
    <2> QED
      BY <2>1
  <1>8. (\A i \in 1 .. 12 : front[i] = mapped[i]) <=>
          (\A i \in 1 .. 10 : m[i] = 0) /\ m[11] = 255 /\ m[12] = 255
    BY <1>2, <1>4
  <1>9. (\A i \in 1 .. 10 : m[i] = 0) <=> \A i \in 1 .. 5 : a[i] = 0
    <2>1. ASSUME NEW i \in 1 .. 5, \A k \in 1 .. 10 : m[k] = 0 PROVE a[i] = 0
      <3>1. 2 * i - 1 \in 1 .. 10 /\ 2 * i \in 1 .. 10 /\ i \in 1 .. 8
        OBVIOUS
      <3>2. Octets(a[i])[1] = 0 /\ Octets(a[i])[2] = 0
        BY <2>1, <3>1
      <3>3. a[i] \in Words16
        BY <3>1
      <3> QED
        BY <3>2, <3>3, PlainOctets
    <2>2. ASSUME NEW k \in 1 .. 10, \A i \in 1 .. 5 : a[i] = 0 PROVE m[k] = 0
      <3>1. PICK i \in 1 .. 5 : k = 2 * i - 1 \/ k = 2 * i
        <4>1. (k + 1) \div 2 \in 1 .. 5 /\ (k = 2 * ((k + 1) \div 2) - 1 \/ k = 2 * ((k + 1) \div 2))
          OBVIOUS
        <4> QED
          BY <4>1
      <3>2. i \in 1 .. 8 /\ a[i] = 0
        BY <2>2
      <3>3. a[i] \in Words16
        BY <3>2
      <3>4. Octets(a[i])[1] = 0 /\ Octets(a[i])[2] = 0
        BY <3>2, <3>3, PlainOctets
      <3> QED
        BY <3>1, <3>2, <3>4
    <2> QED
      BY <2>1, <2>2
  <1>10. (m[11] = 255 /\ m[12] = 255) <=> a[6] = 65535
    <2>1. m[2 * 6 - 1] = Octets(a[6])[1] /\ m[2 * 6] = Octets(a[6])[2]
      OBVIOUS
    <2>2. a[6] \in Words16
      OBVIOUS
    <2>3. a[6] = 65535 <=> Octets(a[6])[1] = 255 /\ Octets(a[6])[2] = 255
      BY <2>2, PlainOctets
    <2> QED
      BY ONLY <2>1, <2>3
  <1>11. is_ipv4_mapped(a) <=> front = mapped
    BY <1>7, <1>8, <1>9, <1>10 DEF is_ipv4_mapped
  <1>12. to_ipv4_mapped(a) = back
    BY <1>6 DEF to_ipv4_mapped, last
  <1> QED
    BY <1>11, <1>12 DEF front, mapped, back

\* An address is reported as IPv4-mapped exactly when the octets in memory say
\* so, and the IPv4 address taken from it is its last four octets, in either
\* byte order (is_ipv4_mapped, to_ipv4_mapped).
THEOREM AddressesMappedV4 == Spec => []MappedV4
  <1>1. Kept => MappedV4
    <2> SUFFICES ASSUME Kept, class = "address_v6", value # Invalid
                 PROVE  /\ is_ipv4_mapped(value) <=>
                             SubSeq(Memory(value), 1, 12) = Zeros(10) \o <<255, 255>>
                        /\ to_ipv4_mapped(value) = SubSeq(Memory(value), 13, 16)
      BY DEF MappedV4
    <2>1. value \in [1 .. 8 -> Words16]
      BY DEF Kept, Values
    <2> QED
      BY <2>1, MappedIs
  <1> QED
    BY <1>1, AddressesKept, PTL

-----------------------------------------------------------------------------
(* What an IPv6 text means, without a parser, and what from_string makes of it. *)

\* The two kinds of sections.
Hex(w)  == ~Contains(w, Dot) /\ Len(w) \in 1 .. 4 /\ FromChars(w, 16, MaxWord) # Invalid
Quad(w) == Contains(w, Dot) /\ V4FromString(w) # Invalid

Final(ws) == ws[Len(ws)]

\* Sections that make sense: a dotted quad can only be the last one.
Ends(ws) == /\ \A k \in 1 .. Len(ws) - 1 : Hex(ws[k])
            /\ Hex(Final(ws)) \/ Quad(Final(ws))

\* The groups gs are what the sections ws stand for, one by one.
Spelled(ws, gs) ==
    /\ gs \in Seq(Words16)
    /\ \A k \in 1 .. Len(ws) - 1 : gs[k] = Number(ws[k], 16)
    /\ IF Contains(Final(ws), Dot)
       THEN /\ Len(gs) = Len(ws) + 1
            /\ gs[Len(ws)] = SectionOfV4(V4FromString(Final(ws)))[1]
            /\ gs[Len(ws) + 1] = SectionOfV4(V4FromString(Final(ws)))[2]
       ELSE Len(gs) = Len(ws) /\ gs[Len(ws)] = Number(Final(ws), 16)

LEMMA HexReads ==
    ASSUME NEW w \in Texts, Hex(w)
    PROVE  /\ Number(w, 16) \in Words16 /\ Reads(w, <<Number(w, 16)>>, FALSE)
           /\ ~Contains(w, Colon) /\ ~Contains(w, Dot) /\ w # << >>
           /\ FromChars(w, 16, MaxWord) = <<Number(w, 16)>>
  <1>1. Len(w) <= 4 /\ Len(w) # 0 /\ FromChars(w, 16, MaxWord) # Invalid
    <2>1. Len(w) \in 1 .. 4 /\ FromChars(w, 16, MaxWord) # Invalid
      BY DEF Hex
    <2>2. \A n \in 1 .. 4 : n <= 4 /\ n # 0
      OBVIOUS
    <2> QED
      BY ONLY <2>1, <2>2
  <1>2. /\ IsWord(w, 16, Number(w, 16)) /\ Number(w, 16) \in Words16
        /\ FromChars(w, 16, MaxWord) = <<Number(w, 16)>>
    BY <1>1, HexGroup
  <1>3. w # << >>
    BY ONLY <1>1, LongText
  <1>4. Reads(w, <<Number(w, 16)>>, FALSE) /\ ~Contains(w, Colon) /\ ~Contains(w, Dot)
    BY ONLY <1>1, <1>2, ShortWordReads
  <1> QED
    BY <1>2, <1>3, <1>4

LEMMA QuadTextReads ==
    ASSUME NEW w \in Texts, Quad(w)
    PROVE  /\ Reads(w, SectionOfV4(V4FromString(w)), TRUE)
           /\ ~Contains(w, Colon) /\ Contains(w, Dot)
           /\ V4FromString(w) \in [1 .. 4 -> Bytes]
           /\ SectionOfV4(V4FromString(w)) \in Seq(Words16)
           /\ Len(SectionOfV4(V4FromString(w))) = 2
  <1>1. Contains(w, Dot) /\ V4FromString(w) # Invalid
    BY DEF Quad
  <1>2. V4FromString(w) \in [1 .. 4 -> Bytes] /\ FormatV4(V4FromString(w)) = w
    BY <1>1, V4Ok, V4Spelled
  <1>3. Reads(w, SectionOfV4(V4FromString(w)), TRUE) /\ ~Contains(w, Colon)
    BY ONLY <1>2, QuadOf
  <1> QED
    BY <1>1, <1>2, <1>3, QuadGroups

\* A text of sections of digits only.
Numbered(s, gs) == /\ gs \in Seq(Words16) /\ Len(gs) = Len(Split(s, Colon))
                   /\ \A k \in 1 .. Len(Split(s, Colon)) : gs[k] = Number(Split(s, Colon)[k], 16)
                   /\ Reads(s, gs, FALSE)

LEMMA HexesRead ==
    \A s \in Texts :
       (\A k \in 1 .. Len(Split(s, Colon)) : Hex(Split(s, Colon)[k])) => \E gs : Numbered(s, gs)
  <1> DEFINE S == {n \in Nat : \A s \in Texts :
                      /\ Len(Split(s, Colon)) = n + 1
                      /\ \A k \in 1 .. Len(Split(s, Colon)) : Hex(Split(s, Colon)[k])
                      => \E gs : Numbered(s, gs)}
  <1>1. 0 \in S
    <2> SUFFICES ASSUME NEW s \in Texts, Len(Split(s, Colon)) = 1,
                        \A k \in 1 .. 1 : Hex(Split(s, Colon)[k])
                 PROVE  \E gs : Numbered(s, gs)
      OBVIOUS
    <2>1. s = Split(s, Colon)[1]
      BY OnePiece, Punctuation
    <2>2. Hex(s)
      BY <2>1
    <2>3. Number(s, 16) \in Words16 /\ Reads(s, <<Number(s, 16)>>, FALSE)
      BY <2>2, HexReads
    <2>4. \A v \in Words16 : <<v>> \in Seq(Words16) /\ Len(<<v>>) = 1 /\ <<v>>[1] = v
      BY GroupOps
    <2>5. \A k \in 1 .. 1 : k = 1
      OBVIOUS
    <2>6. Numbered(s, <<Number(s, 16)>>)
      BY <2>1, <2>3, <2>4, <2>5 DEF Numbered
    <2> QED
      BY <2>6
  <1>2. ASSUME NEW n \in Nat, n \in S PROVE n + 1 \in S
    <2> SUFFICES ASSUME NEW s \in Texts, NEW p, p = Split(s, Colon), Len(p) = (n + 1) + 1,
                        \A k \in 1 .. Len(p) : Hex(p[k])
                 PROVE  \E gs : Numbered(s, gs)
      OBVIOUS
    <2> DEFINE m == n + 2
               w == p[m]
    <2>1. Len(p) = m /\ m \in Nat /\ m >= 2 /\ m - 1 = n + 1
      OBVIOUS
    <2>2. PICK t : Shorter(t, s, Colon)
      BY <2>1, LastPiece, Punctuation
    <2>3. /\ t \in Texts /\ s = t \o <<Colon>> \o w /\ w \in Texts
          /\ Len(Split(t, Colon)) = m - 1 /\ \A k \in 1 .. m - 1 : Split(t, Colon)[k] = p[k]
      BY <2>1, <2>2 DEF Shorter
    <2>4. \A k \in 1 .. m - 1 : k \in 1 .. m
      BY <2>1
    <2>5. m \in 1 .. m
      BY <2>1
    <2>6. Hex(w)
      BY <2>1, <2>5
    <2>7. \A k \in 1 .. Len(Split(t, Colon)) : Hex(Split(t, Colon)[k])
      BY <2>1, <2>3, <2>4
    <2> HIDE DEF m, w
    <2>8. PICK hs : Numbered(t, hs)
      BY <1>2, <2>1, <2>3, <2>7
    <2>9. /\ hs \in Seq(Words16) /\ Len(hs) = m - 1 /\ Reads(t, hs, FALSE)
          /\ \A k \in 1 .. m - 1 : hs[k] = Number(p[k], 16)
      BY <2>3, <2>8 DEF Numbered
    <2> DEFINE v == Number(w, 16)
               one == <<v>>
               gs == hs \o one
    <2>10. v \in Words16 /\ Reads(w, one, FALSE) /\ ~Contains(w, Colon)
      BY <2>3, <2>6, HexReads
    <2>11. one \in Seq(Words16) /\ Len(one) = 1 /\ one[1] = v
      BY <2>10, GroupOps
    <2> HIDE DEF v, one
    <2>12. Reads(s, gs, FALSE)
      <3>1. FALSE \in BOOLEAN
        OBVIOUS
      <3>2. Reads(t \o <<Colon>> \o w, hs \o one, FALSE)
        BY ONLY <2>9, <2>10, <3>1, JoinReads
      <3> QED
        BY ONLY <2>3, <3>2
    <2>13. /\ gs \in Seq(Words16) /\ Len(gs) = Len(hs) + Len(one)
           /\ \A i \in 1 .. Len(hs) : gs[i] = hs[i]
           /\ \A i \in 1 .. Len(one) : gs[Len(hs) + i] = one[i]
      BY ONLY <2>9, <2>11, GroupOps, ZenonT(40)
    <2> HIDE DEF gs
    <2>14. Len(gs) = m /\ gs[m] = v /\ \A k \in 1 .. m - 1 : gs[k] = Number(p[k], 16)
      BY ONLY <2>1, <2>9, <2>11, <2>13
    <2>15. \A k \in 1 .. m : gs[k] = Number(p[k], 16)
      <3>1. \A k \in 1 .. m : k \in 1 .. m - 1 \/ k = m
        BY ONLY <2>1
      <3>2. v = Number(p[m], 16)
        BY DEF v, w
      <3> QED
        BY ONLY <2>14, <3>1, <3>2
    <2>16. Numbered(s, gs)
      BY <2>1, <2>12, <2>13, <2>14, <2>15 DEF Numbered
    <2> QED
      BY <2>16
  <1> HIDE DEF S
  <1>3. Nat \subseteq S
    BY ONLY <1>1, <1>2, Induct
  <1> SUFFICES ASSUME NEW s \in Texts, \A k \in 1 .. Len(Split(s, Colon)) : Hex(Split(s, Colon)[k])
               PROVE  \E gs : Numbered(s, gs)
    OBVIOUS
  <1>4. Split(s, Colon) \in Seq(Texts) /\ Len(Split(s, Colon)) >= 1
    BY PiecesType
  <1>5. PICK n \in Nat : Len(Split(s, Colon)) = n + 1
    <2>1. Len(Split(s, Colon)) \in Nat
      BY <1>4
    <2>2. Len(Split(s, Colon)) - 1 \in Nat /\ Len(Split(s, Colon)) = (Len(Split(s, Colon)) - 1) + 1
      BY <1>4, <2>1
    <2> QED
      BY ONLY <2>2
  <1> QED
    BY <1>3, <1>5 DEF S

\* The text s spells gs, section by section, and reads as gs.
Told(s, gs, seen) ==
    /\ seen \in BOOLEAN /\ (seen <=> Contains(Final(Split(s, Colon)), Dot))
    /\ Spelled(Split(s, Colon), gs)
    /\ Reads(s, gs, seen)
    /\ seen => Contains(s, Dot)

\* Sections that make sense are read as what they stand for.
LEMMA EndsRead ==
    ASSUME NEW s \in Texts, NEW p, p = Split(s, Colon), Ends(p)
    PROVE  \E gs, seen : Told(s, gs, seen)
  <1> DEFINE n == Len(p)
             w == Final(p)
  <1>1. n \in Nat /\ n >= 1 /\ \A k \in 1 .. n : p[k] \in Texts
    BY PiecesType
  <1>2. w = p[n] /\ w \in Texts /\ (\A k \in 1 .. n - 1 : Hex(p[k])) /\ (Hex(w) \/ Quad(w))
    <2>1. n \in 1 .. n
      BY <1>1
    <2> QED
      BY <1>1, <2>1 DEF Ends, Final
  <1> HIDE DEF n, w
  <1>3. CASE Hex(w)
    <2>1. \A k \in 1 .. n : k \in 1 .. n - 1 \/ k = n
      BY ONLY <1>1
    <2>2. \A k \in 1 .. n : Hex(p[k])
      BY ONLY <1>2, <1>3, <2>1
    <2>3. PICK gs : Numbered(s, gs)
      BY <2>2, HexesRead DEF n
    <2>4. /\ gs \in Seq(Words16) /\ Len(gs) = n /\ Reads(s, gs, FALSE)
          /\ \A k \in 1 .. n : gs[k] = Number(p[k], 16)
      BY <2>3 DEF Numbered, n
    <2>5. ~Contains(w, Dot)
      BY <1>3 DEF Hex
    <2>6. n \in 1 .. n /\ \A k \in 1 .. n - 1 : k \in 1 .. n
      BY ONLY <1>1
    <2>7. Spelled(p, gs)
      <3>1. /\ \A k \in 1 .. Len(p) - 1 : gs[k] = Number(p[k], 16)
            /\ ~Contains(Final(p), Dot)
            /\ Len(gs) = Len(p) /\ gs[Len(p)] = Number(Final(p), 16)
        BY <1>2, <2>4, <2>5, <2>6 DEF n, w
      <3> QED
        BY ONLY <2>4, <3>1 DEF Spelled
    <2>8. ~Contains(Final(p), Dot)
      BY <2>5 DEF w
    <2>9. Told(s, gs, FALSE)
      BY ONLY <2>4, <2>7, <2>8, p = Split(s, Colon) DEF Told
    <2> QED
      BY <2>9
  <1>4. CASE Quad(w)
    <2> DEFINE q == SectionOfV4(V4FromString(w))
    <2>1. Reads(w, q, TRUE) /\ ~Contains(w, Colon) /\ Contains(w, Dot) /\ q \in Seq(Words16) /\ Len(q) = 2
      BY <1>2, <1>4, QuadTextReads
    <2> HIDE DEF q
    <2>2. ASSUME NEW gs \in Seq(Words16), Reads(s, gs, TRUE), Len(gs) = n + 1, Contains(s, Dot),
                 gs[n] = q[1], gs[n + 1] = q[2], \A k \in 1 .. n - 1 : gs[k] = Number(p[k], 16)
          PROVE  Told(s, gs, TRUE)
      <3>1. Contains(Final(p), Dot)
        BY <2>1 DEF w
      <3>2. Spelled(p, gs)
        BY <2>2, <3>1 DEF Spelled, n, q, w
      <3> QED
        BY ONLY <2>2, <3>1, <3>2, p = Split(s, Colon) DEF Told
    <2>3. CASE n = 1
      <3>1. s = w
        <4>1. s = Split(s, Colon)[1]
          BY <2>3, OnePiece, Punctuation DEF n
        <4> QED
          BY <1>2, <2>3, <4>1
      <3>2. Reads(s, q, TRUE) /\ Contains(s, Dot)
        BY <2>1, <3>1
      <3>3. Len(q) = n + 1 /\ q[n] = q[1] /\ q[n + 1] = q[2] /\ \A k \in 1 .. n - 1 : q[k] = Number(p[k], 16)
        BY ONLY <2>1, <2>3
      <3>4. Told(s, q, TRUE)
        BY ONLY <2>1, <2>2, <3>2, <3>3
      <3> QED
        BY <3>4
    <2>4. CASE n # 1
      <3>1. n >= 2 /\ n - 1 \in Nat /\ n - 1 >= 1
        BY ONLY <1>1, <2>4
      <3>2. PICK t : Shorter(t, s, Colon)
        BY <3>1, LastPiece, Punctuation DEF n
      <3>3. /\ t \in Texts /\ s = t \o <<Colon>> \o p[n]
            /\ Len(Split(t, Colon)) = n - 1 /\ \A k \in 1 .. n - 1 : Split(t, Colon)[k] = p[k]
        BY <3>2 DEF Shorter, n
      <3>4. \A k \in 1 .. Len(Split(t, Colon)) : Hex(Split(t, Colon)[k])
        BY <1>2, <3>3
      <3>5. PICK hs : Numbered(t, hs)
        BY <3>3, <3>4, HexesRead
      <3>6. /\ hs \in Seq(Words16) /\ Len(hs) = n - 1 /\ Reads(t, hs, FALSE)
            /\ \A k \in 1 .. n - 1 : hs[k] = Number(p[k], 16)
        BY <3>3, <3>5 DEF Numbered
      <3> DEFINE gs == hs \o q
      <3>7. Reads(s, gs, TRUE)
        <4>1. TRUE \in BOOLEAN
          OBVIOUS
        <4>2. Reads(t \o <<Colon>> \o w, hs \o q, TRUE)
          BY ONLY <2>1, <3>6, <4>1, JoinReads
        <4> QED
          BY ONLY <1>2, <3>3, <4>2
      <3>8. /\ gs \in Seq(Words16) /\ Len(gs) = Len(hs) + Len(q)
            /\ \A i \in 1 .. Len(hs) : gs[i] = hs[i]
            /\ \A i \in 1 .. Len(q) : gs[Len(hs) + i] = q[i]
        BY ONLY <2>1, <3>6, GroupOps, ZenonT(40)
      <3> HIDE DEF gs
      <3>9. Len(gs) = n + 1 /\ \A k \in 1 .. n - 1 : gs[k] = Number(p[k], 16)
        BY ONLY <1>1, <2>1, <3>6, <3>8
      <3>10. gs[n] = q[1] /\ gs[n + 1] = q[2]
        <4>1. (n - 1) + 1 = n /\ (n - 1) + 2 = n + 1
          BY ONLY <1>1
        <4>2. gs[(n - 1) + 1] = q[1] /\ gs[(n - 1) + 2] = q[2]
          BY ONLY <2>1, <3>6, <3>8
        <4> QED
          BY ONLY <4>1, <4>2
      <3>11. Contains(s, Dot)
        <4>1. Joined(t \o <<Colon>> \o w, t, Colon, w)
          BY <1>2, <3>3, JoinOps, Punctuation
        <4> QED
          BY <1>2, <2>1, <3>3, <4>1 DEF Joined
      <3>12. Told(s, gs, TRUE)
        BY ONLY <2>2, <3>7, <3>8, <3>9, <3>10, <3>11
      <3> QED
        BY <3>12
    <2> QED
      BY <2>3, <2>4
  <1> QED
    BY <1>2, <1>3, <1>4

\* What has been read once the sections ws have been, st before them.
ReadOn(st, ws, r) ==
    \/ ws = << >> /\ r = st
    \/ /\ ws # << >> /\ Ends(ws)
       /\ r.seen_ipv4 <=> Contains(Final(ws), Dot)
       /\ Len(r.groups) = Len(st.groups) + Len(ws) + (IF Contains(Final(ws), Dot) THEN 1 ELSE 0)

LEMMA NextRead ==
    ASSUME NEW st \in States, ~st.seen_ipv4, NEW ws \in Seq(Texts), NEW r \in States, ReadOn(st, ws, r), r.ok,
           NEW w \in Texts, parse_one_section(r, w).ok
    PROVE  ReadOn(st, Append(ws, w), parse_one_section(r, w))
  <1> DEFINE new == parse_one_section(r, w)
             vs == Append(ws, w)
             n == Len(ws)
             v4 == V4FromString(w)
             hex == FromChars(w, 16, MaxWord)
             g == r.groups
  <1>1. ~Failed.ok
    BY StateOps
  <1>2. ~r.seen_ipv4 /\ w # << >>
    BY <1>1, SectionIs
  <1>3. /\ Len(vs) = n + 1 /\ vs[n + 1] = w /\ n \in Nat /\ \A k \in 1 .. n : vs[k] = ws[k]
        /\ vs # << >>
    BY AppendProperties
  <1>4. g \in Groups /\ g \in Seq(Words16) /\ Len(g) \in Nat /\ Len(st.groups) \in Nat
    BY StateOps, GroupOps
  <1>5. (\A k \in 1 .. n : Hex(ws[k])) /\ Len(g) = Len(st.groups) + n
    <2>1. CASE ws = << >> /\ r = st
      <3>1. n = 0
        BY <2>1
      <3> QED
        BY <1>4, <2>1, <3>1
    <2>2. CASE /\ ws # << >> /\ Ends(ws)
               /\ r.seen_ipv4 <=> Contains(Final(ws), Dot)
               /\ Len(r.groups) = Len(st.groups) + Len(ws) + (IF Contains(Final(ws), Dot) THEN 1 ELSE 0)
      <3>1. ~Contains(ws[n], Dot)
        BY <1>2, <2>2 DEF Final
      <3>2. (\A k \in 1 .. n - 1 : Hex(ws[k])) /\ Hex(ws[n])
        BY <2>2, <3>1 DEF Ends, Final, Quad
      <3>3. \A k \in 1 .. n : k \in 1 .. n - 1 \/ k = n
        BY ONLY <1>3
      <3>4. Len(g) = Len(st.groups) + n
        BY <1>3, <1>4, <2>2, <3>1 DEF Final
      <3> QED
        BY ONLY <3>2, <3>3, <3>4
    <2> QED
      BY <2>1, <2>2 DEF ReadOn
  <1>6. Final(vs) = w
    BY <1>3 DEF Final
  <1> HIDE DEF vs
  <1>7. \A k \in 1 .. Len(vs) - 1 : Hex(vs[k])
    <2>1. Len(vs) - 1 = n
      BY ONLY <1>3
    <2> QED
      BY ONLY <1>3, <1>5, <2>1
  <1>8. CASE Contains(w, Dot)
    <2>1. v4 # Invalid /\ new = Reading(g \o SectionOfV4(v4), TRUE) /\ ~(Len(g) > 6)
      BY <1>1, <1>2, <1>8, SectionIs
    <2>2. Quad(w)
      BY <1>8, <2>1 DEF Quad
    <2>3. SectionOfV4(v4) \in Seq(Words16) /\ Len(SectionOfV4(v4)) = 2
      BY <2>2, QuadTextReads
    <2> HIDE DEF v4
    <2> DEFINE h == SectionOfV4(v4)
    <2>4. Len(g \o h) = Len(g) + 2 /\ g \o h \in Groups
      <3>1. Len(g) + 2 <= 8
        BY ONLY <1>4, <2>1
      <3>2. g \in Seq(Words16) /\ h \in Seq(Words16) /\ Len(h) = 2
        BY <1>4, <2>3
      <3> HIDE DEF h
      <3>3. Len(g \o h) = Len(g) + Len(h) /\ (Len(g) + Len(h) <= 8 => g \o h \in Groups)
        BY ONLY <3>2, GroupOps
      <3> QED
        BY ONLY <3>1, <3>2, <3>3
    <2>5. new.groups = g \o h /\ new.seen_ipv4 = TRUE
      <3>1. TRUE \in BOOLEAN
        OBVIOUS
      <3>2. new = Reading(g \o h, TRUE)
        BY <2>1
      <3> HIDE DEF h, new
      <3> QED
        BY ONLY <2>4, <3>1, <3>2, StateOps
    <2> HIDE DEF h, new
    <2>6. Len(new.groups) = Len(st.groups) + Len(vs) + 1
      <3>1. \A x, y, z \in Nat : x + y + 2 = x + (y + 1) + 1
        OBVIOUS
      <3>2. Len(new.groups) = Len(st.groups) + n + 2
        BY ONLY <1>5, <2>4, <2>5
      <3> QED
        BY ONLY <1>3, <1>4, <3>1, <3>2
    <2> HIDE DEF new
    <2>7. Ends(vs)
      BY <1>6, <1>7, <2>2 DEF Ends
    <2>8. new.seen_ipv4 <=> Contains(Final(vs), Dot)
      BY <1>6, <1>8, <2>5
    <2> QED
      BY <1>3, <1>6, <1>8, <2>6, <2>7, <2>8 DEF ReadOn, new, vs
  <1>9. CASE ~Contains(w, Dot)
    <2>1. hex # Invalid /\ new = Reading(g \o hex, FALSE) /\ ~(Len(g) >= 8) /\ ~(Len(w) > 4)
      BY <1>1, <1>2, <1>9, SectionIs
    <2>2. Hex(w)
      <3>1. Len(w) \in Nat /\ Len(w) # 0
        BY <1>2, TextOps, EmptySeq DEF Texts
      <3>2. Len(w) \in 1 .. 4
        <4>1. \A m \in Nat : m # 0 /\ ~(m > 4) => m \in 1 .. 4
          OBVIOUS
        <4> QED
          BY ONLY <2>1, <3>1, <4>1
      <3> QED
        BY <1>9, <2>1, <3>2 DEF Hex
    <2>3. hex \in Seq(Words16) /\ Len(hex) = 1
      BY <2>1, HexGroup
    <2> HIDE DEF hex
    <2> DEFINE h == hex
    <2>4. Len(g \o h) = Len(g) + 1 /\ g \o h \in Groups
      <3>1. Len(g) + 1 <= 8
        BY ONLY <1>4, <2>1
      <3>2. g \in Seq(Words16) /\ h \in Seq(Words16) /\ Len(h) = 1
        BY <1>4, <2>3
      <3> HIDE DEF h
      <3>3. Len(g \o h) = Len(g) + Len(h) /\ (Len(g) + Len(h) <= 8 => g \o h \in Groups)
        BY ONLY <3>2, GroupOps
      <3> QED
        BY ONLY <3>1, <3>2, <3>3
    <2>5. new.groups = g \o h /\ new.seen_ipv4 = FALSE
      <3>1. FALSE \in BOOLEAN
        OBVIOUS
      <3>2. new = Reading(g \o h, FALSE)
        BY <2>1
      <3> HIDE DEF h, new
      <3> QED
        BY ONLY <2>4, <3>1, <3>2, StateOps
    <2> HIDE DEF h, new
    <2>6. Len(new.groups) = Len(st.groups) + Len(vs) + 0
      <3>1. \A x, y, z \in Nat : x + y + 1 = x + (y + 1) + 0
        OBVIOUS
      <3>2. Len(new.groups) = Len(st.groups) + n + 1
        BY ONLY <1>5, <2>4, <2>5
      <3> QED
        BY ONLY <1>3, <1>4, <3>1, <3>2
    <2> HIDE DEF new
    <2>7. Ends(vs)
      BY <1>6, <1>7, <2>2 DEF Ends
    <2>8. new.seen_ipv4 <=> Contains(Final(vs), Dot)
      BY <1>6, <1>9, <2>5
    <2> QED
      BY <1>3, <1>6, <1>9, <2>6, <2>7, <2>8 DEF ReadOn, new, vs
  <1> QED
    BY <1>8, <1>9

LEMMA ReadOnAll ==
    ASSUME NEW st \in States, st.ok, ~st.seen_ipv4
    PROVE  \A ws \in Seq(Texts) : Sections(st, ws).ok => ReadOn(st, ws, Sections(st, ws))
  <1> DEFINE S == {ws \in Seq(Texts) : Sections(st, ws).ok => ReadOn(st, ws, Sections(st, ws))}
  <1>1. /\ Sections(st, << >>) = st
        /\ \A ws \in Seq(Texts) : Sections(st, ws) \in States
        /\ \A ws \in Seq(Texts), w \in Texts :
             Sections(st, Append(ws, w)) = parse_one_section(Sections(st, ws), w)
    BY SectionSteps
  <1>2. << >> \in S
    BY <1>1 DEF ReadOn
  <1>3. ASSUME NEW ws \in Seq(Texts), NEW w \in Texts, ws \in S PROVE Append(ws, w) \in S
    <2> DEFINE r == Sections(st, ws)
    <2>1. r \in States /\ Sections(st, Append(ws, w)) = parse_one_section(r, w)
      BY <1>1
    <2>2. r.ok => ReadOn(st, ws, r)
      BY <1>3
    <2> HIDE DEF r
    <2>3. ASSUME parse_one_section(r, w).ok
          PROVE  ReadOn(st, Append(ws, w), parse_one_section(r, w))
      <3>1. r.ok
        BY <2>1, <2>3, StateOps, SectionIs
      <3> QED
        BY <2>1, <2>2, <2>3, <3>1, NextRead
    <2>4. Append(ws, w) \in Seq(Texts)
      OBVIOUS
    <2> QED
      BY <2>1, <2>3, <2>4
  <1> HIDE DEF S
  <1>4. Seq(Texts) \subseteq S
    BY ONLY <1>2, <1>3, InductSeq
  <1> QED
    BY <1>4 DEF S

\* The octets of groups in network order.
Wire(g) == [j \in 1 .. 2 * Len(g) |->
               IF j % 2 = 1 THEN g[(j + 1) \div 2] \div 256 ELSE g[(j + 1) \div 2] % 256]

\* x holds at 2 * i - 1 and 2 * i the octets of group i.
Pairs(x, g) == \A i \in 1 .. Len(g) : x[2 * i - 1] = g[i] \div 256 /\ x[2 * i] = g[i] % 256

LEMMA Halves ==
    ASSUME NEW n \in Nat
    PROVE  /\ \A i \in 1 .. n : /\ 2 * i - 1 \in 1 .. 2 * n /\ 2 * i \in 1 .. 2 * n
                                /\ (2 * i - 1) % 2 = 1 /\ (2 * i) % 2 = 0
                                /\ ((2 * i - 1) + 1) \div 2 = i /\ ((2 * i) + 1) \div 2 = i
           /\ \A j \in 1 .. 2 * n : /\ (j + 1) \div 2 \in 1 .. n
                                    /\ j = 2 * ((j + 1) \div 2) - 1 \/ j = 2 * ((j + 1) \div 2)
  <1>1. ASSUME NEW i \in 1 .. n
        PROVE  /\ 2 * i - 1 \in 1 .. 2 * n /\ 2 * i \in 1 .. 2 * n
               /\ (2 * i - 1) % 2 = 1 /\ (2 * i) % 2 = 0
               /\ ((2 * i - 1) + 1) \div 2 = i /\ ((2 * i) + 1) \div 2 = i
    OBVIOUS
  <1>2. ASSUME NEW j \in 1 .. 2 * n
        PROVE  /\ (j + 1) \div 2 \in 1 .. n
               /\ j = 2 * ((j + 1) \div 2) - 1 \/ j = 2 * ((j + 1) \div 2)
    OBVIOUS
  <1> QED
    BY <1>1, <1>2

LEMMA WireIs ==
    ASSUME NEW g \in Seq(Words16)
    PROVE  Wire(g) \in Strings /\ Len(Wire(g)) = 2 * Len(g) /\ Pairs(Wire(g), g)
  <1> DEFINE n == Len(g)
             f == Wire(g)
  <1>1. n \in Nat /\ 2 * n \in Nat /\ \A i \in 1 .. n : g[i] \in Words16
    BY GroupOps
  <1>2. f = [j \in 1 .. 2 * n |->
               IF j % 2 = 1 THEN g[(j + 1) \div 2] \div 256 ELSE g[(j + 1) \div 2] % 256]
    BY DEF Wire
  <1> HIDE DEF f, n
  <1>3. Pairs(f, g)
    <2> SUFFICES ASSUME NEW i \in 1 .. n
                 PROVE  f[2 * i - 1] = g[i] \div 256 /\ f[2 * i] = g[i] % 256
      BY DEF Pairs, n
    <2> DEFINE a == 2 * i - 1
               b == 2 * i
    <2>1. /\ a \in 1 .. 2 * n /\ b \in 1 .. 2 * n /\ a % 2 = 1 /\ b % 2 = 0
          /\ (a + 1) \div 2 = i /\ (b + 1) \div 2 = i
      BY <1>1, Halves
    <2> HIDE DEF a, b
    <2>2. f[a] = IF a % 2 = 1 THEN g[(a + 1) \div 2] \div 256 ELSE g[(a + 1) \div 2] % 256
      BY ONLY <1>2, <2>1
    <2>3. f[b] = IF b % 2 = 1 THEN g[(b + 1) \div 2] \div 256 ELSE g[(b + 1) \div 2] % 256
      BY ONLY <1>2, <2>1
    <2>4. 0 # 1
      OBVIOUS
    <2> QED
      BY ONLY <2>1, <2>2, <2>3, <2>4 DEF a, b
  <1>4. ASSUME NEW j \in 1 .. 2 * n PROVE f[j] \in Bytes
    <2> DEFINE i == (j + 1) \div 2
    <2>1. i \in 1 .. n
      BY <1>1, Halves
    <2> HIDE DEF i
    <2>2. g[i] \in Words16
      BY <1>1, <2>1
    <2>3. g[i] % 256 \in Bytes /\ g[i] \div 256 \in Bytes
      BY <2>2, ItsOctets
    <2>4. f[j] = IF j % 2 = 1 THEN g[i] \div 256 ELSE g[i] % 256
      BY <1>2 DEF i
    <2> QED
      BY ONLY <2>3, <2>4
  <1>5. f \in [1 .. 2 * n -> Bytes]
    <2>1. DOMAIN f = 1 .. 2 * n /\ f = [j \in 1 .. 2 * n |-> f[j]]
      BY ONLY <1>2
    <2> QED
      BY ONLY <1>4, <2>1
  <1>6. f \in Strings /\ Len(f) = 2 * n
    BY ONLY <1>1, <1>5, StringOf
  <1> QED
    BY <1>3, <1>6 DEF f, n

LEMMA IsWire ==
    ASSUME NEW g \in Seq(Words16), NEW x, x = [j \in 1 .. 2 * Len(g) |-> x[j]], Pairs(x, g)
    PROVE  x = Wire(g)
  <1> SUFFICES ASSUME NEW f \in Strings, f = Wire(g), Len(f) = 2 * Len(g), Pairs(f, g)
               PROVE  x = f
    BY WireIs
  <1>1. Len(g) \in Nat
    BY GroupOps
  <1>2. ASSUME NEW j \in 1 .. 2 * Len(g) PROVE x[j] = f[j]
    <2> DEFINE i == (j + 1) \div 2
    <2>1. i \in 1 .. Len(g) /\ (j = 2 * i - 1 \/ j = 2 * i)
      BY <1>1, Halves
    <2> HIDE DEF i
    <2>2. x[2 * i - 1] = g[i] \div 256 /\ x[2 * i] = g[i] % 256
      BY ONLY <2>1, Pairs(x, g), Zenon DEF Pairs
    <2>3. f[2 * i - 1] = g[i] \div 256 /\ f[2 * i] = g[i] % 256
      BY ONLY <2>1, Pairs(f, g), Zenon DEF Pairs
    <2> QED
      BY ONLY <2>1, <2>2, <2>3
  <1>3. f = [j \in 1 .. 2 * Len(g) |-> f[j]]
    <2>1. DOMAIN f = 1 .. 2 * Len(g)
      BY StringOps
    <2>2. f = [j \in DOMAIN f |-> f[j]]
      BY DEF Strings
    <2> QED
      BY ONLY <2>1, <2>2
  <1> QED
    BY <1>2, <1>3

\* A 16-bit number in network order has its high octet first in memory, and two
\* octets of memory make in local order the number they spell.
LEMMA WireOrder ==
    /\ \A v \in Words16 : /\ Octets(hton_16(v))[1] = v \div 256
                          /\ Octets(hton_16(v))[2] = v % 256
    /\ \A a, b \in Bytes : /\ hton_16(Cast16(a, b)) \div 256 = a
                           /\ hton_16(Cast16(a, b)) % 256 = b
  <1>1. ASSUME NEW v \in Words16
        PROVE  /\ Octets(hton_16(v))[1] = v \div 256 /\ Octets(hton_16(v))[2] = v % 256
    <2> DEFINE r == v % 256
               q == v \div 256
    <2>1. r \in Bytes /\ q \in Bytes
      BY ItsOctets
    <2>2. byteswap(v) = r * 256 + q
      BY DEF byteswap
    <2>3. \A x, y : <<x, y>>[1] = x /\ <<x, y>>[2] = y
      OBVIOUS
    <2>4. CASE LittleEndian
      <3>1. Octets(hton_16(v)) = <<byteswap(v) % 256, byteswap(v) \div 256>>
        BY <2>4 DEF Octets, hton_16
      <3> HIDE DEF r, q
      <3>2. (q + 256 * r) % 256 = q /\ (q + 256 * r) \div 256 = r
        BY <2>1, TwoOctets
      <3>3. r * 256 + q = q + 256 * r
        BY <2>1, Widths
      <3>4. Octets(hton_16(v)) = <<q, r>>
        BY ONLY <2>2, <3>1, <3>2, <3>3
      <3> QED
        BY ONLY <2>3, <3>4 DEF q, r
    <2>5. CASE ~LittleEndian
      <3>1. Octets(hton_16(v)) = <<q, r>>
        BY <2>5 DEF Octets, hton_16
      <3> QED
        BY ONLY <2>3, <3>1
    <2> QED
      BY <2>4, <2>5
  <1>2. ASSUME NEW a \in Bytes, NEW b \in Bytes
        PROVE  hton_16(Cast16(a, b)) \div 256 = a /\ hton_16(Cast16(a, b)) % 256 = b
    <2>1. /\ (a + 256 * b) % 256 = a /\ (a + 256 * b) \div 256 = b
          /\ (b + 256 * a) % 256 = b /\ (b + 256 * a) \div 256 = a
      BY TwoOctets
    <2>2. 256 * a + b = b + 256 * a /\ a * 256 + b = b + 256 * a
      BY Widths
    <2>3. hton_16(Cast16(a, b)) = b + 256 * a
      <3>1. CASE LittleEndian
        <4>1. hton_16(Cast16(a, b)) = ((a + 256 * b) % 256) * 256 + (a + 256 * b) \div 256
          BY <3>1 DEF hton_16, Cast16, byteswap
        <4> QED
          BY ONLY <2>1, <2>2, <4>1
      <3>2. CASE ~LittleEndian
        <4>1. hton_16(Cast16(a, b)) = 256 * a + b
          BY <3>2 DEF hton_16, Cast16
        <4> QED
          BY ONLY <2>2, <4>1
      <3> QED
        BY <3>1, <3>2
    <2> QED
      BY ONLY <2>1, <2>3
  <1> QED
    BY <1>1, <1>2

LEMMA FunctionSeq ==
    ASSUME NEW S, NEW n \in Nat, NEW f \in [1 .. n -> S]
    PROVE  f \in Seq(S) /\ Len(f) = n /\ \A i \in 1 .. n : f[i] \in S
  <1>1. f \in Seq(S)
    OBVIOUS
  <1> QED
    BY <1>1

\* What memory holds of an address is its groups in network order.
LEMMA MemoryWire ==
    ASSUME NEW g \in EightGroups
    PROVE  Memory(hton(g)) = Wire(g) /\ g \in Seq(Words16) /\ Len(g) = 8
  <1> DEFINE a == hton(g)
             m == Memory(a)
  <1>1. g \in Seq(Words16) /\ Len(g) = 8 /\ \A i \in 1 .. 8 : g[i] \in Words16
    <2>1. g \in [1 .. 8 -> Words16]
      BY DEF EightGroups, Indices
    <2>2. 8 \in Nat
      OBVIOUS
    <2> QED
      BY ONLY <2>1, <2>2, FunctionSeq
  <1>2. a = [i \in 1 .. 8 |-> hton_16(g[i])]
    BY DEF hton, EightGroups, Indices
  <1>3. \A i \in 1 .. 8 : hton_16(g[i]) \in Words16
    BY <1>1, Htons
  <1> HIDE DEF a
  <1>4. a \in [1 .. 8 -> Words16] /\ \A i \in 1 .. 8 : a[i] = hton_16(g[i])
    BY ONLY <1>2, <1>3
  <1>5. /\ m \in Strings /\ Len(m) = 16
        /\ \A i \in 1 .. 8 : m[2 * i - 1] = Octets(a[i])[1] /\ m[2 * i] = Octets(a[i])[2]
    BY <1>4, MemoryIs
  <1> HIDE DEF m
  <1>6. Pairs(m, g)
    <2>1. \A i \in 1 .. 8 : Octets(hton_16(g[i]))[1] = g[i] \div 256 /\ Octets(hton_16(g[i]))[2] = g[i] % 256
      BY <1>1, WireOrder
    <2>2. \A i \in 1 .. 8 : m[2 * i - 1] = g[i] \div 256 /\ m[2 * i] = g[i] % 256
      BY ONLY <1>4, <1>5, <2>1
    <2> QED
      BY ONLY <1>1, <2>2 DEF Pairs
  <1>7. m = [j \in 1 .. 2 * Len(g) |-> m[j]]
    <2>1. DOMAIN m = 1 .. Len(m) /\ 2 * 8 = 16
      BY <1>5, StringOps
    <2>2. m = [j \in DOMAIN m |-> m[j]]
      BY <1>5 DEF Strings
    <2> QED
      BY ONLY <1>1, <1>5, <2>1, <2>2
  <1>8. m = Wire(g)
    BY ONLY <1>1, <1>6, <1>7, IsWire
  <1> QED
    BY <1>1, <1>8 DEF m, a

\* The parts of SideMeaning: what section k stands for, its octet i, and the
\* octets of all sections one after the other.
OfPiece(p, last, k) == SectionMeaning(p[k], last /\ k = Len(p))
OctetAt(p, last, k, i) == (CHOOSE o \in OfPiece(p, last, k) : TRUE)[i]
LaidSize(p) == 2 * (Len(p) - 1) + (IF Contains(p[Len(p)], Dot) THEN 4 ELSE 2)
Laid(p, last) == [j \in 1 .. LaidSize(p) |->
                     IF j <= 2 * (Len(p) - 1) THEN OctetAt(p, last, (j + 1) \div 2, 2 - (j % 2))
                                              ELSE OctetAt(p, last, Len(p), j - 2 * (Len(p) - 1))]

LEMMA SideMeaningIs ==
    ASSUME NEW s, NEW last, NEW p, p = Split(s, Colon)
    PROVE  SideMeaning(s, last) =
             IF s = << >> THEN {<< >>}
             ELSE IF \E k \in 1 .. Len(p) : OfPiece(p, last, k) = {} THEN {}
             ELSE {Laid(p, last)}
  BY DEF SideMeaning, OfPiece, OctetAt, LaidSize, Laid

LEMMA ChooseOne ==
    ASSUME NEW x
    PROVE  (CHOOSE o \in {x} : TRUE) = x
  OBVIOUS

\* What one section stands for.
LEMMA SectionMeans ==
    ASSUME NEW w \in Texts, NEW b \in BOOLEAN
    PROVE  /\ Hex(w) => SectionMeaning(w, b) = {<<Number(w, 16) \div 256, Number(w, 16) % 256>>}
           /\ Quad(w) /\ b => SectionMeaning(w, b) = {V4FromString(w)}
           /\ ~Hex(w) /\ ~(Quad(w) /\ b) => SectionMeaning(w, b) = {}
  <1> DEFINE hex == FromChars(w, 16, MaxWord)
             v4 == V4FromString(w)
             n == Number(w, 16)
  <1>1. SectionMeaning(w, b) =
          IF Contains(w, Dot) THEN {o \in {v4} : b /\ o # Invalid}
          ELSE IF Len(w) \in 1 .. 4 /\ hex # Invalid
               THEN {<<hex[1] \div 256, hex[1] % 256>>} ELSE {}
    BY DEF SectionMeaning
  <1>2. ASSUME Hex(w) PROVE SectionMeaning(w, b) = {<<n \div 256, n % 256>>}
    <2>1. hex = <<n>>
      BY <1>2, HexReads
    <2>2. ~Contains(w, Dot) /\ Len(w) \in 1 .. 4 /\ hex # Invalid
      BY <1>2 DEF Hex
    <2> HIDE DEF hex, v4, n
    <2>3. <<n>>[1] = n
      OBVIOUS
    <2>4. SectionMeaning(w, b) = {<<hex[1] \div 256, hex[1] % 256>>}
      BY ONLY <1>1, <2>2
    <2> QED
      BY ONLY <2>1, <2>3, <2>4
  <1>3. ASSUME Quad(w), b PROVE SectionMeaning(w, b) = {v4}
    <2>1. Contains(w, Dot) /\ v4 # Invalid
      BY <1>3 DEF Quad
    <2> HIDE DEF hex, v4
    <2>2. {o \in {v4} : b /\ o # Invalid} = {v4}
      BY <1>3, <2>1
    <2> QED
      BY ONLY <1>1, <2>1, <2>2
  <1>4. ASSUME ~Hex(w), ~(Quad(w) /\ b) PROVE SectionMeaning(w, b) = {}
    <2>1. CASE Contains(w, Dot)
      <3>1. ~(b /\ v4 # Invalid)
        BY <1>4, <2>1 DEF Quad
      <3> HIDE DEF hex, v4
      <3>2. {o \in {v4} : b /\ o # Invalid} = {}
        BY ONLY <3>1
      <3> QED
        BY ONLY <1>1, <2>1, <3>2
    <2>2. CASE ~Contains(w, Dot)
      <3>1. ~(Len(w) \in 1 .. 4 /\ hex # Invalid)
        BY <1>4, <2>2 DEF Hex
      <3> HIDE DEF hex, v4
      <3> QED
        BY ONLY <1>1, <2>2, <3>1
    <2> QED
      BY <2>1, <2>2
  <1> QED
    BY <1>2, <1>3, <1>4

\* Sections that stand for something make sense.
LEMMA MeantEnds ==
    ASSUME NEW s \in Texts, s # << >>, NEW last \in BOOLEAN, NEW p, p = Split(s, Colon),
           SideMeaning(s, last) # {}
    PROVE  Ends(p) /\ (Contains(Final(p), Dot) => last)
  <1> DEFINE n == Len(p)
  <1>1. n \in Nat /\ n >= 1 /\ \A k \in 1 .. n : p[k] \in Texts
    BY PiecesType
  <1>2. \A k \in 1 .. n : SectionMeaning(p[k], last /\ k = n) # {}
    BY SideMeaningIs DEF OfPiece
  <1> HIDE DEF n
  <1>3. \A k \in 1 .. n : Hex(p[k]) \/ (Quad(p[k]) /\ last /\ k = n)
    <2> TAKE k \in 1 .. n
    <2>1. p[k] \in Texts /\ (last /\ k = n) \in BOOLEAN
      BY <1>1
    <2>2. SectionMeaning(p[k], last /\ k = n) # {}
      BY <1>2
    <2> DEFINE b == last /\ k = n
    <2>3. ~(~Hex(p[k]) /\ ~(Quad(p[k]) /\ b))
      <3> HIDE DEF b
      <3>1. b \in BOOLEAN /\ SectionMeaning(p[k], b) # {}
        BY <2>1, <2>2 DEF b
      <3> QED
        BY ONLY <2>1, <3>1, SectionMeans
    <2> QED
      BY ONLY <2>3
  <1>4. n \in 1 .. n /\ \A k \in 1 .. n - 1 : k \in 1 .. n /\ k # n
    BY ONLY <1>1
  <1>5. (\A k \in 1 .. n - 1 : Hex(p[k])) /\ (Hex(p[n]) \/ (Quad(p[n]) /\ last))
    BY ONLY <1>3, <1>4
  <1>6. Contains(p[n], Dot) => last
    BY <1>5 DEF Hex
  <1> QED
    BY <1>5, <1>6 DEF Ends, Final, n

\* The octets that sections which make sense stand for.
LEMMA Meant ==
    ASSUME NEW s \in Texts, s # << >>, NEW gs, NEW seen, Told(s, gs, seen),
           NEW last \in BOOLEAN, seen => last, NEW p, p = Split(s, Colon), Ends(p)
    PROVE  SideMeaning(s, last) = {Wire(gs)}
  <1> DEFINE n == Len(p)
             w == p[n]
             x == Laid(p, last)
             v4 == V4FromString(w)
  <1>1. n \in Nat /\ n >= 1 /\ \A k \in 1 .. n : p[k] \in Texts
    BY PiecesType
  <1>2. /\ seen <=> Contains(w, Dot)
        /\ gs \in Seq(Words16) /\ \A k \in 1 .. n - 1 : gs[k] = Number(p[k], 16)
        /\ IF Contains(w, Dot)
           THEN Len(gs) = n + 1 /\ gs[n] = SectionOfV4(v4)[1] /\ gs[n + 1] = SectionOfV4(v4)[2]
           ELSE Len(gs) = n /\ gs[n] = Number(w, 16)
    BY DEF Told, Spelled, Final
  <1>3. (\A k \in 1 .. n - 1 : Hex(p[k])) /\ (Hex(w) \/ Quad(w))
    BY DEF Ends, Final
  <1>4. x = [j \in 1 .. LaidSize(p) |->
               IF j <= 2 * (n - 1) THEN OctetAt(p, last, (j + 1) \div 2, 2 - (j % 2))
                                   ELSE OctetAt(p, last, n, j - 2 * (n - 1))]
    BY DEF Laid
  <1>5. LaidSize(p) = 2 * Len(gs)
    <2>1. LaidSize(p) = 2 * (n - 1) + (IF Contains(w, Dot) THEN 4 ELSE 2)
      BY DEF LaidSize
    <2> HIDE DEF n, w, v4
    <2>2. CASE Contains(w, Dot)
      <3>1. Len(gs) = n + 1 /\ LaidSize(p) = 2 * (n - 1) + 4
        BY ONLY <1>2, <2>1, <2>2
      <3> QED
        BY ONLY <1>1, <3>1
    <2>3. CASE ~Contains(w, Dot)
      <3>1. Len(gs) = n /\ LaidSize(p) = 2 * (n - 1) + 2
        BY ONLY <1>2, <2>1, <2>3
      <3> QED
        BY ONLY <1>1, <3>1
    <2> QED
      BY <2>2, <2>3
  <1>6. w \in Texts
    BY <1>1
  <1>7. \A k \in 1 .. n : Hex(p[k]) => OfPiece(p, last, k) = {<<Number(p[k], 16) \div 256, Number(p[k], 16) % 256>>}
    <2> TAKE k \in 1 .. n
    <2>1. p[k] \in Texts /\ (last /\ k = n) \in BOOLEAN
      BY <1>1
    <2> DEFINE b == last /\ k = n
    <2>2. b \in BOOLEAN /\ OfPiece(p, last, k) = SectionMeaning(p[k], b)
      BY <2>1 DEF OfPiece
    <2> HIDE DEF b
    <2>3. Hex(p[k]) => SectionMeaning(p[k], b) = {<<Number(p[k], 16) \div 256, Number(p[k], 16) % 256>>}
      BY ONLY <2>1, <2>2, SectionMeans
    <2> QED
      BY ONLY <2>2, <2>3
  <1>8. Quad(w) => OfPiece(p, last, n) = {v4}
    <2> SUFFICES ASSUME Quad(w) PROVE OfPiece(p, last, n) = {v4}
      OBVIOUS
    <2>1. Contains(w, Dot)
      BY DEF Quad
    <2>2. last
      BY <1>2, <2>1
    <2>3. (last /\ n = n) \in BOOLEAN /\ (last /\ n = n)
      BY <2>2
    <2>4. SectionMeaning(w, last /\ n = n) = {v4}
      BY ONLY <1>6, <2>3, Quad(w), SectionMeans
    <2> QED
      BY <2>4 DEF OfPiece
  <1>9. n \in 1 .. n /\ \A k \in 1 .. n - 1 : k \in 1 .. n
    BY ONLY <1>1
  <1>10. \A a, b : <<a, b>>[1] = a /\ <<a, b>>[2] = b
    OBVIOUS
  <1>11. \A k \in 1 .. n : Hex(p[k]) => /\ OctetAt(p, last, k, 1) = Number(p[k], 16) \div 256
                                        /\ OctetAt(p, last, k, 2) = Number(p[k], 16) % 256
    <2> SUFFICES ASSUME NEW k \in 1 .. n, Hex(p[k])
                 PROVE  /\ OctetAt(p, last, k, 1) = Number(p[k], 16) \div 256
                        /\ OctetAt(p, last, k, 2) = Number(p[k], 16) % 256
      OBVIOUS
    <2> DEFINE a == Number(p[k], 16) \div 256
               b == Number(p[k], 16) % 256
    <2>1. OfPiece(p, last, k) = {<<a, b>>}
      BY <1>7
    <2> HIDE DEF a, b
    <2>2. (CHOOSE o \in OfPiece(p, last, k) : TRUE) = <<a, b>>
      BY ONLY <2>1, ChooseOne
    <2> DEFINE c == CHOOSE o \in OfPiece(p, last, k) : TRUE
    <2>3. OctetAt(p, last, k, 1) = c[1] /\ OctetAt(p, last, k, 2) = c[2] /\ c = <<a, b>>
      BY <2>2 DEF OctetAt
    <2> HIDE DEF c
    <2>4. OctetAt(p, last, k, 1) = a /\ OctetAt(p, last, k, 2) = b
      BY ONLY <1>10, <2>3
    <2> QED
      BY ONLY <2>4 DEF a, b
  <1>12. Quad(w) => \A i : OctetAt(p, last, n, i) = v4[i]
    <2> HIDE DEF v4, n, w
    <2> SUFFICES ASSUME Quad(w), NEW i PROVE OctetAt(p, last, n, i) = v4[i]
      OBVIOUS
    <2>1. OfPiece(p, last, n) = {v4}
      BY <1>8
    <2>2. (CHOOSE o \in OfPiece(p, last, n) : TRUE) = v4
      BY ONLY <2>1, ChooseOne
    <2> QED
      BY ONLY <2>2 DEF OctetAt
  <1>13. SideMeaning(s, last) = {x}
    <2>1. \A k \in 1 .. n : OfPiece(p, last, k) # {}
      <3>1. \A k \in 1 .. n : k \in 1 .. n - 1 \/ k = n
        BY ONLY <1>1
      <3>2. ASSUME NEW k \in 1 .. n, Hex(p[k]) PROVE OfPiece(p, last, k) # {}
        <4> DEFINE e == <<Number(p[k], 16) \div 256, Number(p[k], 16) % 256>>
        <4>1. OfPiece(p, last, k) = {e}
          BY <1>7, <3>2
        <4> HIDE DEF e
        <4> QED
          BY ONLY <4>1
      <3>3. Quad(w) => OfPiece(p, last, n) # {}
        BY <1>8
      <3> QED
        BY ONLY <1>3, <1>9, <3>1, <3>2, <3>3
    <2> QED
      BY <2>1, SideMeaningIs
  <1> HIDE DEF n, w, x, v4
  <1>14. Pairs(x, gs)
    <2>1. Len(gs) \in Nat
      BY <1>2, GroupOps
    <2>2. ASSUME NEW i \in 1 .. Len(gs)
          PROVE  x[2 * i - 1] = gs[i] \div 256 /\ x[2 * i] = gs[i] % 256
      <3> DEFINE a == 2 * i - 1
                 b == 2 * i
      <3>1. /\ a \in 1 .. 2 * Len(gs) /\ b \in 1 .. 2 * Len(gs) /\ a % 2 = 1 /\ b % 2 = 0
            /\ (a + 1) \div 2 = i /\ (b + 1) \div 2 = i
        BY <2>1, Halves
      <3>2. /\ i <= n - 1 => a <= 2 * (n - 1) /\ b <= 2 * (n - 1)
            /\ i >= n => ~(a <= 2 * (n - 1)) /\ ~(b <= 2 * (n - 1))
            /\ i = n => a - 2 * (n - 1) = 1 /\ b - 2 * (n - 1) = 2
            /\ i = n + 1 => a - 2 * (n - 1) = 3 /\ b - 2 * (n - 1) = 4
        BY <1>1, <2>1
      <3> HIDE DEF a, b
      <3>3. /\ x[a] = IF a <= 2 * (n - 1) THEN OctetAt(p, last, (a + 1) \div 2, 2 - (a % 2))
                                          ELSE OctetAt(p, last, n, a - 2 * (n - 1))
            /\ x[b] = IF b <= 2 * (n - 1) THEN OctetAt(p, last, (b + 1) \div 2, 2 - (b % 2))
                                          ELSE OctetAt(p, last, n, b - 2 * (n - 1))
        BY ONLY <1>4, <1>5, <3>1
      <3>4. 2 - 1 = 1 /\ 2 - 0 = 2
        OBVIOUS
      <3>5. CASE i <= n - 1
        <4>1. i \in 1 .. n - 1 /\ i \in 1 .. n
          BY <1>1, <2>1, <3>5
        <4>2. x[a] = OctetAt(p, last, i, 1) /\ x[b] = OctetAt(p, last, i, 2)
          BY ONLY <3>1, <3>2, <3>3, <3>4, <3>5
        <4>3. Hex(p[i]) /\ gs[i] = Number(p[i], 16)
          BY ONLY <1>2, <1>3, <4>1
        <4>4. x[a] = gs[i] \div 256 /\ x[b] = gs[i] % 256
          BY ONLY <1>11, <4>1, <4>2, <4>3
        <4> QED
          BY ONLY <4>4 DEF a, b
      <3>6. CASE i = n /\ Hex(w)
        <4>1. ~Contains(w, Dot) /\ n >= n
          BY <1>1, <3>6 DEF Hex
        <4>2. x[a] = OctetAt(p, last, n, 1) /\ x[b] = OctetAt(p, last, n, 2)
          BY ONLY <3>2, <3>3, <3>6, <4>1
        <4>3. Hex(p[n]) /\ gs[i] = Number(p[n], 16)
          BY <1>2, <3>6, <4>1 DEF w
        <4>4. x[a] = gs[i] \div 256 /\ x[b] = gs[i] % 256
          BY ONLY <1>9, <1>11, <4>2, <4>3
        <4> QED
          BY ONLY <4>4 DEF a, b
      <3>7. CASE i >= n /\ Quad(w)
        <4>1. Contains(w, Dot) /\ Len(gs) = n + 1 /\ gs[n] = SectionOfV4(v4)[1] /\ gs[n + 1] = SectionOfV4(v4)[2]
          BY <1>2, <3>7 DEF Quad
        <4>2. v4 \in [1 .. 4 -> Bytes]
          BY <1>6, <3>7, QuadTextReads DEF v4
        <4>3. v4[1] \in Bytes /\ v4[2] \in Bytes /\ v4[3] \in Bytes /\ v4[4] \in Bytes
          BY ONLY <4>2
        <4>4. /\ SectionOfV4(v4)[1] = hton_16(Cast16(v4[1], v4[2]))
              /\ SectionOfV4(v4)[2] = hton_16(Cast16(v4[3], v4[4]))
          BY ONLY <1>10 DEF SectionOfV4
        <4>5. /\ gs[n] \div 256 = v4[1] /\ gs[n] % 256 = v4[2]
              /\ gs[n + 1] \div 256 = v4[3] /\ gs[n + 1] % 256 = v4[4]
          BY ONLY <4>1, <4>3, <4>4, WireOrder
        <4>6. /\ x[a] = OctetAt(p, last, n, a - 2 * (n - 1))
              /\ x[b] = OctetAt(p, last, n, b - 2 * (n - 1))
          BY ONLY <3>2, <3>3, <3>7
        <4>7. x[a] = v4[a - 2 * (n - 1)] /\ x[b] = v4[b - 2 * (n - 1)]
          BY ONLY <1>12, <3>7, <4>6
        <4>8. i = n \/ i = n + 1
          BY ONLY <1>1, <2>1, <2>2, <3>7, <4>1
        <4>9. x[a] = gs[i] \div 256 /\ x[b] = gs[i] % 256
          BY ONLY <3>2, <4>5, <4>7, <4>8
        <4> QED
          BY ONLY <4>9 DEF a, b
      <3>8. i <= n - 1 \/ (i = n /\ Hex(w)) \/ (i >= n /\ Quad(w))
        <4>1. CASE Hex(w)
          <5>1. Len(gs) = n
            BY <1>2, <4>1 DEF Hex
          <5>2. i <= n - 1 \/ i = n
            BY ONLY <1>1, <2>1, <2>2, <5>1
          <5> QED
            BY ONLY <4>1, <5>2
        <4>2. CASE Quad(w)
          <5>1. i <= n - 1 \/ i >= n
            BY ONLY <1>1, <2>1, <2>2
          <5> QED
            BY ONLY <4>2, <5>1
        <4> QED
          BY ONLY <1>3, <4>1, <4>2
      <3> QED
        BY ONLY <3>5, <3>6, <3>7, <3>8
    <2> QED
      BY ONLY <2>2 DEF Pairs
  <1>15. x = [j \in 1 .. 2 * Len(gs) |-> x[j]]
    BY ONLY <1>4, <1>5
  <1>16. x = Wire(gs)
    BY ONLY <1>2, <1>14, <1>15, IsWire
  <1> QED
    BY ONLY <1>13, <1>16

\* One side of a gap: it is empty, or its sections make sense; the groups it
\* is read as are the octets it means.
Counted(t, gs, seen) ==
    /\ seen <=> Contains(Final(Split(t, Colon)), Dot)
    /\ Len(gs) = Len(Split(t, Colon)) + (IF seen THEN 1 ELSE 0)
    /\ seen => Contains(t, Dot)

Side(t, gs, seen) ==
    /\ t \in Texts /\ gs \in Seq(Words16) /\ seen \in BOOLEAN
    /\ Part(t, gs, seen)
    /\ t = << >> => gs = << >> /\ ~seen
    /\ t # << >> => Counted(t, gs, seen) /\ Reads(t, gs, seen)
    /\ SideMeaning(t, TRUE) = {Wire(gs)}
    /\ seen => SideMeaning(t, FALSE) = {}
    /\ ~seen => SideMeaning(t, FALSE) = {Wire(gs)}

LEMMA EmptySide == Side(<< >>, << >>, FALSE)
  <1>1. << >> \in Texts /\ << >> \in Seq(Words16)
    BY TextOps, GroupOps
  <1>2. SideMeaning(<< >>, TRUE) = {<< >>} /\ SideMeaning(<< >>, FALSE) = {<< >>}
    BY SideMeaningIs
  <1>3. Wire(<< >>) = << >>
    <2>1. Wire(<< >>) \in Strings /\ Len(Wire(<< >>)) = 2 * Len(<< >>)
      BY <1>1, WireIs
    <2>2. Len(<< >>) = 0 /\ 2 * 0 = 0
      OBVIOUS
    <2> QED
      BY ONLY <2>1, <2>2, EmptySeq DEF Strings
  <1> QED
    BY <1>1, <1>2, <1>3 DEF Side, Part

LEMMA EndsSide ==
    ASSUME NEW t \in Texts, t # << >>, NEW p, p = Split(t, Colon), Ends(p)
    PROVE  \E gs, seen : Side(t, gs, seen)
  <1>1. PICK gs, seen : Told(t, gs, seen)
    BY EndsRead
  <1>2. /\ seen \in BOOLEAN /\ (seen <=> Contains(Final(p), Dot)) /\ Reads(t, gs, seen)
        /\ Spelled(p, gs) /\ (seen => Contains(t, Dot))
    BY <1>1 DEF Told
  <1>3. gs \in Seq(Words16)
    BY <1>2 DEF Spelled
  <1>4. Len(gs) = Len(p) + (IF seen THEN 1 ELSE 0)
    <2>1. IF Contains(Final(p), Dot) THEN Len(gs) = Len(p) + 1 ELSE Len(gs) = Len(p)
      BY <1>2 DEF Spelled
    <2>2. Len(p) \in Nat
      BY PiecesType
    <2>3. CASE seen
      BY <1>2, <2>1, <2>3
    <2>4. CASE ~seen
      BY <1>2, <2>1, <2>2, <2>4
    <2> QED
      BY <2>3, <2>4
  <1>5. SideMeaning(t, TRUE) = {Wire(gs)}
    BY <1>1, Meant
  <1>6. ASSUME ~seen PROVE SideMeaning(t, FALSE) = {Wire(gs)}
    BY <1>1, <1>6, Meant
  <1>7. ASSUME seen PROVE SideMeaning(t, FALSE) = {}
    <2> SUFFICES ASSUME SideMeaning(t, FALSE) # {} PROVE FALSE
      OBVIOUS
    <2>1. Contains(Final(p), Dot) => FALSE
      BY MeantEnds
    <2> QED
      BY <1>2, <1>7, <2>1
  <1>8. Counted(t, gs, seen)
    BY <1>2, <1>4 DEF Counted
  <1>9. Side(t, gs, seen)
    BY <1>2, <1>3, <1>5, <1>6, <1>7, <1>8 DEF Side, Part
  <1> QED
    BY <1>9

\* What means something is a side.
LEMMA MeantSide ==
    ASSUME NEW t \in Texts, NEW last \in BOOLEAN, SideMeaning(t, last) # {}
    PROVE  \E gs, seen : Side(t, gs, seen)
  <1>1. CASE t = << >>
    BY <1>1, EmptySide
  <1>2. CASE t # << >>
    <2>1. Ends(Split(t, Colon))
      BY <1>2, MeantEnds
    <2> QED
      BY <1>2, <2>1, EndsSide
  <1> QED
    BY <1>1, <1>2

\* What is read is a side.
SideTaken(st, t, gs, seen) ==
    /\ Side(t, gs, seen) /\ Len(st.groups) + Len(gs) <= 8
    /\ ReadSide(st, t) = Reading(st.groups \o gs, seen)
    /\ ReadSide(st, t).groups = st.groups \o gs /\ ReadSide(st, t).seen_ipv4 = seen

LEMMA ReadIsSide ==
    ASSUME NEW st \in States, st.ok, ~st.seen_ipv4, NEW t \in Texts, ReadSide(st, t).ok
    PROVE  \E gs, seen : SideTaken(st, t, gs, seen)
  <1> DEFINE r == ReadSide(st, t)
             p == Split(t, Colon)
  <1>1. st.groups \in Groups /\ Len(st.groups) \in 0 .. 8 /\ st.groups \in Seq(Words16)
    BY StateOps, GroupOps
  <1>2. r \in States /\ r.groups \in Groups /\ Len(r.groups) \in 0 .. 8
    <2>1. r \in States
      BY SideType
    <2> HIDE DEF r
    <2>2. r.groups \in Groups
      BY ONLY <2>1, StateOps
    <2>3. Len(r.groups) \in 0 .. 8
      BY ONLY <2>2, GroupOps
    <2> QED
      BY <2>1, <2>2, <2>3
  <1>3. CASE t = << >>
    <2>1. r = st
      BY <1>3 DEF ReadSide
    <2>2. st = Reading(st.groups, FALSE) /\ st.seen_ipv4 = FALSE
      BY StateOps
    <2>3. st.groups \o << >> = st.groups
      BY <1>1, GroupsAssoc
    <2>4. Len(st.groups) + Len(<< >>) <= 8
      <3>1. \A n \in 0 .. 8 : n + Len(<< >>) <= 8
        OBVIOUS
      <3> QED
        BY ONLY <1>1, <3>1, Zenon
    <2> HIDE DEF r
    <2>5. SideTaken(st, t, << >>, FALSE)
      BY <1>3, <2>1, <2>2, <2>3, <2>4, EmptySide DEF SideTaken, r
    <2> QED
      BY <2>5
  <1>4. CASE t # << >>
    <2>1. r = Sections(st, p)
      BY <1>4 DEF ReadSide, Sections
    <2>2. p \in Seq(Texts) /\ Len(p) \in Nat /\ Len(p) >= 1
      BY PiecesType
    <2>3. p # << >>
      BY ONLY <2>2
    <2> HIDE DEF p, r
    <2>4. ReadOn(st, p, r)
      <3>1. r.ok
        BY DEF r
      <3>2. st \in States /\ st.ok /\ ~st.seen_ipv4
        OBVIOUS
      <3>3. Sections(st, p).ok => ReadOn(st, p, Sections(st, p))
        BY ONLY <2>2, <3>2, ReadOnAll
      <3> QED
        BY ONLY <2>1, <3>1, <3>3
    <2>5. /\ Ends(p)
          /\ Len(r.groups) = Len(st.groups) + Len(p) + (IF Contains(Final(p), Dot) THEN 1 ELSE 0)
      BY <2>3, <2>4 DEF ReadOn
    <2>6. PICK gs, seen : Side(t, gs, seen)
      BY <1>4, <2>5, EndsSide DEF p
    <2>7. Counted(t, gs, seen) /\ Reads(t, gs, seen) /\ seen \in BOOLEAN
      BY <1>4, <2>6 DEF Side
    <2>8. (seen <=> Contains(Final(p), Dot)) /\ Len(gs) = Len(p) + (IF seen THEN 1 ELSE 0)
      BY <2>7 DEF Counted, p
    <2>9. Len(st.groups) + Len(gs) = Len(r.groups)
      <3>1. \A a, b \in Nat : a + b + 0 = a + (b + 0) /\ a + b + 1 = a + (b + 1)
        OBVIOUS
      <3>2. Len(st.groups) \in Nat
        BY <1>1
      <3>3. CASE seen
        BY ONLY <2>2, <2>5, <2>8, <3>1, <3>2, <3>3
      <3>4. CASE ~seen
        BY ONLY <2>2, <2>5, <2>8, <3>1, <3>2, <3>4
      <3> QED
        BY <3>3, <3>4
    <2>10. Len(st.groups) + Len(gs) <= 8
      <3>1. \A n \in 0 .. 8 : n <= 8
        OBVIOUS
      <3>2. Len(r.groups) <= 8
        BY ONLY <1>2, <3>1, Zenon
      <3> QED
        BY ONLY <2>9, <3>2
    <2>11. Room(st, gs)
      BY <2>10 DEF Room
    <2>12. r = Reading(st.groups \o gs, seen) /\ gs \in Seq(Words16)
      BY <2>7, <2>11 DEF Reads, Takes, r
    <2>13. st.groups \o gs \in Groups
      BY <1>1, <2>10, <2>12, GroupOps
    <2>14. r.groups = st.groups \o gs /\ r.seen_ipv4 = seen
      BY ONLY <2>7, <2>12, <2>13, StateOps
    <2>15. SideTaken(st, t, gs, seen)
      BY <2>6, <2>10, <2>12, <2>14 DEF SideTaken, r
    <2> QED
      BY <2>15
  <1> QED
    BY <1>3, <1>4

\* The octets of groups put together.
LEMMA WireJoin ==
    ASSUME NEW a \in Seq(Words16), NEW b \in Seq(Words16)
    PROVE  Wire(a \o b) = Wire(a) \o Wire(b)
  <1> DEFINE n == Len(a)
             m == Len(b)
             u == Wire(a)
             v == Wire(b)
             x == u \o v
             c == a \o b
  <1>1. n \in Nat /\ m \in Nat
    BY GroupOps
  <1>2. /\ c \in Seq(Words16) /\ Len(c) = n + m
        /\ \A i \in 1 .. n : c[i] = a[i]
        /\ \A i \in 1 .. m : c[n + i] = b[i]
    BY GroupOps
  <1>3. u \in Strings /\ Len(u) = 2 * n /\ Pairs(u, a) /\ v \in Strings /\ Len(v) = 2 * m /\ Pairs(v, b)
    BY WireIs
  <1> HIDE DEF u, v
  <1>4. /\ x \in Strings /\ Len(x) = 2 * n + 2 * m
        /\ \A i \in 1 .. 2 * n : x[i] = u[i]
        /\ \A i \in 1 .. 2 * m : x[2 * n + i] = v[i]
    <2>1. u \in Strings /\ v \in Strings
      BY <1>3
    <2>2. /\ x \in Strings /\ Len(x) = Len(u) + Len(v)
          /\ \A i \in 1 .. Len(u) : x[i] = u[i]
          /\ \A i \in 1 .. Len(v) : x[Len(u) + i] = v[i]
      BY ONLY <2>1, JoinedString
    <2> HIDE DEF x
    <2> QED
      BY ONLY <1>3, <2>2
  <1> HIDE DEF x, c, n, m
  <1>5. /\ \A i \in 1 .. n : u[2 * i - 1] = a[i] \div 256 /\ u[2 * i] = a[i] % 256
        /\ \A i \in 1 .. m : v[2 * i - 1] = b[i] \div 256 /\ v[2 * i] = b[i] % 256
    BY <1>3 DEF Pairs, n, m
  <1>6. Pairs(x, c)
    <2>1. ASSUME NEW i \in 1 .. n PROVE x[2 * i - 1] = c[i] \div 256 /\ x[2 * i] = c[i] % 256
      <3>1. 2 * i - 1 \in 1 .. 2 * n /\ 2 * i \in 1 .. 2 * n
        BY <1>1
      <3> QED
        BY ONLY <1>2, <1>4, <1>5, <2>1, <3>1
    <2>2. ASSUME NEW k \in 1 .. m PROVE x[2 * (n + k) - 1] = c[n + k] \div 256 /\ x[2 * (n + k)] = c[n + k] % 256
      <3>1. /\ 2 * k - 1 \in 1 .. 2 * m /\ 2 * k \in 1 .. 2 * m
            /\ 2 * (n + k) - 1 = 2 * n + (2 * k - 1) /\ 2 * (n + k) = 2 * n + 2 * k
        BY <1>1
      <3>2. x[2 * n + (2 * k - 1)] = v[2 * k - 1] /\ x[2 * n + 2 * k] = v[2 * k]
        BY ONLY <1>4, <3>1
      <3>3. v[2 * k - 1] = b[k] \div 256 /\ v[2 * k] = b[k] % 256 /\ c[n + k] = b[k]
        BY ONLY <1>2, <1>5, <2>2
      <3> QED
        BY ONLY <3>1, <3>2, <3>3
    <2>3. ASSUME NEW i \in 1 .. Len(c) PROVE x[2 * i - 1] = c[i] \div 256 /\ x[2 * i] = c[i] % 256
      <3>1. i \in 1 .. n \/ (i - n \in 1 .. m /\ n + (i - n) = i)
        BY <1>1, <1>2
      <3>2. CASE i \in 1 .. n
        BY ONLY <2>1, <3>2
      <3>3. CASE i - n \in 1 .. m /\ n + (i - n) = i
        <4> DEFINE k == i - n
        <4>1. k \in 1 .. m /\ n + k = i
          BY <3>3
        <4> HIDE DEF k
        <4> QED
          BY ONLY <2>2, <4>1
      <3> QED
        BY ONLY <3>1, <3>2, <3>3
    <2> QED
      BY ONLY <2>3 DEF Pairs
  <1>7. x = [j \in 1 .. 2 * Len(c) |-> x[j]]
    <2>1. DOMAIN x = 1 .. Len(x)
      BY <1>4, StringOps
    <2>2. x = [j \in DOMAIN x |-> x[j]]
      BY <1>4 DEF Strings
    <2>3. 2 * n + 2 * m = 2 * (n + m)
      BY <1>1
    <2> QED
      BY ONLY <1>2, <1>4, <2>1, <2>2, <2>3
  <1>8. x = Wire(c)
    BY ONLY <1>2, <1>6, <1>7, IsWire
  <1> QED
    BY <1>8 DEF x, c, u, v

LEMMA WireZeros ==
    ASSUME NEW n \in Nat
    PROVE  Wire(Zeros(n)) = Zeros(2 * n)
  <1> DEFINE z == Zeros(n)
             x == Zeros(2 * n)
  <1>1. z \in Seq(Words16) /\ Len(z) = n /\ \A i \in 1 .. n : z[i] = 0
    BY ZerosType
  <1>2. x = [j \in 1 .. 2 * n |-> 0]
    BY DEF Zeros
  <1> HIDE DEF x, z
  <1>3. \A j \in 1 .. 2 * n : x[j] = 0
    BY ONLY <1>2
  <1>4. x = [j \in 1 .. 2 * Len(z) |-> x[j]]
    BY ONLY <1>1, <1>2
  <1>5. Pairs(x, z)
    <2>1. \A i \in 1 .. n : 2 * i - 1 \in 1 .. 2 * n /\ 2 * i \in 1 .. 2 * n
      OBVIOUS
    <2>2. 0 \div 256 = 0 /\ 0 % 256 = 0
      OBVIOUS
    <2> QED
      BY ONLY <1>1, <1>3, <2>1, <2>2 DEF Pairs
  <1>6. x = Wire(z)
    BY ONLY <1>1, <1>4, <1>5, IsWire
  <1> QED
    BY <1>6 DEF x, z

\* The octets of the groups around a gap and of the zeros between them.
Filled(x, y) == x \o Zeros(16 - Len(x) - Len(y)) \o y

LEMMA WireGap ==
    ASSUME NEW gl \in Seq(Words16), NEW gr \in Seq(Words16), Len(gl) + Len(gr) <= 8,
           NEW l, l = Wire(gl), NEW r, r = Wire(gr)
    PROVE  /\ CloseGap(gl, gl \o gr) \in EightGroups
           /\ Wire(CloseGap(gl, gl \o gr)) = Filled(l, r)
           /\ Len(l) = 2 * Len(gl) /\ Len(r) = 2 * Len(gr)
  <1> DEFINE z == 8 - Len(gl) - Len(gr)
             zs == Zeros(z)
             g == CloseGap(gl, gl \o gr)
  <1>1. Len(gl) \in Nat /\ Len(gr) \in Nat
    BY GroupOps
  <1>2. z \in Nat /\ 16 - 2 * Len(gl) - 2 * Len(gr) = 2 * z /\ Len(gl) + z + Len(gr) = 8
    <2>1. \A n, m \in Nat : n + m <= 8 =>
             8 - n - m \in Nat /\ 16 - 2 * n - 2 * m = 2 * (8 - n - m) /\ n + (8 - n - m) + m = 8
      OBVIOUS
    <2> QED
      BY <1>1, <2>1
  <1>3. zs \in Seq(Words16) /\ Len(zs) = z /\ Wire(zs) = Zeros(2 * z)
    BY <1>2, ZerosType, WireZeros
  <1>4. g = gl \o zs \o gr
    BY GapIs
  <1> HIDE DEF z, zs, g
  <1>5. gl \o zs \in Seq(Words16) /\ Len(gl \o zs) = Len(gl) + z
    BY <1>3, GroupOps
  <1>6. g \in Seq(Words16) /\ Len(g) = 8
    <2>1. gl \o zs \o gr \in Seq(Words16) /\ Len(gl \o zs \o gr) = Len(gl \o zs) + Len(gr)
      BY <1>5, GroupOps
    <2> QED
      BY ONLY <1>2, <1>4, <1>5, <2>1
  <1>7. g \in EightGroups
    <2>1. DOMAIN g = 1 .. 8 /\ \A i \in 1 .. 8 : g[i] \in Words16
      BY <1>6, GroupOps
    <2>2. g = [i \in DOMAIN g |-> g[i]]
      BY <1>6
    <2>3. g \in [1 .. 8 -> Words16]
      BY ONLY <2>1, <2>2
    <2> QED
      BY <2>3 DEF EightGroups, Indices
  <1>8. Wire(g) = l \o Zeros(2 * z) \o r
    <2>1. Wire(gl \o zs) = l \o Zeros(2 * z)
      BY <1>3, WireJoin
    <2>2. Wire(gl \o zs \o gr) = Wire(gl \o zs) \o r
      BY <1>5, WireJoin
    <2> QED
      BY ONLY <1>4, <2>1, <2>2
  <1>9. Len(l) = 2 * Len(gl) /\ Len(r) = 2 * Len(gr)
    BY WireIs
  <1> QED
    BY ONLY <1>2, <1>7, <1>8, <1>9 DEF g, Filled

\* What split by two characters leaves, put together again, is the text.
Mended(s, q, w, c1, c2) ==
    /\ q \in Seq(Texts) /\ w \in Texts /\ SplitPair(s, c1, c2) = Append(q, w)
    /\ Len(q) = 0 => s = w
    /\ Len(q) = 1 => q[1] \in Texts /\ s = q[1] \o <<c1, c2>> \o w

LEMMA MendOne ==
    ASSUME NEW c1 \in Chars, NEW c2 \in Chars, NEW s \in Texts, NEW c \in Chars,
           NEW q, NEW w, Mended(s, q, w, c1, c2)
    PROVE  \E q2, w2 : Mended(Append(s, c), q2, w2, c1, c2)
  <1>1. /\ q \in Seq(Texts) /\ w \in Texts /\ SplitPair(s, c1, c2) = Append(q, w)
        /\ Len(q) = 0 => s = w
        /\ Len(q) = 1 => q[1] \in Texts /\ s = q[1] \o <<c1, c2>> \o w
    BY DEF Mended
  <1> DEFINE cut == c = c2 /\ w # << >> /\ w[Len(w)] = c1
             f == SubSeq(w, 1, Len(w) - 1)
             cc == <<c1, c2>>
  <1>2. SplitPair(Append(s, c), c1, c2) = IF cut THEN Append(Append(q, f), << >>) ELSE Append(q, Append(w, c))
    <2>1. SplitPair(Append(s, c), c1, c2) = CutPair(Append(q, w), c, c1, c2)
      <3>1. SplitPair(Append(s, c), c1, c2) = CutPair(SplitPair(s, c1, c2), c, c1, c2)
        BY ONLY s \in Texts, c \in Chars, SplitPairSteps
      <3> QED
        BY ONLY <1>1, <3>1
    <2>2. CutPair(Append(q, w), c, c1, c2) = IF cut THEN Append(Append(q, f), << >>) ELSE Append(q, Append(w, c))
      BY <1>1, CutPairLast
    <2> QED
      BY ONLY <2>1, <2>2
  <1>3. cc \in Texts /\ Append(<<c1>>, c2) = cc /\ <<c1>> \in Texts
    <2>1. Append(<<c1>>, c2) = cc
      BY ONLY c1 \in Chars, c2 \in Chars, TwoOf DEF cc
    <2>2. <<c1>> \in Texts
      BY TextOps
    <2>3. Append(<<c1>>, c2) \in Texts
      BY <2>2, TextOps
    <2> QED
      BY ONLY <2>1, <2>2, <2>3
  <1>4. Len(q) \in Nat
    BY <1>1
  <1>5. CASE cut
    <2>1. f \in Texts /\ w = Append(f, c1) /\ c = c2
      <3>1. Len(w) \in Nat /\ Len(w) >= 1
        BY <1>1, <1>5, TextOps
      <3>2. f \in Texts /\ Len(f) = Len(w) - 1 /\ \A i \in 1 .. Len(w) - 1 : f[i] = w[i]
        <4> DEFINE n == Len(w) - 1
        <4>1. w \in Seq(Chars)
          BY <1>1 DEF Texts
        <4>2. n \in Nat /\ 1 \in 1 .. Len(w) + 1 /\ n \in 1 - 1 .. Len(w) /\ n - 1 + 1 = n
              /\ \A i \in 1 .. n : 1 + i - 1 = i
          BY <3>1
        <4> HIDE DEF n
        <4>3. SubSeq(w, 1, n) \in Seq(Chars) /\ Len(SubSeq(w, 1, n)) = n /\ \A i \in 1 .. n : SubSeq(w, 1, n)[i] = w[i]
          BY ONLY <3>1, <4>1, <4>2
        <4> QED
          BY <4>3 DEF n, Texts
      <3> HIDE DEF f
      <3>3. /\ Append(f, c1) \in Texts /\ Len(Append(f, c1)) = Len(f) + 1
            /\ \A i \in 1 .. Len(f) : Append(f, c1)[i] = f[i]
            /\ Append(f, c1)[Len(f) + 1] = c1
        BY <3>2, TextOps
      <3>4. \A i \in 1 .. Len(w) : i \in 1 .. Len(w) - 1 \/ i = Len(w)
        BY <3>1
      <3>5. Len(w) - 1 + 1 = Len(w)
        BY <3>1
      <3>6. \A i \in 1 .. Len(w) : w[i] = Append(f, c1)[i]
        BY <1>5, <3>2, <3>3, <3>4, <3>5
      <3>7. w \in Texts /\ Len(w) = Len(Append(f, c1))
        BY <1>1, <3>2, <3>3, <3>5
      <3>8. w = Append(f, c1)
        BY ONLY <3>3, <3>6, <3>7, SameText
      <3> QED
        BY <1>5, <3>2, <3>8
    <2> DEFINE p == Append(q, f)
               e == << >>
    <2>2. p \in Seq(Texts) /\ Len(p) = Len(q) + 1 /\ e \in Texts /\ (Len(q) = 0 => p[1] = f)
      <3>1. e \in Texts /\ f \in Texts
        BY <2>1, TextOps
      <3> HIDE DEF f
      <3>2. p \in Seq(Texts) /\ Len(p) = Len(q) + 1 /\ p[Len(q) + 1] = f
        BY <1>1, <3>1, AppendProperties
      <3>3. 0 + 1 = 1
        OBVIOUS
      <3> QED
        BY ONLY <3>1, <3>2, <3>3
    <2>3. SplitPair(Append(s, c), c1, c2) = Append(p, e)
      BY <1>2, <1>5
    <2> HIDE DEF f
    <2>4. ASSUME Len(q) = 0 PROVE Append(s, c) = f \o cc \o e
      <3>1. Append(s, c) = Append(Append(f, c1), c2)
        BY <1>1, <2>1, <2>4
      <3>2. f \o <<c1>> = Append(f, c1)
        BY <2>1 DEF Texts
      <3>3. f \o Append(<<c1>>, c2) = Append(f \o <<c1>>, c2)
        BY <1>3, <2>1, ConcatAppend
      <3>4. f \o cc \in Texts
        BY <1>3, <2>1, TextOps
      <3>5. (f \o cc) \o e = f \o cc
        BY <3>4, TextAssoc
      <3> QED
        BY ONLY <1>3, <3>1, <3>2, <3>3, <3>5
    <2> HIDE DEF p, e, cc
    <2>5. Len(p) # 0 /\ (Len(p) = 1 => Len(q) = 0)
      BY ONLY <1>4, <2>2
    <2>6. Len(p) = 1 => p[1] \in Texts /\ Append(s, c) = p[1] \o cc \o e
      BY ONLY <2>1, <2>2, <2>4, <2>5
    <2>7. Mended(Append(s, c), p, e, c1, c2)
      BY <2>2, <2>3, <2>5, <2>6 DEF Mended, cc
    <2> QED
      BY <2>7
  <1>6. CASE ~cut
    <2> DEFINE v == Append(w, c)
    <2>1. v \in Texts
      BY <1>1, TextOps
    <2>2. SplitPair(Append(s, c), c1, c2) = Append(q, v)
      BY <1>2, <1>6
    <2>3. Len(q) = 0 => Append(s, c) = v
      BY <1>1
    <2>4. ASSUME Len(q) = 1 PROVE Append(s, c) = q[1] \o cc \o v
      <3>1. q[1] \in Texts /\ s = q[1] \o cc \o w
        BY <1>1, <2>4
      <3>2. q[1] \o cc \in Texts
        BY <1>3, <3>1, TextOps
      <3> HIDE DEF cc
      <3>3. (q[1] \o cc) \o Append(w, c) = Append((q[1] \o cc) \o w, c)
        BY <1>1, <3>2, ConcatAppend
      <3> QED
        BY <3>1, <3>3
    <2> HIDE DEF v
    <2>5. Mended(Append(s, c), q, v, c1, c2)
      BY <1>1, <2>1, <2>2, <2>3, <2>4 DEF Mended
    <2> QED
      BY <2>5
  <1> QED
    BY <1>5, <1>6

LEMMA Mend ==
    ASSUME NEW c1 \in Chars, NEW c2 \in Chars
    PROVE  \A s \in Texts : \E q, w : Mended(s, q, w, c1, c2)
  <1> DEFINE S == {s \in Texts : \E q, w : Mended(s, q, w, c1, c2)}
  <1>1. << >> \in S
    <2> DEFINE e == << >>
    <2>1. Append(e, e) = Nothing /\ Len(e) = 0 /\ e \in Seq(Texts) /\ e \in Texts
      BY TextOps DEF Nothing
    <2>2. SplitPair(e, c1, c2) = Nothing
      BY SplitPairSteps
    <2> HIDE DEF e
    <2>3. Mended(e, e, e, c1, c2)
      BY <2>1, <2>2 DEF Mended
    <2> QED
      BY <2>1, <2>3 DEF e
  <1>2. ASSUME NEW s \in Texts, NEW c \in Chars, s \in S PROVE Append(s, c) \in S
    <2>1. PICK q, w : Mended(s, q, w, c1, c2)
      BY <1>2
    <2>2. \E q2, w2 : Mended(Append(s, c), q2, w2, c1, c2)
      BY <2>1, MendOne
    <2>3. Append(s, c) \in Texts
      BY TextOps
    <2> QED
      BY <2>2, <2>3
  <1> HIDE DEF S
  <1>3. Texts \subseteq S
    BY ONLY <1>1, <1>2, InductText
  <1> QED
    BY <1>3 DEF S

Rejoined(s, p, c1, c2) ==
    /\ Len(p) = 1 => p[1] = s
    /\ Len(p) = 2 => p[1] \in Texts /\ p[2] \in Texts /\ s = p[1] \o <<c1, c2>> \o p[2]

LEMMA PairPieces ==
    ASSUME NEW c1 \in Chars, NEW c2 \in Chars, NEW s \in Texts, NEW p, p = SplitPair(s, c1, c2)
    PROVE  Rejoined(s, p, c1, c2)
  <1>1. PICK q, w : Mended(s, q, w, c1, c2)
    BY Mend
  <1>2. /\ q \in Seq(Texts) /\ w \in Texts /\ p = Append(q, w)
        /\ Len(q) = 0 => s = w
        /\ Len(q) = 1 => q[1] \in Texts /\ s = q[1] \o <<c1, c2>> \o w
    BY <1>1 DEF Mended
  <1>3. /\ Len(q) \in Nat /\ Len(p) = Len(q) + 1 /\ p[Len(q) + 1] = w
        /\ Len(q) = 1 => p[1] = q[1]
    <2>1. Len(q) \in Nat /\ Len(p) = Len(q) + 1 /\ p[Len(q) + 1] = w
      BY <1>2, AppendProperties
    <2>2. \A i \in 1 .. Len(q) : p[i] = q[i]
      BY <1>2, AppendProperties
    <2>3. Len(q) = 1 => 1 \in 1 .. Len(q)
      OBVIOUS
    <2> QED
      BY ONLY <2>1, <2>2, <2>3
  <1>4. /\ Len(p) = 1 => Len(q) = 0 /\ p[1] = w
        /\ Len(p) = 2 => Len(q) = 1 /\ p[2] = w
    <2>1. \A n \in Nat : (n + 1 = 1 => n = 0) /\ (n + 1 = 2 => n = 1)
      OBVIOUS
    <2>2. (Len(p) = 1 => Len(q) = 0) /\ (Len(p) = 2 => Len(q) = 1)
      BY ONLY <1>3, <2>1
    <2>3. 0 + 1 = 1 /\ 1 + 1 = 2
      OBVIOUS
    <2> QED
      BY ONLY <1>3, <2>2, <2>3
  <1> QED
    BY ONLY <1>2, <1>3, <1>4 DEF Rejoined

LEMMA TextJoin ==
    ASSUME NEW s \in Texts, NEW t \in Texts
    PROVE  /\ s \o t \in Texts /\ Len(s \o t) = Len(s) + Len(t)
           /\ \A i \in 1 .. Len(s) : (s \o t)[i] = s[i]
           /\ \A i \in 1 .. Len(t) : (s \o t)[Len(s) + i] = t[i]
  BY TextOps

\* A text is what is before two colons in it, the colons, and what follows.
Bridged(s, l, r) ==
    /\ s \in Texts /\ Len(s) = Len(l) + 2 + Len(r)
    /\ Len(l) \in Nat /\ Len(r) \in Nat
    /\ \A i \in 1 .. Len(l) : s[i] = l[i]
    /\ s[Len(l) + 1] = Colon /\ s[Len(l) + 2] = Colon
    /\ \A i \in 1 .. Len(r) : s[Len(l) + 2 + i] = r[i]

LEMMA ColonsAt ==
    ASSUME NEW l \in Texts, NEW r \in Texts, NEW s, s = l \o <<Colon, Colon>> \o r
    PROVE  Bridged(s, l, r)
  <1> DEFINE cc == <<Colon, Colon>>
             b == l \o cc
  <1>1. cc \in Texts /\ Len(cc) = 2 /\ cc[1] = Colon /\ cc[2] = Colon
    BY Punctuation DEF Texts
  <1> HIDE DEF cc
  <1>2. Len(l) \in Nat /\ Len(r) \in Nat
    BY TextOps
  <1>3. /\ b \in Texts /\ Len(b) = Len(l) + 2
        /\ \A i \in 1 .. Len(l) : b[i] = l[i]
        /\ \A i \in 1 .. Len(cc) : b[Len(l) + i] = cc[i]
    <2>1. l \in Texts /\ cc \in Texts
      BY <1>1
    <2>2. /\ b \in Texts /\ Len(b) = Len(l) + Len(cc)
          /\ \A i \in 1 .. Len(l) : b[i] = l[i]
          /\ \A i \in 1 .. Len(cc) : b[Len(l) + i] = cc[i]
      BY ONLY <2>1, TextJoin
    <2> HIDE DEF b
    <2> QED
      BY ONLY <1>1, <2>2
  <1>4. s = b \o r
    BY DEF cc
  <1> HIDE DEF b
  <1>5. /\ s \in Texts /\ Len(s) = Len(b) + Len(r)
        /\ \A i \in 1 .. Len(b) : s[i] = b[i]
        /\ \A i \in 1 .. Len(r) : s[Len(b) + i] = r[i]
    <2>1. b \in Texts /\ r \in Texts
      BY <1>3
    <2> QED
      BY ONLY <1>4, <2>1, TextJoin
  <1>6. /\ \A i \in 1 .. Len(l) : i \in 1 .. Len(l) + 2
        /\ Len(l) + 1 \in 1 .. Len(l) + 2 /\ Len(l) + 2 \in 1 .. Len(l) + 2
        /\ 1 \in 1 .. 2 /\ 2 \in 1 .. 2
    BY <1>2
  <1>7. b[Len(l) + 1] = Colon /\ b[Len(l) + 2] = Colon
    BY ONLY <1>1, <1>3, <1>6
  <1>8. \A i \in 1 .. Len(l) : s[i] = l[i]
    BY ONLY <1>3, <1>5, <1>6
  <1>9. s[Len(l) + 1] = Colon /\ s[Len(l) + 2] = Colon
    BY ONLY <1>3, <1>5, <1>6, <1>7
  <1>10. Len(s) = Len(l) + 2 + Len(r) /\ \A i \in 1 .. Len(r) : s[Len(l) + 2 + i] = r[i]
    BY ONLY <1>3, <1>5
  <1> QED
    BY ONLY <1>2, <1>5, <1>8, <1>9, <1>10 DEF Bridged

\* The two sides of a pair of colons at i.
LeftOf(s, i)  == SubSeq(s, 1, i - 1)
RightOf(s, i) == SubSeq(s, i + 2, Len(s))

LEMMA SidesType ==
    ASSUME NEW s \in Texts, NEW i \in 1 .. Len(s) - 1
    PROVE  /\ LeftOf(s, i) \in Texts /\ Len(LeftOf(s, i)) = i - 1
           /\ \A k \in 1 .. i - 1 : LeftOf(s, i)[k] = s[k]
           /\ RightOf(s, i) \in Texts /\ Len(RightOf(s, i)) = Len(s) - i - 1
           /\ \A k \in 1 .. Len(s) - i - 1 : RightOf(s, i)[k] = s[i + 1 + k]
  <1> DEFINE n == Len(s)
             a == i - 1
             b == i + 2
             m == n - i - 1
  <1>1. n \in Nat /\ s \in Seq(Chars)
    BY TextOps DEF Texts
  <1>2. /\ a \in Nat /\ 1 \in 1 .. n + 1 /\ a \in 1 - 1 .. n /\ a - 1 + 1 = a
        /\ \A k \in 1 .. a : 1 + k - 1 = k
        /\ b \in 1 .. n + 1 /\ n \in b - 1 .. n /\ m \in Nat /\ n - b + 1 = m
        /\ \A k \in 1 .. m : b + k - 1 = i + 1 + k
    BY <1>1
  <1>3. SubSeq(s, 1, a) \in Seq(Chars) /\ Len(SubSeq(s, 1, a)) = a - 1 + 1
        /\ \A k \in 1 .. a - 1 + 1 : SubSeq(s, 1, a)[k] = s[1 + k - 1]
    <2> HIDE DEF a, n
    <2> QED
      BY ONLY <1>1, <1>2, SubSeqProperties DEF n
  <1>4. SubSeq(s, b, n) \in Seq(Chars) /\ Len(SubSeq(s, b, n)) = n - b + 1
        /\ \A k \in 1 .. n - b + 1 : SubSeq(s, b, n)[k] = s[b + k - 1]
    <2> HIDE DEF b, n, m
    <2> QED
      BY ONLY <1>1, <1>2, SubSeqProperties DEF n
  <1>5. LeftOf(s, i) = SubSeq(s, 1, a) /\ RightOf(s, i) = SubSeq(s, b, n)
    BY DEF LeftOf, RightOf
  <1> HIDE DEF a, b, m, n
  <1>6. LeftOf(s, i) \in Texts /\ Len(LeftOf(s, i)) = a /\ \A k \in 1 .. a : LeftOf(s, i)[k] = s[k]
    BY ONLY <1>2, <1>3, <1>5 DEF Texts
  <1>7. RightOf(s, i) \in Texts /\ Len(RightOf(s, i)) = m /\ \A k \in 1 .. m : RightOf(s, i)[k] = s[i + 1 + k]
    BY ONLY <1>2, <1>4, <1>5 DEF Texts
  <1> QED
    BY ONLY <1>6, <1>7 DEF a, m, n

LEMMA GapSides ==
    ASSUME NEW s \in Texts
    PROVE  /\ \A i \in DoubleColons(s) : /\ LeftOf(s, i) \in Texts /\ RightOf(s, i) \in Texts
                                   /\ s = LeftOf(s, i) \o <<Colon, Colon>> \o RightOf(s, i)
           /\ \A l, r \in Texts : s = l \o <<Colon, Colon>> \o r =>
                \E i \in DoubleColons(s) : l = LeftOf(s, i) /\ r = RightOf(s, i)
  <1>1. Len(s) \in Nat
    BY TextOps
  <1>2. ASSUME NEW i \in DoubleColons(s)
        PROVE  /\ LeftOf(s, i) \in Texts /\ RightOf(s, i) \in Texts
               /\ s = LeftOf(s, i) \o <<Colon, Colon>> \o RightOf(s, i)
    <2> DEFINE l == LeftOf(s, i)
               r == RightOf(s, i)
               u == l \o <<Colon, Colon>> \o r
    <2>1. i \in 1 .. Len(s) - 1 /\ s[i] = Colon /\ s[i + 1] = Colon
      BY DEF DoubleColons
    <2>2. /\ l \in Texts /\ Len(l) = i - 1 /\ \A k \in 1 .. i - 1 : l[k] = s[k]
          /\ r \in Texts /\ Len(r) = Len(s) - i - 1 /\ \A k \in 1 .. Len(s) - i - 1 : r[k] = s[i + 1 + k]
      BY <2>1, SidesType
    <2> HIDE DEF l, r
    <2>3. /\ u \in Texts /\ Len(u) = Len(l) + 2 + Len(r)
          /\ \A k \in 1 .. Len(l) : u[k] = l[k]
          /\ u[Len(l) + 1] = Colon /\ u[Len(l) + 2] = Colon
          /\ \A k \in 1 .. Len(r) : u[Len(l) + 2 + k] = r[k]
      <3>1. l \in Texts /\ r \in Texts /\ u = l \o <<Colon, Colon>> \o r
        BY <2>2
      <3> HIDE DEF u
      <3>2. Bridged(u, l, r)
        BY ONLY <3>1, ColonsAt
      <3> QED
        BY ONLY <3>2 DEF Bridged
    <2> HIDE DEF u
    <2>4. /\ i - 1 + 1 = i /\ i - 1 + 2 = i + 1 /\ i - 1 + 2 + (Len(s) - i - 1) = Len(s)
          /\ \A k \in 1 .. Len(s) - i - 1 : i - 1 + 2 + k = i + 1 + k
      BY <1>1, <2>1
    <2>5. /\ Len(u) = Len(s)
          /\ \A k \in 1 .. i - 1 : u[k] = s[k]
          /\ u[i] = s[i] /\ u[i + 1] = s[i + 1]
          /\ \A k \in 1 .. Len(s) - i - 1 : u[i + 1 + k] = s[i + 1 + k]
      <3>1. Len(u) = Len(s)
        BY ONLY <2>2, <2>3, <2>4
      <3>2. \A k \in 1 .. i - 1 : u[k] = s[k]
        BY ONLY <2>2, <2>3
      <3>3. u[i] = s[i] /\ u[i + 1] = s[i + 1]
        BY ONLY <2>1, <2>2, <2>3, <2>4
      <3>4. \A k \in 1 .. Len(s) - i - 1 : u[i - 1 + 2 + k] = r[k]
        BY ONLY <2>2, <2>3
      <3>5. \A k \in 1 .. Len(s) - i - 1 : u[i + 1 + k] = s[i + 1 + k]
        BY ONLY <2>2, <2>4, <3>4
      <3> QED
        BY ONLY <3>1, <3>2, <3>3, <3>5
    <2>6. ASSUME NEW j \in 1 .. Len(s) PROVE u[j] = s[j]
      <3>1. \/ j \in 1 .. i - 1 \/ j = i \/ j = i + 1
            \/ (j - i - 1 \in 1 .. Len(s) - i - 1 /\ i + 1 + (j - i - 1) = j)
        BY <1>1, <2>1
      <3>2. CASE j - i - 1 \in 1 .. Len(s) - i - 1 /\ i + 1 + (j - i - 1) = j
        <4> DEFINE k == j - i - 1
        <4>1. k \in 1 .. Len(s) - i - 1 /\ i + 1 + k = j
          BY <3>2
        <4> HIDE DEF k
        <4> QED
          BY ONLY <2>5, <4>1
      <3> QED
        BY ONLY <2>5, <3>1, <3>2
    <2>7. s = u
      BY <2>3, <2>5, <2>6, SameText
    <2> QED
      BY <2>2, <2>7 DEF u, l, r
  <1>3. ASSUME NEW l \in Texts, NEW r \in Texts, s = l \o <<Colon, Colon>> \o r
        PROVE  \E i \in DoubleColons(s) : l = LeftOf(s, i) /\ r = RightOf(s, i)
    <2> DEFINE i == Len(l) + 1
    <2>1. /\ Len(s) = Len(l) + 2 + Len(r) /\ Len(l) \in Nat /\ Len(r) \in Nat
          /\ \A k \in 1 .. Len(l) : s[k] = l[k]
          /\ s[Len(l) + 1] = Colon /\ s[Len(l) + 2] = Colon
          /\ \A k \in 1 .. Len(r) : s[Len(l) + 2 + k] = r[k]
      BY <1>3, ColonsAt DEF Bridged
    <2>2. /\ i \in 1 .. Len(s) - 1 /\ i + 1 = Len(l) + 2 /\ i - 1 = Len(l)
          /\ Len(s) - i - 1 = Len(r) /\ \A k \in 1 .. Len(r) : i + 1 + k = Len(l) + 2 + k
      BY ONLY <2>1
    <2>3. i \in DoubleColons(s)
      BY <2>1, <2>2 DEF DoubleColons
    <2> HIDE DEF i
    <2>4. /\ LeftOf(s, i) \in Texts /\ Len(LeftOf(s, i)) = i - 1
          /\ \A k \in 1 .. i - 1 : LeftOf(s, i)[k] = s[k]
          /\ RightOf(s, i) \in Texts /\ Len(RightOf(s, i)) = Len(s) - i - 1
          /\ \A k \in 1 .. Len(s) - i - 1 : RightOf(s, i)[k] = s[i + 1 + k]
      BY <2>2, SidesType
    <2>5. Len(l) = Len(LeftOf(s, i)) /\ \A k \in 1 .. Len(l) : l[k] = LeftOf(s, i)[k]
      BY ONLY <2>1, <2>2, <2>4
    <2>6. Len(r) = Len(RightOf(s, i)) /\ \A k \in 1 .. Len(r) : r[k] = RightOf(s, i)[k]
      BY ONLY <2>1, <2>2, <2>4
    <2>7. l = LeftOf(s, i) /\ r = RightOf(s, i)
      <3>1. l \in Texts /\ r \in Texts
        OBVIOUS
      <3> QED
        BY ONLY <2>4, <2>5, <2>6, <3>1, SameText
    <2> QED
      BY <2>3, <2>7
  <1> QED
    BY <1>2, <1>3

\* The address a text stands for, with two colons and without.
Gapped(s, l, r, x, y) ==
    /\ l \in Texts /\ r \in Texts /\ s = l \o <<Colon, Colon>> \o r
    /\ x \in SideMeaning(l, FALSE) /\ y \in SideMeaning(r, TRUE) /\ GapFits(x, y)

Stands(s, o) ==
    \/ o \in SideMeaning(s, TRUE) /\ Len(o) = 16
    \/ \E l, r, x, y : Gapped(s, l, r, x, y) /\ o = Filled(x, y)

LEMMA V6MeaningIs ==
    ASSUME NEW s \in Texts, NEW o
    PROVE  o \in V6Meaning(s) <=> Stands(s, o)
  <1> DEFINE A(i) == SideMeaning(LeftOf(s, i), FALSE) \X SideMeaning(RightOf(s, i), TRUE)
             G(i) == {Filled(p[1], p[2]) : p \in {q \in A(i) : GapFits(q[1], q[2])}}
  <1>1. V6Meaning(s) = {z \in SideMeaning(s, TRUE) : Len(z) = 16} \cup UNION {G(i) : i \in DoubleColons(s)}
    BY DEF V6Meaning, LeftOf, RightOf, DoubleColons, Filled
  <1>2. ASSUME NEW i
        PROVE  o \in G(i) <=> \E x \in SideMeaning(LeftOf(s, i), FALSE), y \in SideMeaning(RightOf(s, i), TRUE) :
                                 GapFits(x, y) /\ o = Filled(x, y)
    <2>1. ASSUME NEW x \in SideMeaning(LeftOf(s, i), FALSE), NEW y \in SideMeaning(RightOf(s, i), TRUE),
                 GapFits(x, y), o = Filled(x, y)
          PROVE  o \in G(i)
      <3>1. <<x, y>> \in A(i) /\ <<x, y>>[1] = x /\ <<x, y>>[2] = y
        OBVIOUS
      <3> HIDE DEF A
      <3> QED
        BY <2>1, <3>1
    <2>2. ASSUME o \in G(i)
          PROVE  \E x \in SideMeaning(LeftOf(s, i), FALSE), y \in SideMeaning(RightOf(s, i), TRUE) :
                    GapFits(x, y) /\ o = Filled(x, y)
      <3>1. PICK p \in A(i) : GapFits(p[1], p[2]) /\ o = Filled(p[1], p[2])
        BY <2>2
      <3>2. p[1] \in SideMeaning(LeftOf(s, i), FALSE) /\ p[2] \in SideMeaning(RightOf(s, i), TRUE)
        OBVIOUS
      <3> QED
        BY <3>1, <3>2
    <2> QED
      BY <2>1, <2>2
  <1> HIDE DEF G
  <1>3. o \in V6Meaning(s) <=> (o \in SideMeaning(s, TRUE) /\ Len(o) = 16) \/ \E i \in DoubleColons(s) : o \in G(i)
    BY ONLY <1>1
  <1>4. ASSUME NEW i \in DoubleColons(s), o \in G(i)
        PROVE  \E l, r, x, y : Gapped(s, l, r, x, y) /\ o = Filled(x, y)
    <2>1. PICK x \in SideMeaning(LeftOf(s, i), FALSE), y \in SideMeaning(RightOf(s, i), TRUE) :
                 GapFits(x, y) /\ o = Filled(x, y)
      BY <1>2, <1>4
    <2>2. Gapped(s, LeftOf(s, i), RightOf(s, i), x, y)
      BY <2>1, GapSides DEF Gapped
    <2> QED
      BY <2>1, <2>2
  <1>5. ASSUME NEW l, NEW r, NEW x, NEW y, Gapped(s, l, r, x, y), o = Filled(x, y)
        PROVE  \E i \in DoubleColons(s) : o \in G(i)
    <2>1. /\ l \in Texts /\ r \in Texts /\ s = l \o <<Colon, Colon>> \o r
          /\ x \in SideMeaning(l, FALSE) /\ y \in SideMeaning(r, TRUE) /\ GapFits(x, y)
      BY <1>5 DEF Gapped
    <2>2. PICK i \in DoubleColons(s) : l = LeftOf(s, i) /\ r = RightOf(s, i)
      BY <2>1, GapSides
    <2>3. o \in G(i)
      BY ONLY <1>2, <1>5, <2>1, <2>2
    <2> QED
      BY <2>3
  <1> QED
    BY ONLY <1>3, <1>4, <1>5 DEF Stands

\* Whatever a text stands for, from_string reads it as that.
Stored(s, o) == V6FromString(s) # Invalid /\ o = Memory(V6FromString(s))

LEMMA StoredIs ==
    ASSUME NEW s, NEW g \in EightGroups, V6FromString(s) = hton(g)
    PROVE  Stored(s, Wire(g))
  <1>1. Memory(hton(g)) = Wire(g) /\ g \in Seq(Words16) /\ Len(g) = 8
    BY MemoryWire
  <1>2. hton(g) \in [1 .. 8 -> Words16]
    BY <1>1, NetworkOrder
  <1>3. DOMAIN hton(g) = 1 .. 8
    BY ONLY <1>2
  <1>4. DOMAIN << >> # 1 .. 8
    <2>1. 1 \in 1 .. 8 /\ DOMAIN << >> = {}
      OBVIOUS
    <2> QED
      BY ONLY <2>1
  <1>5. hton(g) # Invalid
    BY ONLY <1>3, <1>4 DEF Invalid
  <1> QED
    BY ONLY <1>1, <1>5, V6FromString(s) = hton(g) DEF Stored

LEMMA WholeStored ==
    ASSUME NEW s \in Texts, NEW o \in SideMeaning(s, TRUE), Len(o) = 16
    PROVE  Stored(s, o)
  <1>1. PICK gs, seen : Side(s, gs, seen)
    BY MeantSide
  <1>2. /\ gs \in Seq(Words16) /\ seen \in BOOLEAN /\ SideMeaning(s, TRUE) = {Wire(gs)}
        /\ s = << >> => gs = << >>
        /\ s # << >> => Reads(s, gs, seen)
    BY <1>1 DEF Side
  <1>3. o = Wire(gs)
    BY <1>2
  <1>4. Len(gs) = 8
    <2>1. Len(Wire(gs)) = 2 * Len(gs) /\ Len(gs) \in Nat
      BY <1>2, WireIs, GroupOps
    <2>2. \A n \in Nat : 2 * n = 16 => n = 8
      OBVIOUS
    <2> QED
      BY ONLY <1>3, <2>1, <2>2, Len(o) = 16
  <1>5. s # << >>
    <2>1. Len(<< >>) # 8
      OBVIOUS
    <2> QED
      BY <1>2, <1>4, <2>1
  <1>6. gs \in EightGroups
    <2>1. DOMAIN gs = 1 .. 8 /\ \A i \in 1 .. 8 : gs[i] \in Words16
      BY <1>2, <1>4, GroupOps
    <2>2. gs = [i \in DOMAIN gs |-> gs[i]]
      BY <1>2
    <2>3. gs \in [1 .. 8 -> Words16]
      BY ONLY <2>1, <2>2
    <2> QED
      BY <2>3 DEF EightGroups, Indices
  <1>7. V6FromString(s) = hton(gs)
    BY <1>2, <1>5, <1>6, WholeReads DEF TextOf
  <1> QED
    BY <1>3, <1>6, <1>7, StoredIs

LEMMA EmptyGroups ==
    ASSUME NEW t, NEW gs, NEW seen, Side(t, gs, seen), Len(gs) = 0
    PROVE  t = << >> /\ gs = << >> /\ Wire(gs) = << >>
  <1>1. t = << >>
    <2> SUFFICES ASSUME t # << >> PROVE FALSE
      OBVIOUS
    <2>1. t \in Texts /\ seen \in BOOLEAN /\ Counted(t, gs, seen)
      BY DEF Side
    <2>2. Len(gs) = Len(Split(t, Colon)) + (IF seen THEN 1 ELSE 0)
      BY <2>1 DEF Counted
    <2>3. Len(Split(t, Colon)) \in Nat /\ Len(Split(t, Colon)) >= 1
      BY <2>1, PiecesType
    <2> QED
      BY ONLY <2>1, <2>2, <2>3, Len(gs) = 0
  <1>2. gs = << >>
    BY <1>1 DEF Side
  <1>3. SideMeaning(t, TRUE) = {Wire(gs)}
    BY DEF Side
  <1>4. SideMeaning(<< >>, TRUE) = {<< >>}
    BY SideMeaningIs
  <1> QED
    BY <1>1, <1>2, <1>3, <1>4

LEMMA GapStored ==
    ASSUME NEW s, NEW l, NEW r, NEW x, NEW y, Gapped(s, l, r, x, y)
    PROVE  Stored(s, Filled(x, y))
  <1>1. /\ l \in Texts /\ r \in Texts /\ s = l \o <<Colon, Colon>> \o r
        /\ x \in SideMeaning(l, FALSE) /\ y \in SideMeaning(r, TRUE) /\ GapFits(x, y)
    BY DEF Gapped
  <1>2. PICK gl, sl : Side(l, gl, sl)
    BY <1>1, MeantSide
  <1>3. PICK gr, sr : Side(r, gr, sr)
    BY <1>1, MeantSide
  <1>4. /\ gl \in Seq(Words16) /\ sl \in BOOLEAN /\ ~sl /\ Part(l, gl, sl) /\ x = Wire(gl)
    <2>1. /\ gl \in Seq(Words16) /\ sl \in BOOLEAN /\ Part(l, gl, sl)
          /\ sl => SideMeaning(l, FALSE) = {}
          /\ ~sl => SideMeaning(l, FALSE) = {Wire(gl)}
      BY <1>2 DEF Side
    <2> QED
      BY <1>1, <2>1
  <1>5. /\ gr \in Seq(Words16) /\ sr \in BOOLEAN /\ Part(r, gr, sr) /\ y = Wire(gr)
    BY <1>1, <1>3 DEF Side
  <1>6. Len(gl) \in Nat /\ Len(gr) \in Nat /\ Len(x) = 2 * Len(gl) /\ Len(y) = 2 * Len(gr)
    BY <1>4, <1>5, WireIs, GroupOps
  <1>7. Len(gl) + Len(gr) <= 7
    <2>1. Len(x) + Len(y) <= 14
      BY <1>1 DEF GapFits
    <2>2. \A n, m \in Nat : 2 * n + 2 * m <= 14 => n + m <= 7
      OBVIOUS
    <2> QED
      BY ONLY <1>6, <2>1, <2>2
  <1>8. Fitting(gl, r, gr)
    BY ONLY <1>7 DEF Fitting
  <1>9. Len(gl) + Len(gr) <= 8
    <2>1. \A n, m \in Nat : n + m <= 7 => n + m <= 8
      OBVIOUS
    <2> QED
      BY ONLY <1>6, <1>7, <2>1
  <1>10. sl = FALSE
    BY <1>4
  <1>11. V6FromString(s) = hton(CloseGap(gl, gl \o gr))
    BY ONLY <1>1, <1>4, <1>5, <1>8, <1>10, GapReads
  <1>12. CloseGap(gl, gl \o gr) \in EightGroups /\ Wire(CloseGap(gl, gl \o gr)) = Filled(x, y)
    <2>1. gl \in Seq(Words16) /\ gr \in Seq(Words16) /\ x = Wire(gl) /\ y = Wire(gr)
      BY <1>4, <1>5
    <2> QED
      BY ONLY <1>9, <2>1, WireGap
  <1> QED
    BY ONLY <1>11, <1>12, StoredIs

LEMMA MeaningStored ==
    ASSUME NEW s \in Texts, NEW o \in V6Meaning(s)
    PROVE  Stored(s, o)
  <1>1. \/ o \in SideMeaning(s, TRUE) /\ Len(o) = 16
        \/ \E l, r, x, y : Gapped(s, l, r, x, y) /\ o = Filled(x, y)
    <2>1. Stands(s, o)
      BY V6MeaningIs
    <2> QED
      BY ONLY <2>1 DEF Stands
  <1>2. CASE o \in SideMeaning(s, TRUE) /\ Len(o) = 16
    BY <1>2, WholeStored
  <1>3. ASSUME NEW l, NEW r, NEW x, NEW y, Gapped(s, l, r, x, y), o = Filled(x, y)
        PROVE  Stored(s, o)
    BY <1>3, GapStored
  <1> QED
    BY <1>1, <1>2, <1>3

\* A text from_string accepts stands for an address.
LEMMA WholeMeant ==
    ASSUME NEW s \in Texts, NEW left, left = ReadSide(Start, s), left.ok, Len(left.groups) = 8
    PROVE  \E o : Stands(s, o)
  <1>1. Start \in States /\ Start.ok /\ ~Start.seen_ipv4 /\ Start.groups = << >>
    BY StateOps DEF Start
  <1>2. PICK gs, seen : SideTaken(Start, s, gs, seen)
    BY <1>1, ReadIsSide
  <1>3. Side(s, gs, seen) /\ left.groups = << >> \o gs
    BY <1>1, <1>2 DEF SideTaken
  <1>4. gs \in Seq(Words16) /\ SideMeaning(s, TRUE) = {Wire(gs)}
    BY <1>3 DEF Side
  <1>5. Len(gs) = 8
    BY <1>3, <1>4, GroupsAssoc
  <1>6. Len(Wire(gs)) = 16
    <2>1. Len(Wire(gs)) = 2 * Len(gs) /\ 2 * 8 = 16
      BY <1>4, WireIs
    <2> QED
      BY ONLY <1>5, <2>1
  <1>7. Stands(s, Wire(gs))
    BY ONLY <1>4, <1>6 DEF Stands
  <1> QED
    BY <1>7

LEMMA GapMeant ==
    ASSUME NEW l \in Texts, NEW r \in Texts, NEW s \in Texts, s = l \o <<Colon, Colon>> \o r,
           NEW left, left = ReadSide(Start, l), left.ok, ~left.seen_ipv4,
           NEW both, both = ReadSide(left, r), both.ok, RoomForZeros(left.groups, both.groups)
    PROVE  (\E o : Stands(s, o)) \/ GapOfNone(s)
  <1>1. Start \in States /\ Start.ok /\ ~Start.seen_ipv4 /\ Start.groups = << >>
    BY StateOps DEF Start
  <1>2. PICK gl, sl : SideTaken(Start, l, gl, sl)
    BY <1>1, ReadIsSide
  <1>3. Side(l, gl, sl) /\ left.groups = << >> \o gl /\ left.seen_ipv4 = sl
    BY <1>1, <1>2 DEF SideTaken
  <1>4. gl \in Seq(Words16) /\ SideMeaning(l, FALSE) = {Wire(gl)}
    BY <1>3 DEF Side
  <1>5. left.groups = gl /\ left \in States
    BY <1>1, <1>3, <1>4, GroupsAssoc, SideType
  <1>6. PICK gr, sr : SideTaken(left, r, gr, sr)
    BY <1>5, ReadIsSide
  <1>7. Side(r, gr, sr) /\ both.groups = gl \o gr /\ Len(gl) + Len(gr) <= 8
    BY <1>5, <1>6 DEF SideTaken
  <1>8. gr \in Seq(Words16) /\ SideMeaning(r, TRUE) = {Wire(gr)}
    BY <1>7 DEF Side
  <1> DEFINE x == Wire(gl)
             y == Wire(gr)
  <1>9. Len(gl) \in Nat /\ Len(gr) \in Nat /\ Len(x) = 2 * Len(gl) /\ Len(y) = 2 * Len(gr)
    BY <1>4, <1>8, WireIs, GroupOps
  <1>10. Len(gr) = 0 \/ Len(gl) + Len(gr) < 8
    <2>1. gl \o gr = gl \/ Len(gl \o gr) < 8
      BY <1>5, <1>7 DEF RoomForZeros
    <2>2. Len(gl \o gr) = Len(gl) + Len(gr) /\ (gl \o gr = gl => gr = << >>)
      BY <1>4, <1>8, GroupOps, GroupsAssoc
    <2>3. Len(<< >>) = 0
      OBVIOUS
    <2> QED
      BY ONLY <2>1, <2>2, <2>3
  <1>11. Len(gr) = 0 => r = << >>
    BY <1>7, EmptyGroups
  <1>12. x \in SideMeaning(l, FALSE) /\ y \in SideMeaning(r, TRUE)
    BY <1>4, <1>8
  <1> HIDE DEF x, y
  <1>13. GapFits(x, y) \/ (Len(x) = 16 /\ r = << >>)
    <2>1. \A n, m \in Nat : n + m <= 8 /\ (m = 0 \/ n + m < 8) =>
             2 * n + 2 * m <= 14 \/ (2 * n = 16 /\ m = 0)
      OBVIOUS
    <2>2. Len(x) + Len(y) <= 14 \/ (Len(x) = 16 /\ Len(gr) = 0)
      BY ONLY <1>7, <1>9, <1>10, <2>1
    <2> QED
      BY ONLY <1>11, <2>2 DEF GapFits
  <1>14. CASE GapFits(x, y)
    <2>1. Gapped(s, l, r, x, y)
      BY <1>12, <1>14 DEF Gapped
    <2>2. Stands(s, Filled(x, y))
      BY ONLY <2>1 DEF Stands
    <2> QED
      BY <2>2
  <1>15. CASE Len(x) = 16 /\ r = << >>
    <2>1. s \in Texts
      OBVIOUS
    <2>2. PICK i \in DoubleColons(s) : l = LeftOf(s, i) /\ r = RightOf(s, i)
      BY <2>1, GapSides
    <2>3. i \in 1 .. Len(s) - 1 /\ Len(s) \in Nat
      <3>1. i \in 1 .. Len(s) - 1
        BY <2>2 DEF DoubleColons
      <3> QED
        BY <2>1, <3>1, TextOps
    <2>4. Len(RightOf(s, i)) = Len(s) - i - 1
      BY <2>1, <2>3, SidesType
    <2>5. i + 1 = Len(s)
      <3>1. Len(<< >>) = 0
        OBVIOUS
      <3> QED
        BY ONLY <1>15, <2>2, <2>3, <2>4, <3>1
    <2>6. i \in DoubleColons(s) /\ l = SubSeq(s, 1, i - 1)
      BY <2>2 DEF DoubleColons, LeftOf
    <2> QED
      BY ONLY <1>12, <1>15, <2>5, <2>6 DEF GapOfNone
  <1> QED
    BY <1>13, <1>14, <1>15

LEMMA AcceptedMeant ==
    ASSUME NEW s \in Texts, V6FromString(s) # Invalid
    PROVE  V6Meaning(s) # {} \/ GapOfNone(s)
  <1> DEFINE sides == SplitPair(s, Colon, Colon)
             left == ReadSide(Start, sides[1])
             both == ReadSide(left, sides[2])
  <1>1. /\ left.ok
        /\ \/ Len(sides) = 1 /\ Len(left.groups) = 8
           \/ /\ Len(sides) = 2 /\ sides[2] \in Texts /\ ~left.seen_ipv4
              /\ both.ok /\ RoomForZeros(left.groups, both.groups)
    BY V6Ok
  <1>2. /\ Len(sides) = 1 => sides[1] = s
        /\ Len(sides) = 2 => sides[1] \in Texts /\ sides[2] \in Texts /\ s = sides[1] \o <<Colon, Colon>> \o sides[2]
    <2>1. Colon \in Chars /\ s \in Texts /\ sides = SplitPair(s, Colon, Colon)
      BY Punctuation
    <2> HIDE DEF sides
    <2>2. Rejoined(s, sides, Colon, Colon)
      BY ONLY <2>1, PairPieces
    <2> QED
      BY ONLY <2>2 DEF Rejoined
  <1> SUFFICES (\E o : Stands(s, o)) \/ GapOfNone(s)
    BY V6MeaningIs
  <1> HIDE DEF sides
  <1>3. CASE Len(sides) = 1
    <2>1. left = ReadSide(Start, s) /\ left.ok /\ Len(left.groups) = 8
      BY <1>1, <1>2, <1>3
    <2> HIDE DEF left
    <2> QED
      BY ONLY s \in Texts, <2>1, WholeMeant
  <1>4. CASE Len(sides) = 2
    <2> DEFINE l == sides[1]
               r == sides[2]
    <2>1. l \in Texts /\ r \in Texts /\ s = l \o <<Colon, Colon>> \o r
      BY <1>2, <1>4
    <2>2. /\ left = ReadSide(Start, l) /\ left.ok /\ ~left.seen_ipv4
          /\ both = ReadSide(left, r) /\ both.ok /\ RoomForZeros(left.groups, both.groups)
      BY <1>1, <1>4
    <2> HIDE DEF left, both, l, r
    <2> QED
      BY ONLY s \in Texts, <2>1, <2>2, GapMeant
  <1> QED
    BY <1>1, <1>3, <1>4

\* A text that from_string refuses stands for no address, and from one that it
\* accepts it stores the octets of the only address the text stands for; the
\* one exception is a "::" after eight groups, which it accepts as well
\* (address_v6::from_string against the grammar of RFC 4291).
THEOREM V6MeansItsText ==
    ASSUME NEW s \in Texts
    PROVE  /\ V6FromString(s) = Invalid => V6Meaning(s) = {}
           /\ V6FromString(s) # Invalid =>
                V6Meaning(s) = {Memory(V6FromString(s))} \/ GapOfNone(s)
  <1>1. \A o \in V6Meaning(s) : V6FromString(s) # Invalid /\ o = Memory(V6FromString(s))
    BY MeaningStored DEF Stored
  <1>2. V6FromString(s) # Invalid => V6Meaning(s) # {} \/ GapOfNone(s)
    BY AcceptedMeant
  <1> QED
    BY ONLY <1>1, <1>2

\* An IPv4 socket address has one spelling for each separator.
LEMMA SockV4Spelled ==
    ASSUME NEW s \in Texts, NEW v, v = SockV4FromString(s), v # Invalid
    PROVE  \E sep \in {Colon, Slash} : s = FormatV4(v[1]) \o <<sep>> \o FormatPort(v[2])
  <1> DEFINE p == SockV4Parts(s)
             sep == SockV4Sep(s)
  <1>1. /\ TwoParts(s, p, sep) /\ p[1] \in Texts /\ p[2] \in Texts
        /\ V4FromString(p[1]) # Invalid /\ PortFromString(p[2]) # Invalid
        /\ v[1] = V4FromString(p[1]) /\ v[2] = PortFromString(p[2])
    BY SockV4Ok
  <1>2. sep \in {Colon, Slash}
    BY DEF SockV4Sep
  <1> HIDE DEF p, sep
  <1>3. s = p[1] \o <<sep>> \o p[2]
    BY <1>1 DEF TwoParts
  <1>4. FormatV4(v[1]) = p[1] /\ FormatPort(v[2]) = p[2]
    BY <1>1, V4Spelled, PortSpelled
  <1> QED
    BY ONLY <1>2, <1>3, <1>4

\* What from_string makes of a text is what the text means: an IPv6 text that is
\* refused stands for no address, and the octets of the one that an accepted
\* text stands for are stored, unless its "::" follows eight groups; an IPv4 address, a port and an IPv4 socket address are
\* spelled as they are printed (the from_string functions of ip.hpp).
THEOREM AddressesMeansItsText == Spec => []MeansItsText
  <1>1. ASSUME Kept PROVE MeansItsText
    <2> SUFFICES ASSUME phase = "read" PROVE MeansItsText
      BY DEF MeansItsText
    <2>1. class \in ClassNames /\ text \in Texts /\ value = FromString(class, text)
      BY <1>1, Bounds DEF Kept
    <2>2. CASE class = "address_v6"
      <3>1. value = V6FromString(text)
        BY <2>1, <2>2 DEF FromString
      <3>2. /\ value = Invalid => V6Meaning(text) = {}
            /\ value # Invalid => V6Meaning(text) = {Memory(value)} \/ GapOfNone(text)
        BY <2>1, <3>1, V6MeansItsText
      <3> QED
        BY ONLY <2>2, <3>2 DEF MeansItsText
    <2>3. CASE class = "address_v4"
      <3>1. value = V4FromString(text) /\ Other \in Separators(class)
        BY <2>1, <2>3 DEF FromString, Separators
      <3>2. \A sep : Format(class, value, sep, << >>) = FormatV4(value)
        BY <2>3 DEF Format
      <3>3. value # Invalid => text = FormatV4(value)
        BY <2>1, <3>1, V4Spelled
      <3>4. value # Invalid => \E sep \in Separators(class) : text = Format(class, value, sep, << >>)
        BY ONLY <3>1, <3>2, <3>3
      <3> QED
        BY ONLY <2>3, <3>4 DEF MeansItsText
    <2>4. CASE class = "port"
      <3>1. value = PortFromString(text) /\ Other \in Separators(class)
        BY <2>1, <2>4 DEF FromString, Separators
      <3>2. \A sep : Format(class, value, sep, << >>) = FormatPort(value)
        BY <2>4 DEF Format
      <3>3. value # Invalid => text = FormatPort(value)
        BY <2>1, <3>1, PortSpelled
      <3>4. value # Invalid => \E sep \in Separators(class) : text = Format(class, value, sep, << >>)
        BY ONLY <3>1, <3>2, <3>3
      <3> QED
        BY ONLY <2>4, <3>4 DEF MeansItsText
    <2>5. CASE class = "socket_v4_info"
      <3>1. value = SockV4FromString(text) /\ Separators(class) = {Colon, Slash}
        BY <2>1, <2>5 DEF FromString, Separators
      <3>2. \A sep : Format(class, value, sep, << >>) = FormatV4(value[1]) \o <<sep>> \o FormatPort(value[2])
        BY <2>5 DEF Format
      <3>3. value # Invalid =>
              \E sep \in {Colon, Slash} : text = FormatV4(value[1]) \o <<sep>> \o FormatPort(value[2])
        BY ONLY <2>1, <3>1, SockV4Spelled
      <3>4. value # Invalid => \E sep \in Separators(class) : text = Format(class, value, sep, << >>)
        BY ONLY <3>1, <3>2, <3>3
      <3> QED
        BY ONLY <2>5, <3>4 DEF MeansItsText
    <2>6. CASE class = "socket_v6_info"
      BY <2>6 DEF MeansItsText
    <2> QED
      BY ONLY <2>1, <2>2, <2>3, <2>4, <2>5, <2>6 DEF ClassNames
  <1> QED
    BY <1>1, AddressesKept, PTL

-----------------------------------------------------------------------------
(* The gap that is printed and the gap that was typed.                       *)

\* A side without a dotted quad spells one group in each section.
LEMMA SideCount ==
    ASSUME NEW t, NEW gs, NEW seen, Side(t, gs, seen), ~seen
    PROVE  SectionsOf(t) = Len(gs)
  <1>1. CASE t = << >>
    <2>1. gs = << >> /\ Len(<< >>) = 0
      BY <1>1 DEF Side
    <2> QED
      BY <1>1, <2>1 DEF SectionsOf
  <1>2. CASE t # << >>
    <2>1. t \in Texts /\ Counted(t, gs, seen)
      BY <1>2 DEF Side
    <2>2. Len(gs) = Len(Split(t, Colon)) + 0
      BY <2>1 DEF Counted
    <2>3. Len(Split(t, Colon)) \in Nat
      BY <2>1, PiecesType
    <2> QED
      BY <1>2, <2>2, <2>3 DEF SectionsOf
  <1> QED
    BY <1>1, <1>2

LEMMA StartRoom ==
    ASSUME NEW gs \in Seq(Words16), Len(gs) <= 8
    PROVE  /\ Room(Start, gs) /\ Start.groups = << >> /\ << >> \o gs = gs /\ gs \in Groups
           /\ Start \in States /\ Start.ok /\ ~Start.seen_ipv4
  <1>1. Start \in States /\ Start.ok /\ ~Start.seen_ipv4 /\ Start.groups = << >>
    BY StateOps DEF Start
  <1>2. Len(gs) \in Nat /\ << >> \o gs = gs
    BY GroupOps, GroupsAssoc
  <1>3. Len(<< >>) + Len(gs) <= 8
    BY <1>2
  <1>4. Room(Start, gs)
    BY <1>1, <1>3 DEF Room
  <1>5. gs \in Groups
    BY DEF Groups
  <1> QED
    BY <1>1, <1>2, <1>4, <1>5

LEMMA PartCount ==
    ASSUME NEW t, NEW gs, Part(t, gs, FALSE), Len(gs) <= 8
    PROVE  SectionsOf(t) = Len(gs)
  <1> DEFINE r == ReadSide(Start, t)
  <1>1. /\ t \in Texts /\ gs \in Seq(Words16)
        /\ \A st : Room(st, gs) => \E sn \in BOOLEAN :
              ReadSide(st, t) = Reading(st.groups \o gs, sn) /\ ~sn
    BY PartIs
  <1>2. /\ Room(Start, gs) /\ Start.groups = << >> /\ << >> \o gs = gs /\ gs \in Groups
        /\ Start \in States /\ Start.ok /\ ~Start.seen_ipv4
    BY <1>1, StartRoom
  <1>3. PICK sn \in BOOLEAN : r = Reading(Start.groups \o gs, sn) /\ ~sn
    BY <1>1, <1>2
  <1>4. r = Reading(gs, sn)
    BY <1>2, <1>3
  <1> HIDE DEF r
  <1>5. r.ok /\ r.groups = gs /\ r.seen_ipv4 = sn
    BY ONLY <1>2, <1>3, <1>4, StateOps
  <1>6. PICK g, seen : SideTaken(Start, t, g, seen)
    BY <1>1, <1>2, <1>5, ReadIsSide DEF r
  <1>7. Side(t, g, seen) /\ r.groups = << >> \o g /\ r.seen_ipv4 = seen
    BY <1>2, <1>6 DEF SideTaken, r
  <1>8. << >> \o g = g
    BY <1>7, GroupsAssoc DEF Side
  <1>9. g = gs /\ ~seen
    BY ONLY <1>3, <1>5, <1>7, <1>8
  <1> QED
    BY ONLY <1>7, <1>9, SideCount

LEMMA ColonsBetween ==
    ASSUME NEW lt \in Texts, NEW rt \in Texts
    PROVE  (lt \o <<Colon>>) \o (<<Colon>> \o rt) = lt \o <<Colon, Colon>> \o rt
  <1> DEFINE c == <<Colon>>
  <1>1. c \in Texts /\ c \o c = <<Colon, Colon>>
    BY Punctuation, TextOps, TwoColons
  <1> HIDE DEF c
  <1>2. c \o rt \in Texts /\ lt \o c \in Texts
    BY <1>1, TextOps
  <1>3. (lt \o c) \o (c \o rt) = ((lt \o c) \o c) \o rt
    BY <1>1, <1>2, TextAssoc
  <1>4. (lt \o c) \o c = lt \o (c \o c)
    BY <1>1, TextAssoc
  <1> QED
    BY <1>1, <1>3, <1>4 DEF c

\* Where a text that is split in two has its gap.
LEMMA GapPlace ==
    ASSUME NEW u, NEW l, NEW r, SplitPair(u, Colon, Colon) = <<l, r>>
    PROVE  GapStart(u) = SectionsOf(l) + 1 /\ GapLength(u) = 8 - SectionsOf(l) - SectionsOf(r)
  <1>1. <<l, r>>[1] = l /\ <<l, r>>[2] = r /\ Len(<<l, r>>) = 2 /\ 2 # 1
    OBVIOUS
  <1>2. GapStart(u) = SectionsOf(SplitPair(u, Colon, Colon)[1]) + 1
    BY DEF GapStart
  <1>3. GapLength(u) = IF Len(SplitPair(u, Colon, Colon)) = 1 THEN 0
                       ELSE 8 - SectionsOf(SplitPair(u, Colon, Colon)[1]) - SectionsOf(SplitPair(u, Colon, Colon)[2])
    BY DEF GapLength
  <1> QED
    BY ONLY <1>1, <1>2, <1>3, SplitPair(u, Colon, Colon) = <<l, r>>

\* The printed gap is the best run.
LEMMA ShownGap ==
    ASSUME NEW local \in EightGroups, NEW best, best = BestRun(local, 8), ~(best.best_len < 2),
           NEW u, u = compressed_ipv6(local, TRUE, FALSE)
    PROVE  GapStart(u) = best.best_start /\ GapLength(u) = best.best_len
  <1> DEFINE start == best.best_start
             next == start + best.best_len
             lt == Lead(local, start, TRUE)
             rt == Trail(local, next, TRUE)
             gl == Slice(local, 1, start - 1)
             gr == Slice(local, next, 8)
  <1>1. TRUE \in BOOLEAN /\ FALSE \in BOOLEAN
    OBVIOUS
  <1>2. Shortened(u, local, start, next, TRUE)
    BY <1>1, CompressedIs
  <1>3. start \in 1 .. 9 /\ next \in start + 2 .. 9 /\ next \in 1 .. 9
    <2>1. start \in 1 .. 9 /\ next \in start + 2 .. 9 /\ next \in 1 .. 8 + 1
      BY RunPlace
    <2> HIDE DEF start, next
    <2> QED
      BY <2>1
  <1>4. best.best_len \in Nat
    <2>1. GoodRun(best, 8, local)
      BY BestRunIs DEF TopRun
    <2> QED
      BY <2>1 DEF GoodRun, Runs
  <1>5. Part(lt, gl, FALSE) /\ Part(rt, gr, FALSE) /\ u = (lt \o <<Colon>>) \o (<<Colon>> \o rt)
    BY ONLY <1>2 DEF Shortened
  <1> HIDE DEF lt, rt
  <1>6. lt \in Texts /\ rt \in Texts /\ Apart(Append(lt, Colon), Colon, Colon) /\ Apart(rt, Colon, Colon)
    BY ONLY <1>1, <1>5, PartIs
  <1>7. SplitPair(u, Colon, Colon) = <<lt, rt>>
    <2>1. Colon \in Chars
      BY Punctuation
    <2>2. u = lt \o <<Colon, Colon>> \o rt
      BY ONLY <1>5, <1>6, ColonsBetween
    <2>3. SplitPair(lt \o <<Colon, Colon>> \o rt, Colon, Colon) = <<lt, rt>>
      BY ONLY <1>6, <2>1, PairBetween
    <2> QED
      BY ONLY <2>2, <2>3
  <1>8. Len(gl) = start - 1 /\ Len(gr) = 9 - next
    <2> HIDE DEF start, next
    <2>1. /\ 1 \in 1 .. 9 /\ start - 1 \in 1 - 1 .. 8 /\ start - 1 - 1 + 1 = start - 1
          /\ 8 \in next - 1 .. 8 /\ 8 - next + 1 = 9 - next
      BY <1>3
    <2>2. Len(gl) = start - 1 - 1 + 1
      BY <2>1, SliceOps
    <2>3. Len(gr) = 8 - next + 1
      BY <1>3, <2>1, SliceOps
    <2> QED
      BY ONLY <2>1, <2>2, <2>3
  <1> HIDE DEF gl, gr
  <1>9. SectionsOf(lt) = start - 1 /\ SectionsOf(rt) = 9 - next
    <2>1. Len(gl) <= 8 /\ Len(gr) <= 8
      BY ONLY <1>3, <1>8
    <2> QED
      BY ONLY <1>5, <1>8, <2>1, PartCount
  <1>10. GapStart(u) = start - 1 + 1 /\ GapLength(u) = 8 - (start - 1) - (9 - next)
    BY ONLY <1>7, <1>9, GapPlace
  <1>11. \A a \in 1 .. 9, m \in Nat : a - 1 + 1 = a /\ 8 - (a - 1) - (9 - (a + m)) = m
    OBVIOUS
  <1> HIDE DEF start
  <1>12. start - 1 + 1 = start /\ 8 - (start - 1) - (9 - next) = best.best_len
    BY ONLY <1>3, <1>4, <1>11 DEF next
  <1> QED
    BY ONLY <1>10, <1>12 DEF start

\* Where the zeros of a gap are.
LEMMA GapZeros ==
    ASSUME NEW gl \in Seq(Words16), NEW gr \in Seq(Words16), NEW a, a = Len(gl) + 1,
           NEW m \in Nat, Len(gl) + m + Len(gr) = 8
    PROVE  CloseGap(gl, gl \o gr) \in EightGroups /\ ZeroFor(CloseGap(gl, gl \o gr), a, m)
  <1> DEFINE zs == Zeros(m)
             front == gl \o zs
             n == Len(gl)
  <1>1. n \in Nat /\ Len(gr) \in Nat
    BY GroupOps
  <1>2. zs \in Seq(Words16) /\ Len(zs) = m /\ \A i \in 1 .. m : zs[i] = 0
    BY ZerosType
  <1> HIDE DEF zs
  <1>3. front \in Seq(Words16) /\ Len(front) = n + m /\ \A i \in 1 .. m : front[n + i] = zs[i]
    BY <1>2, GroupOps
  <1> HIDE DEF front
  <1>4. \A i \in 1 .. n + m : (front \o gr)[i] = front[i]
    BY <1>3, GroupOps
  <1> HIDE DEF n
  <1>5. n + Len(gr) <= 8 /\ 8 - n - Len(gr) = m
    <2>1. \A i, j \in Nat : i + m + j = 8 => i + j <= 8 /\ 8 - i - j = m
      OBVIOUS
    <2> QED
      BY <1>1, <2>1 DEF n
  <1>6. CloseGap(gl, gl \o gr) = front \o gr
    BY <1>5, GapIs DEF n, front, zs
  <1>7. CloseGap(gl, gl \o gr) \in EightGroups
    BY <1>5, WireGap DEF n
  <1>8. \A k \in a .. a + m - 1 : (front \o gr)[k] = 0
    <2> SUFFICES ASSUME NEW k \in a .. a + m - 1 PROVE (front \o gr)[k] = 0
      OBVIOUS
    <2>1. a = n + 1
      BY DEF n
    <2>2. k - n \in 1 .. m /\ n + (k - n) = k /\ k \in 1 .. n + m
      BY ONLY <1>1, <2>1, m \in Nat, k \in a .. a + m - 1
    <2>3. front[n + (k - n)] = zs[k - n] /\ zs[k - n] = 0 /\ (front \o gr)[k] = front[k]
      BY ONLY <1>2, <1>3, <1>4, <2>2
    <2> QED
      BY ONLY <2>2, <2>3
  <1> QED
    BY ONLY <1>6, <1>7, <1>8 DEF ZeroFor

\* What the two sides of a typed gap are read as.
BothRead(l, r, left, both, gl, gr) ==
    /\ gl \in Seq(Words16) /\ gr \in Seq(Words16)
    /\ left = gl /\ both = gl \o gr /\ Len(gl) + Len(gr) <= 8
    /\ SectionsOf(l) = Len(gl) /\ SectionsOf(r) = Len(gr)

LEMMA SidesRead ==
    ASSUME NEW l \in Texts, NEW r \in Texts, ~Contains(r, Dot),
           NEW left, left = ReadSide(Start, l), left.ok, ~left.seen_ipv4,
           NEW both, both = ReadSide(left, r), both.ok
    PROVE  \E gl, gr : BothRead(l, r, left.groups, both.groups, gl, gr)
  <1>1. Start \in States /\ Start.ok /\ ~Start.seen_ipv4 /\ Start.groups = << >>
    BY StateOps DEF Start
  <1>2. PICK gl, sl : SideTaken(Start, l, gl, sl)
    BY <1>1, ReadIsSide
  <1>3. Side(l, gl, sl) /\ left.groups = << >> \o gl /\ left.seen_ipv4 = sl
    BY <1>1, <1>2 DEF SideTaken
  <1>4. gl \in Seq(Words16)
    BY <1>3 DEF Side
  <1>5. left.groups = gl /\ left \in States
    BY <1>1, <1>3, <1>4, GroupsAssoc, SideType
  <1>6. PICK gr, sr : SideTaken(left, r, gr, sr)
    BY <1>5, ReadIsSide
  <1>7. Side(r, gr, sr) /\ both.groups = gl \o gr /\ Len(gl) + Len(gr) <= 8
    BY <1>5, <1>6 DEF SideTaken
  <1>8. gr \in Seq(Words16) /\ ~sr
    BY <1>7 DEF Side, Counted
  <1>9. SectionsOf(l) = Len(gl) /\ SectionsOf(r) = Len(gr)
    BY ONLY <1>3, <1>7, <1>8, ~left.seen_ipv4, SideCount
  <1>10. BothRead(l, r, left.groups, both.groups, gl, gr)
    BY ONLY <1>4, <1>5, <1>7, <1>8, <1>9 DEF BothRead
  <1> QED
    BY ONLY <1>10

LEMMA TwiceHton ==
    ASSUME NEW g \in EightGroups
    PROVE  hton(hton(g)) = g
  <1>1. g \in [1 .. 8 -> Words16]
    BY DEF EightGroups, Indices
  <1>2. \A i \in 1 .. 8 : hton_16(g[i]) \in Words16 /\ hton_16(hton_16(g[i])) = g[i]
    BY <1>1, Htons
  <1>3. hton(g) = [i \in 1 .. 8 |-> hton_16(g[i])]
    BY <1>1 DEF hton
  <1> SUFFICES ASSUME NEW h, h = [i \in 1 .. 8 |-> hton_16(g[i])] PROVE hton(h) = g
    BY <1>3
  <1>4. hton(h) = [i \in 1 .. 8 |-> hton_16(h[i])] /\ \A i \in 1 .. 8 : h[i] = hton_16(g[i])
    BY DEF hton
  <1>5. hton(h) = [i \in 1 .. 8 |-> g[i]]
    BY ONLY <1>2, <1>4
  <1> QED
    BY ONLY <1>1, <1>5

\* The gap a caller types is a run of zeros of the address that is read.
TypedRun(s, v, a, m) ==
    /\ a \in Nat /\ m \in Nat /\ a >= 1 /\ m >= 2 /\ a + m <= 9
    /\ GapStart(s) = a /\ GapLength(s) = m /\ ZeroFor(hton(v), a, m)

LEMMA TypedGap ==
    ASSUME NEW s \in Texts, NEW v, v = V6FromString(s), v # Invalid, ~Contains(s, Dot), GapLength(s) >= 2
    PROVE  \E a, m : TypedRun(s, v, a, m)
  <1> DEFINE sides == SplitPair(s, Colon, Colon)
             l == sides[1]
             r == sides[2]
             left == ReadSide(Start, l)
             both == ReadSide(left, r)
  <1>1. Len(sides) # 1
    <2>1. Len(sides) = 1 => GapLength(s) = 0
      BY DEF GapLength
    <2>2. ~(0 >= 2)
      OBVIOUS
    <2> QED
      BY ONLY <2>1, <2>2, GapLength(s) >= 2
  <1>2. /\ left.ok /\ Len(sides) = 2 /\ ~left.seen_ipv4 /\ both.ok
        /\ v = hton(CloseGap(left.groups, both.groups))
    BY <1>1, V6Ok
  <1>3. l \in Texts /\ r \in Texts /\ s = l \o <<Colon, Colon>> \o r
    <2>1. Colon \in Chars /\ s \in Texts /\ sides = SplitPair(s, Colon, Colon)
      BY Punctuation
    <2>2. Rejoined(s, sides, Colon, Colon)
      <3> HIDE DEF sides
      <3> QED
        BY ONLY <2>1, PairPieces
    <2> HIDE DEF sides
    <2> QED
      BY ONLY <1>2, <2>2 DEF Rejoined, l, r
  <1>4. GapStart(s) = SectionsOf(l) + 1 /\ GapLength(s) = 8 - SectionsOf(l) - SectionsOf(r)
    BY <1>1 DEF GapStart, GapLength
  <1> HIDE DEF sides, l, r
  <1>5. ~Contains(r, Dot)
    <2>1. <<Colon, Colon>> \in Texts
      <3>1. <<Colon>> \in Texts
        BY Punctuation, TextOps
      <3>2. <<Colon>> \o <<Colon>> \in Texts
        BY ONLY <3>1, TextOps
      <3> QED
        BY ONLY <3>2, TwoColons
    <2> SUFFICES ASSUME NEW cc, cc = <<Colon, Colon>> PROVE ~Contains(r, Dot)
      OBVIOUS
    <2>2. l \o cc \in Texts
      BY <1>3, <2>1, TextOps
    <2>3. Contains((l \o cc) \o r, Dot) <=> Contains(l \o cc, Dot) \/ Contains(r, Dot)
      BY ONLY <1>3, <2>2, ContainsOps
    <2> QED
      BY ONLY <1>3, <2>3, cc = <<Colon, Colon>>, ~Contains(s, Dot)
  <1>6. left = ReadSide(Start, l) /\ both = ReadSide(left, r)
    OBVIOUS
  <1> HIDE DEF left, both
  <1>7. PICK gl, gr : BothRead(l, r, left.groups, both.groups, gl, gr)
    BY ONLY <1>2, <1>3, <1>5, <1>6, SidesRead
  <1>8. /\ gl \in Seq(Words16) /\ gr \in Seq(Words16)
        /\ left.groups = gl /\ both.groups = gl \o gr /\ Len(gl) + Len(gr) <= 8
        /\ SectionsOf(l) = Len(gl) /\ SectionsOf(r) = Len(gr)
    BY ONLY <1>7 DEF BothRead
  <1> DEFINE a == Len(gl) + 1
             m == 8 - Len(gl) - Len(gr)
  <1>9. Len(gl) \in Nat /\ Len(gr) \in Nat
    BY <1>8, GroupOps
  <1>10. GapStart(s) = a /\ GapLength(s) = m
    BY ONLY <1>4, <1>8
  <1>11. \A i, j \in Nat : i + j <= 8 =>
            /\ i + 1 \in Nat /\ i + 1 >= 1 /\ 8 - i - j \in Nat
            /\ i + 1 + (8 - i - j) <= 9 /\ i + (8 - i - j) + j = 8
    OBVIOUS
  <1>12. a \in Nat /\ a >= 1 /\ m \in Nat /\ a + m <= 9 /\ Len(gl) + m + Len(gr) = 8
    BY ONLY <1>8, <1>9, <1>11
  <1>13. a = Len(gl) + 1
    OBVIOUS
  <1> HIDE DEF a, m
  <1>14. CloseGap(gl, gl \o gr) \in EightGroups /\ ZeroFor(CloseGap(gl, gl \o gr), a, m)
    BY ONLY <1>8, <1>12, <1>13, GapZeros
  <1>15. v = hton(CloseGap(gl, gl \o gr))
    BY ONLY <1>2, <1>8
  <1>16. hton(v) = CloseGap(gl, gl \o gr)
    BY ONLY <1>14, <1>15, TwiceHton
  <1>17. m >= 2
    BY ONLY <1>10, GapLength(s) >= 2
  <1>18. TypedRun(s, v, a, m)
    BY ONLY <1>10, <1>12, <1>14, <1>16, <1>17 DEF TypedRun
  <1> QED
    BY ONLY <1>18

\* The specification that prints an address without a dotted quad.
LEMMA PlainFormat ==
    ASSUME NEW a
    PROVE  FormatV6(a, <<"r", "n">>) = compressed_ipv6(hton(a), TRUE, FALSE)
  <1>1. Seen(<<"r", "n">>) = {"r", "n"}
    <2>1. <<"r", "n">> # << >> /\ DOMAIN <<"r", "n">> = 1 .. 2 /\ <<"r", "n">>[1] = "r" /\ <<"r", "n">>[2] = "n"
      OBVIOUS
    <2>2. \A i : i \in 1 .. 2 <=> i = 1 \/ i = 2
      OBVIOUS
    <2> QED
      BY <2>1, <2>2 DEF Seen
  <1>2. "r" \in {"r", "n"} /\ "n" \in {"r", "n"} /\ "z" \notin {"r", "n"} /\ "f" \notin {"r", "n"}
    OBVIOUS
  <1> SUFFICES ASSUME NEW seen, seen = Seen(<<"r", "n">>),
                      "r" \in seen, "n" \in seen, "z" \notin seen, "f" \notin seen
               PROVE  FormatV6(a, <<"r", "n">>) = compressed_ipv6(hton(a), TRUE, FALSE)
    BY <1>1, <1>2
  <1>3. ("z" \notin seen) = TRUE
    OBVIOUS
  <1>4. (IF "r" \in seen THEN "n" \notin seen /\ check_mixed(hton(a)) ELSE "m" \in seen) = FALSE
    OBVIOUS
  <1> QED
    BY <1>3, <1>4 DEF FormatV6

\* A printed address has its gap at the first of the longest runs of zero
\* groups: no shorter than a gap the caller typed for it, and not further right
\* if it is as long (compressed_ipv6 against what from_string was given).
THEOREM AddressesLongestGap == Spec => []LongestGap
  <1>1. ASSUME Kept PROVE LongestGap
    <2> SUFFICES ASSUME phase = "read", class = "address_v6", value # Invalid,
                        ~Contains(text, Dot), GapLength(text) >= 2,
                        NEW shown, shown = FormatV6(value, <<"r", "n">>)
                 PROVE  \/ GapLength(shown) > GapLength(text)
                        \/ GapLength(shown) = GapLength(text) /\ GapStart(shown) <= GapStart(text)
      BY DEF LongestGap
    <2>1. text \in Texts /\ value = V6FromString(text)
      BY <1>1 DEF Kept, FromString
    <2>2. PICK a, m : TypedRun(text, value, a, m)
      BY ONLY <2>1, value # Invalid, ~Contains(text, Dot), GapLength(text) >= 2, TypedGap
    <2>3. /\ a \in Nat /\ m \in Nat /\ a >= 1 /\ m >= 2 /\ a + m <= 9
          /\ GapStart(text) = a /\ GapLength(text) = m /\ ZeroFor(hton(value), a, m)
      BY ONLY <2>2 DEF TypedRun
    <2> DEFINE local == hton(value)
               best == BestRun(local, 8)
    <2>4. value \in [1 .. 8 -> Words16]
      BY <2>1, V6Ok
    <2>5. local \in EightGroups
      <3>1. \A i \in 1 .. 8 : hton_16(value[i]) \in Words16
        BY <2>4, Htons
      <3>2. local = [i \in 1 .. 8 |-> hton_16(value[i])]
        BY <2>4 DEF hton
      <3> HIDE DEF local
      <3> QED
        BY <3>1, <3>2 DEF EightGroups, Indices
    <2>6. shown = compressed_ipv6(local, TRUE, FALSE)
      BY PlainFormat
    <2> HIDE DEF local
    <2>7. GoodRun(best, 8, local) /\ Leads(best, 8, local)
      <3>1. 8 \in 0 .. 8
        OBVIOUS
      <3> QED
        BY <2>5, <3>1, BestRunIs DEF TopRun
    <2> HIDE DEF best
    <2>8. Ahead(best.best_start, best.best_len, a, m)
      <3>1. a + m <= 8 + 1 /\ m >= 1
        BY ONLY <2>3
      <3> QED
        BY ONLY <2>3, <2>7, <3>1 DEF Leads, local
    <2>9. best.best_len \in Nat
      BY <2>7 DEF GoodRun, Runs
    <2>10. ~(best.best_len < 2)
      BY ONLY <2>3, <2>8, <2>9 DEF Ahead
    <2>11. GapStart(shown) = best.best_start /\ GapLength(shown) = best.best_len
      BY ONLY <2>5, <2>6, <2>10, ShownGap DEF best
    <2> QED
      BY ONLY <2>3, <2>8, <2>11 DEF Ahead
  <1> QED
    BY <1>1, AddressesKept, PTL
=============================================================================
