--------------------------- MODULE MAddressProofs ---------------------------
(***************************************************************************)
(* The laws of addresses, for all addresses.  The hash tables of mtrans.c   *)
(* need that equality is an equivalence and that equal addresses hash alike;*)
(* the routing of messages, that an address is a subset of itself and that  *)
(* equal addresses are subsets of each other.  Wildcards break some of these*)
(* laws: the theorems say where they must not be.  Then there are sorting,  *)
(* and that the reader of an address inverts its writer; the induction and  *)
(* the recursion over positions that this needs come first.                 *)
(***************************************************************************)
EXTENDS MAddress, FiniteSetTheorems, FunctionTheorems, SequenceTheorems,
        WellFoundedInduction, TLAPS

(***************************************************************************)
(* Induction.                                                              *)
(***************************************************************************)
LEMMA SetInduction ==
    ASSUME NEW S,
           \A n \in Nat : (\A m \in Nat : m < n => m \in S) => n \in S
    PROVE  Nat \subseteq S
  <1> DEFINE R == {ss \in Nat \X Nat : ss[1] < ss[2]}
             Rest == Nat \ S
  <1>1. IsWellFoundedOn(R, Nat)
    BY NatLessThanWellFounded DEF OpToRel
  <1>2. SUFFICES ASSUME Rest # {} PROVE FALSE
    OBVIOUS
  <1>3. PICK n \in Rest : \A m \in Rest : <<m, n>> \notin R
    BY <1>1, <1>2, WFMin
  <1>4. \A m \in Nat : m < n => m \in S
    BY <1>3
  <1>. QED  BY <1>4

LEMMA RankInduction ==
    ASSUME NEW D, NEW rk \in [D -> Nat], NEW S,
           \A x \in D : (\A y \in D : rk[y] < rk[x] => y \in S) => x \in S
    PROVE  D \subseteq S
  <1> DEFINE T == {n \in Nat : \A x \in D : rk[x] = n => x \in S}
  <1>1. ASSUME NEW n \in Nat, \A m \in Nat : m < n => m \in T
        PROVE  n \in T
    <2>1. ASSUME NEW x \in D, rk[x] = n PROVE x \in S
      <3>1. ASSUME NEW y \in D, rk[y] < rk[x] PROVE y \in S
        <4>1. rk[y] \in T
          BY <1>1, <2>1, <3>1
        <4>. QED  BY <4>1
      <3>. QED  BY <3>1
    <2>. QED  BY <2>1
  <1> HIDE DEF T
  <1>2. Nat \subseteq T
    BY <1>1, SetInduction
  <1>. QED  BY <1>2 DEF T

\* Induction from the end of a text to its beginning.
LEMMA DownwardInduction ==
    ASSUME NEW N \in Nat, NEW S,
           \A x \in 1..N : (\A y \in 1..N : x < y => y \in S) => x \in S
    PROVE  1..N \subseteq S
  <1> DEFINE D == 1..N
             rk == [x \in D |-> N - x]
  <1>1. rk \in [D -> Nat] /\ \A x, y \in D : rk[y] < rk[x] <=> x < y
    OBVIOUS
  <1>2. \A x \in D : (\A y \in D : x < y => y \in S) => x \in S
    OBVIOUS
  <1> HIDE DEF rk, D
  <1>3. \A x \in D : (\A y \in D : rk[y] < rk[x] => y \in S) => x \in S
    BY <1>1, <1>2
  <1>4. D \subseteq S
    BY <1>1, <1>3, RankInduction
  <1>. QED  BY <1>4 DEF D

\* A definition by recursion is given as the function F from what is known of f
\* so far to what is known next; it defines something when F looks no further
\* than to what is of a lower rank.
LooksBelow(F, D, V, rk) ==
    \A g, h \in [D -> V] : \A x \in D :
        (\A y \in D : rk[y] < rk[x] => g[y] = h[y]) => F[g][x] = F[h][x]

IsFixedPoint(f, F) == f = F[f]

LEMMA RankRecursion ==
    ASSUME NEW D, NEW V, V # {}, NEW rk \in [D -> Nat],
           NEW N \in Nat, \A x \in D : rk[x] < N,
           NEW F \in [[D -> V] -> [D -> V]], LooksBelow(F, D, V, rk)
    PROVE  \E f \in [D -> V] : IsFixedPoint(f, F)
  <1> DEFINE Good(n, g) == \A x \in D : rk[x] < n => g[x] = F[g][x]
             S == {n \in Nat : \E g \in [D -> V] : Good(n, g)}
  <1>1. ASSUME NEW n \in Nat, \A m \in Nat : m < n => m \in S
        PROVE  n \in S
    <2>1. CASE n = 0
      <3>1. PICK v \in V : TRUE
        OBVIOUS
      <3>2. [x \in D |-> v] \in [D -> V] /\ \A x \in D : ~(rk[x] < n)
        BY <2>1
      <3>. QED  BY <3>2
    <2>2. CASE n # 0
      <3>1. n - 1 \in Nat /\ n - 1 < n
        BY <2>2
      <3>2. PICK g \in [D -> V] : Good(n - 1, g)
        BY <1>1, <3>1
      <3>3. F[g] \in [D -> V]
        OBVIOUS
      <3>4. ASSUME NEW x \in D, rk[x] < n PROVE F[g][x] = F[F[g]][x]
        <4>1. ASSUME NEW y \in D, rk[y] < rk[x] PROVE g[y] = F[g][y]
          <5>1. rk[y] < n - 1
            BY <3>4, <4>1
          <5>. QED  BY <3>2, <5>1
        <4>. QED  BY <3>3, <4>1 DEF LooksBelow
      <3>5. Good(n, F[g])
        BY <3>4
      <3>. QED  BY <3>3, <3>5
    <2>. QED  BY <2>1, <2>2
  <1> HIDE DEF S
  <1>2. N \in S
    BY <1>1, SetInduction
  <1>3. PICK g \in [D -> V] : Good(N, g)
    BY <1>2 DEF S
  <1>4. F[g] \in [D -> V] /\ \A x \in D : g[x] = F[g][x]
    BY <1>3
  <1>5. IsFixedPoint(g, F)
    BY <1>4 DEF IsFixedPoint
  <1>. QED  BY <1>5

LEMMA DownwardRecursion ==
    ASSUME NEW N \in Nat, NEW V, V # {},
           NEW F \in [[1..N -> V] -> [1..N -> V]],
           \A g, h \in [1..N -> V] : \A x \in 1..N :
               (\A y \in 1..N : x < y => g[y] = h[y]) => F[g][x] = F[h][x]
    PROVE  \E f \in [1..N -> V] : IsFixedPoint(f, F)
  <1> DEFINE D == 1..N
             rk == [x \in D |-> N - x]
  <1>1. rk \in [D -> Nat] /\ \A x, y \in D : rk[y] < rk[x] <=> x < y
    OBVIOUS
  <1>2. \E B \in Nat : \A x \in D : rk[x] < B
    <2>1. \A x \in D : rk[x] < N + 1
      OBVIOUS
    <2>. QED  BY <2>1
  <1>5. \A g, h \in [D -> V] : \A x \in D :
            (\A y \in D : x < y => g[y] = h[y]) => F[g][x] = F[h][x]
    OBVIOUS
  <1>6. F \in [[D -> V] -> [D -> V]]
    OBVIOUS
  <1> HIDE DEF rk, D
  <1>3. LooksBelow(F, D, V, rk)
    <2>1. ASSUME NEW g \in [D -> V], NEW h \in [D -> V], NEW x \in D,
                 \A y \in D : rk[y] < rk[x] => g[y] = h[y]
          PROVE  F[g][x] = F[h][x]
      <3>1. \A y \in D : x < y => g[y] = h[y]
        BY <1>1, <2>1
      <3>. QED  BY <1>5, <3>1
    <2>. QED  BY <2>1 DEF LooksBelow
  <1>4. \E f \in [D -> V] : IsFixedPoint(f, F)
    <2>1. PICK B \in Nat : \A x \in D : rk[x] < B
      BY <1>2
    <2>2. rk \in [D -> Nat]
      BY <1>1
    <2>. QED  BY <2>1, <2>2, <1>3, <1>6, RankRecursion
  <1>. QED  BY <1>4 DEF D

(***************************************************************************)
(* Texts.                                                                  *)
(***************************************************************************)
Token == Mark \union Word

\* The first position, not before p, of which something holds.
LEMMA FirstOf ==
    ASSUME NEW n \in Nat, NEW p \in 1..n, NEW S, n \in S
    PROVE  \E q \in p..n : q \in S /\ \A i \in p..q - 1 : i \notin S
  <1> DEFINE Found == \E q \in p..n : q \in S /\ \A i \in p..q - 1 : i \notin S
             T == {i \in Nat : i \in p..n => Found \/ i \notin S}
  <1>1. ASSUME NEW i \in Nat, \A m \in Nat : m < i => m \in T
        PROVE  i \in T
    <2>1. SUFFICES ASSUME i \in p..n, i \in S
                   PROVE  Found
      BY Zenon
    <2>2. CASE \E k \in p..i - 1 : k \in S
      <3>1. PICK k \in p..i - 1 : k \in S
        BY <2>2
      <3>2. k \in Nat /\ k < i /\ k \in p..n
        BY <2>1
      <3>3. k \in T
        BY <1>1, <3>2
      <3>. QED  BY <3>1, <3>2, <3>3
    <2>3. CASE \A k \in p..i - 1 : k \notin S
      BY <2>1, <2>3
    <2>. QED  BY <2>2, <2>3
  <1> HIDE DEF T, Found
  <1>2. n \in T
    BY <1>1, SetInduction
  <1>3. Found
    BY <1>2 DEF T
  <1>. QED  BY <1>3 DEF Found

LEMMA FirstInIs ==
    ASSUME NEW t \in Text, NEW p \in 1..Len(t) + 1, NEW S
    PROVE  /\ FirstIn(t, p, S) \in p..Len(t) + 1
           /\ FirstIn(t, p, S) = Len(t) + 1 \/ t[FirstIn(t, p, S)] \in S
           /\ \A i \in p..FirstIn(t, p, S) - 1 : t[i] \notin S
  <1> DEFINE n == Len(t) + 1
             T == {i \in 1..n : i = n \/ t[i] \in S}
  <1>1. n \in Nat /\ n \in T
    BY DEF Text
  <1>2. PICK q \in p..n : q \in T /\ \A i \in p..q - 1 : i \notin T
    <2> HIDE DEF n, T
    <2>1. p \in 1..n
      BY DEF n
    <2>. QED  BY <1>1, <2>1, FirstOf
  <1>3. \A i \in p..q - 1 : t[i] \notin S
    BY <1>2, <1>1
  <1>4. q \in p..Len(t) + 1 /\ (q = Len(t) + 1 \/ t[q] \in S)
    BY <1>2
  <1>. QED  BY <1>3, <1>4 DEF FirstIn

LEMMA FirstInUnique ==
    ASSUME NEW t \in Text, NEW p \in 1..Len(t) + 1, NEW S,
           NEW q \in p..Len(t) + 1, q = Len(t) + 1 \/ t[q] \in S,
           \A i \in p..q - 1 : t[i] \notin S
    PROVE  FirstIn(t, p, S) = q
  <1> DEFINE f == FirstIn(t, p, S)
  <1>1. /\ f \in p..Len(t) + 1
        /\ f = Len(t) + 1 \/ t[f] \in S
        /\ \A i \in p..f - 1 : t[i] \notin S
    BY FirstInIs
  <1> HIDE DEF f
  <1>2. Len(t) \in Nat
    BY DEF Text
  <1>3. ~(f < q)
    BY <1>1, <1>2
  <1>4. ~(q < f)
    BY <1>1, <1>2
  <1>5. f = q
    BY <1>1, <1>2, <1>3, <1>4
  <1>. QED  BY <1>5 DEF f

LEMMA BeyondIsFirstIn ==
    ASSUME NEW t \in Text, NEW p \in 1..Len(t) + 1, NEW S
    PROVE  Beyond(t, p, S) = FirstIn(t, p, Token \ S)
  <1>1. \A i \in 1..Len(t) : t[i] \in S <=> t[i] \notin Token \ S
    BY DEF Text, Token
  <1>2. Len(t) \in Nat
    BY DEF Text
  <1>3. ASSUME NEW q \in p..Len(t) + 1
        PROVE  (/\ q = Len(t) + 1 \/ t[q] \notin S
                /\ \A i \in p..q - 1 : t[i] \in S)
               <=> (/\ q = Len(t) + 1 \/ t[q] \in Token \ S
                    /\ \A i \in p..q - 1 : t[i] \notin Token \ S)
    <2>1. q = Len(t) + 1 \/ q \in 1..Len(t)
      BY <1>2
    <2>2. \A i \in p..q - 1 : i \in 1..Len(t)
      BY <1>2
    <2>. QED  BY <1>1, <2>1, <2>2
  <1>. QED  BY <1>3, Zenon DEF Beyond, FirstIn

LEMMA BeyondIs ==
    ASSUME NEW t \in Text, NEW p \in 1..Len(t) + 1, NEW S
    PROVE  /\ Beyond(t, p, S) \in p..Len(t) + 1
           /\ Beyond(t, p, S) = Len(t) + 1 \/ t[Beyond(t, p, S)] \notin S
           /\ \A i \in p..Beyond(t, p, S) - 1 : t[i] \in S
  <1> DEFINE q == Beyond(t, p, S)
  <1>1. /\ q \in p..Len(t) + 1
        /\ q = Len(t) + 1 \/ t[q] \in Token \ S
        /\ \A i \in p..q - 1 : t[i] \notin Token \ S
    <2>1. q = FirstIn(t, p, Token \ S)
      BY BeyondIsFirstIn
    <2>. QED  BY <2>1, FirstInIs
  <1>2. \A i \in 1..Len(t) : t[i] \in Token
    BY DEF Text, Token
  <1>3. Len(t) \in Nat
    BY DEF Text
  <1> HIDE DEF q
  <1>4. \A i \in p..q - 1 : i \in 1..Len(t)
    BY <1>1, <1>3
  <1>5. /\ q \in p..Len(t) + 1
        /\ q = Len(t) + 1 \/ t[q] \notin S
        /\ \A i \in p..q - 1 : t[i] \in S
    BY <1>1, <1>2, <1>4
  <1>. QED  BY <1>5 DEF q

LEMMA BeyondUnique ==
    ASSUME NEW t \in Text, NEW p \in 1..Len(t) + 1, NEW S,
           NEW q \in p..Len(t) + 1, q = Len(t) + 1 \/ t[q] \notin S,
           \A i \in p..q - 1 : t[i] \in S
    PROVE  Beyond(t, p, S) = q
  <1>1. q = Len(t) + 1 \/ t[q] \in Token \ S
    BY DEF Text, Token
  <1>2. \A i \in p..q - 1 : t[i] \notin Token \ S
    OBVIOUS
  <1>. QED  BY <1>1, <1>2, FirstInUnique, BeyondIsFirstIn

\* Nothing is skipped where there is nothing to skip.
LEMMA BeyondNothing ==
    ASSUME NEW t \in Text, NEW p \in 1..Len(t), NEW S, t[p] \notin S
    PROVE  Beyond(t, p, S) = p
  <1>1. p \in 1..Len(t) + 1 /\ p \in p..Len(t) + 1 /\ \A i \in p..p - 1 : FALSE
    BY DEF Text
  <1>. QED  BY <1>1, BeyondUnique

LEMMA BeyondOne ==
    ASSUME NEW t \in Text, NEW p \in 1..Len(t), NEW S, t[p] \in S,
           p + 1 \in 1..Len(t), t[p + 1] \notin S
    PROVE  Beyond(t, p, S) = p + 1
  <1>1. /\ p \in 1..Len(t) + 1
        /\ p + 1 \in p..Len(t) + 1
        /\ \A i \in p..(p + 1) - 1 : i = p
    BY DEF Text
  <1>. QED  BY <1>1, BeyondUnique

\* The text w stands in t at the position p.
Holds(t, p, w) ==
    /\ p \in Nat \ {0}
    /\ p + Len(w) - 1 <= Len(t)
    /\ \A i \in 1..Len(w) : t[p + i - 1] = w[i]

LEMMA HoldsOne ==
    ASSUME NEW t \in Text, NEW p \in Nat, NEW x, Holds(t, p, <<x>>)
    PROVE  p \in 1..Len(t) /\ t[p] = x
  <1>1. Len(<<x>>) = 1 /\ <<x>>[1] = x
    OBVIOUS
  <1>2. Len(t) \in Nat
    BY DEF Text
  <1>3. p \in 1..Len(t) /\ t[p + 1 - 1] = x
    BY <1>1, <1>2 DEF Holds
  <1>. QED  BY <1>3

LEMMA HoldsConcat ==
    ASSUME NEW t \in Text, NEW p \in Nat, NEW u \in Text, NEW v \in Text,
           Holds(t, p, u \o v)
    PROVE  Holds(t, p, u) /\ Holds(t, p + Len(u), v)
  <1> DEFINE w == u \o v
  <1>1. /\ Len(t) \in Nat /\ Len(u) \in Nat /\ Len(v) \in Nat
        /\ Len(w) = Len(u) + Len(v)
        /\ \A i \in 1..Len(u) : w[i] = u[i]
        /\ \A i \in 1..Len(v) : w[Len(u) + i] = v[i]
    <2>1. /\ Len(u) \in Nat /\ Len(v) \in Nat
          /\ Len(w) = Len(u) + Len(v)
          /\ \A i \in 1..Len(u) + Len(v) :
                 w[i] = IF i <= Len(u) THEN u[i] ELSE v[i - Len(u)]
      BY ConcatProperties DEF Text
    <2>2. ASSUME NEW i \in 1..Len(v) PROVE w[Len(u) + i] = v[i]
      <3>1. Len(u) + i \in 1..Len(u) + Len(v) /\ ~(Len(u) + i <= Len(u))
            /\ Len(u) + i - Len(u) = i
        BY <2>1
      <3>. QED  BY <2>1, <3>1
    <2>3. ASSUME NEW i \in 1..Len(u) PROVE w[i] = u[i]
      <3>1. i \in 1..Len(u) + Len(v) /\ i <= Len(u)
        BY <2>1
      <3>. QED  BY <2>1, <3>1
    <2>. QED  BY <2>1, <2>2, <2>3 DEF Text
  <1> HIDE DEF w
  <1>2. /\ p \in Nat \ {0}
        /\ p + Len(w) - 1 <= Len(t)
        /\ \A i \in 1..Len(w) : t[p + i - 1] = w[i]
    BY DEF Holds, w
  <1>3. Holds(t, p, u)
    BY <1>1, <1>2 DEF Holds
  <1>4. ASSUME NEW i \in 1..Len(v) PROVE t[(p + Len(u)) + i - 1] = v[i]
    <2>1. Len(u) + i \in 1..Len(w)
          /\ p + (Len(u) + i) - 1 = (p + Len(u)) + i - 1
      BY <1>1, <1>2
    <2>. QED  BY <1>1, <1>2, <2>1
  <1>5. Holds(t, p + Len(u), v)
    BY <1>1, <1>2, <1>4 DEF Holds
  <1>. QED  BY <1>3, <1>5

\* Concatenated texts stand one behind the other.
FlattenStep(ss, f, i) == IF i = 1 THEN ss[i] ELSE f[i - 1] \o ss[i]

LEMMA FlattenFunction ==
    ASSUME NEW S, NEW ss \in Seq(Seq(S)), Len(ss) # 0
    PROVE  \E f \in [1..Len(ss) -> Seq(S)] :
               /\ \A i \in 1..Len(ss) : f[i] = FlattenStep(ss, f, i)
               /\ FlattenSeq(ss) = f[Len(ss)]
  <1> DEFINE D == 1..Len(ss)
             V == Seq(S)
             rk == [i \in D |-> i]
             F == [g \in [D -> V] |-> [i \in D |-> FlattenStep(ss, g, i)]]
             fl == CHOOSE f : f = [i \in D |-> FlattenStep(ss, f, i)]
  <1>1. /\ Len(ss) \in Nat
        /\ \A i \in D : ss[i] \in V /\ i \in Nat /\ (i # 1 => i - 1 \in D)
        /\ V # {}
        /\ rk \in [D -> Nat]
        /\ \A i \in D : rk[i] < Len(ss) + 1
    OBVIOUS
  <1>2. ASSUME NEW g, NEW i \in D, \A j \in D : j < i => g[j] \in V
        PROVE  FlattenStep(ss, g, i) \in V
    <2>1. CASE i = 1
      BY <1>1, <2>1 DEF FlattenStep
    <2>2. CASE i # 1
      <3>1. i - 1 \in D /\ i - 1 < i
        BY <1>1, <2>2
      <3>2. g[i - 1] \in V
        BY <1>2, <3>1
      <3>3. FlattenStep(ss, g, i) = g[i - 1] \o ss[i]
        BY <2>2 DEF FlattenStep
      <3>. QED  BY <1>1, <3>2, <3>3, ConcatProperties
    <2>. QED  BY <2>1, <2>2
  <1>3. F \in [[D -> V] -> [D -> V]]
    <2>1. ASSUME NEW g \in [D -> V] PROVE [i \in D |-> FlattenStep(ss, g, i)] \in [D -> V]
      BY <1>2, <2>1
    <2>. QED  BY <2>1
  <1>4. LooksBelow(F, D, V, rk)
    <2>1. ASSUME NEW g \in [D -> V], NEW h \in [D -> V], NEW i \in D,
                 \A j \in D : rk[j] < rk[i] => g[j] = h[j]
          PROVE  FlattenStep(ss, g, i) = FlattenStep(ss, h, i)
      <3>1. i # 1 => i - 1 \in D /\ rk[i - 1] < rk[i]
        BY <1>1
      <3>. QED  BY <2>1, <3>1 DEF FlattenStep
    <2>. QED  BY <2>1 DEF LooksBelow
  <1> HIDE DEF D, V, rk
  <1>5. PICK f \in [D -> V] : IsFixedPoint(f, F)
    <2> HIDE DEF F
    <2>1. PICK N \in Nat : \A i \in D : rk[i] < N
      <3>1. Len(ss) + 1 \in Nat
        BY <1>1
      <3>. QED  BY <1>1, <3>1
    <2>. QED  BY <1>1, <1>3, <1>4, <2>1, RankRecursion
  <1>6. f = [i \in D |-> FlattenStep(ss, f, i)]
    BY <1>5 DEF IsFixedPoint
  <1>7. fl = [i \in D |-> FlattenStep(ss, fl, i)]
    BY <1>6, Zenon
  <1>8. FlattenSeq(ss) = fl[Len(ss)]
    BY Zenon DEF FlattenSeq, FlattenStep, D
  <1> HIDE DEF fl
  <1>9. \A i \in D : fl[i] \in V
    <2> DEFINE T == {i \in D : fl[i] \in V}
    <2>1. ASSUME NEW i \in D, \A j \in D : rk[j] < rk[i] => j \in T
          PROVE  i \in T
      <3>1. \A j \in D : j < i => fl[j] \in V
        BY <2>1 DEF rk
      <3>2. fl[i] = FlattenStep(ss, fl, i)
        BY <1>7
      <3>. QED  BY <1>2, <3>1, <3>2
    <2> HIDE DEF T
    <2>2. D \subseteq T
      BY <1>1, <2>1, RankInduction
    <2>. QED  BY <2>2 DEF T
  <1>10. fl \in [D -> V]
    BY <1>7, <1>9
  <1>11. \A i \in D : fl[i] = FlattenStep(ss, fl, i)
    BY <1>7
  <1>. QED  BY <1>8, <1>10, <1>11 DEF D, V

LEMMA FlattenTyped ==
    ASSUME NEW S, NEW ss \in Seq(Seq(S))
    PROVE  FlattenSeq(ss) \in Seq(S)
  <1>1. CASE Len(ss) = 0
    <2>1. ss = <<>>
      BY <1>1, EmptySeq
    <2>2. FlattenSeq(ss) = <<>>
      BY <1>1, <2>1 DEF FlattenSeq
    <2>. QED  BY <2>2
  <1>2. CASE Len(ss) # 0
    <2>1. PICK f \in [1..Len(ss) -> Seq(S)] : FlattenSeq(ss) = f[Len(ss)]
      BY <1>2, FlattenFunction
    <2>2. Len(ss) \in 1..Len(ss)
      BY <1>2
    <2>. QED  BY <2>1, <2>2
  <1>. QED  BY <1>1, <1>2

\* The positions pos of the texts ss, one behind the other from p on.
Places(t, ss, p, pos) ==
    /\ pos[1] = p
    /\ \A i \in 1..Len(ss) : /\ Holds(t, pos[i], ss[i])
                             /\ pos[i + 1] = pos[i] + Len(ss[i])

LEMMA FlattenHolds ==
    ASSUME NEW t \in Text, NEW p \in Nat, NEW ss \in Seq(Text),
           Holds(t, p, FlattenSeq(ss))
    PROVE  \E pos \in [1..Len(ss) + 1 -> Nat] :
               /\ Places(t, ss, p, pos)
               /\ pos[Len(ss) + 1] = p + Len(FlattenSeq(ss))
  <1>1. CASE Len(ss) = 0
    <2>1. ss = <<>>
      BY <1>1, EmptySeq
    <2>2. FlattenSeq(ss) = <<>>
      BY <1>1, <2>1 DEF FlattenSeq
    <2> DEFINE pos == [i \in 1..Len(ss) + 1 |-> p]
    <2>3. /\ pos \in [1..Len(ss) + 1 -> Nat]
          /\ pos[1] = p
          /\ \A i \in 1..Len(ss) : FALSE
          /\ pos[Len(ss) + 1] = p + Len(FlattenSeq(ss))
      BY <1>1, <2>2
    <2> HIDE DEF pos
    <2>. QED  BY <2>3 DEF Places
  <1>2. CASE Len(ss) # 0
    <2> DEFINE n == Len(ss)
    <2>1. PICK f \in [1..n -> Text] :
              /\ \A i \in 1..n : f[i] = FlattenStep(ss, f, i)
              /\ FlattenSeq(ss) = f[n]
      BY <1>2, FlattenFunction DEF Text
    <2> DEFINE pos == [i \in 1..n + 1 |-> IF i = 1 THEN p ELSE p + Len(f[i - 1])]
    <2>2. /\ n \in Nat /\ n # 0 /\ n \in 1..n /\ 1 \in 1..n
          /\ \A i \in 1..n : /\ ss[i] \in Text /\ f[i] \in Text /\ Len(f[i]) \in Nat
                             /\ Len(ss[i]) \in Nat
                             /\ i # 1 => i - 1 \in 1..n
      <3>1. n \in Nat /\ n # 0
        BY <1>2
      <3>2. \A i \in 1..n : /\ ss[i] \in Text /\ f[i] \in Text
                            /\ i # 1 => i - 1 \in 1..n
        BY <2>1, <3>1
      <3>3. \A u \in Text : Len(u) \in Nat
        BY DEF Text
      <3> HIDE DEF n
      <3>. QED  BY <3>1, <3>2, <3>3
    <2>20. /\ \A i \in 1..n : pos[i + 1] = p + Len(f[i])
          /\ pos[1] = p
          /\ \A i \in 1..n : i # 1 => pos[i] = p + Len(f[i - 1])
      <3>1. \A i \in 1..n : i + 1 \in 1..n + 1 /\ i + 1 # 1 /\ i + 1 - 1 = i
        BY <2>2
      <3>2. \A i \in 1..n : i \in 1..n + 1
        BY <2>2
      <3>. QED  BY <2>2, <3>1, <3>2
    <2>3. pos \in [1..n + 1 -> Nat]
      <3>1. ASSUME NEW i \in 1..n + 1 PROVE pos[i] \in Nat
        <4>1. i = 1 \/ (i # 1 /\ i - 1 \in 1..n)
          BY <2>2
        <4>. QED  BY <2>2, <4>1
      <3>. QED  BY <3>1
    <2> HIDE DEF pos, n
    <2>4. f[1] = ss[1]
      BY <2>1, <2>2 DEF FlattenStep
    <2>5. ASSUME NEW i \in 1..n, i # 1
          PROVE  f[i] = f[i - 1] \o ss[i] /\ Len(f[i]) = Len(f[i - 1]) + Len(ss[i])
      <3>1. f[i] = f[i - 1] \o ss[i]
        BY <2>1, <2>5 DEF FlattenStep
      <3>. QED  BY <2>2, <2>5, <3>1, ConcatProperties DEF Text
    <2> DEFINE T == {i \in 1..n : Holds(t, p, f[i])}
    <2>6. ASSUME NEW i \in 1..n, \A j \in 1..n : i < j => j \in T
          PROVE  i \in T
      <3>1. CASE i = n
        BY <2>1, <3>1 DEF n, T
      <3>2. CASE i # n
        <4>1. i + 1 \in 1..n /\ i + 1 # 1 /\ i < i + 1 /\ (i + 1) - 1 = i
          BY <2>2, <3>2
        <4>2. Holds(t, p, f[i + 1]) /\ f[i + 1] = f[i] \o ss[i + 1]
          BY <2>5, <2>6, <4>1 DEF T
        <4>3. f[i] \in Text /\ ss[i + 1] \in Text
          BY <2>2, <4>1
        <4>4. Holds(t, p, f[i] \o ss[i + 1])
          BY <4>2
        <4>5. Holds(t, p, f[i])
          BY <4>3, <4>4, HoldsConcat
        <4>. QED  BY <4>5 DEF T
      <3>. QED  BY <3>1, <3>2
    <2> HIDE DEF T
    <2>7. 1..n \subseteq T
      BY <2>2, <2>6, DownwardInduction
    <2>8. ASSUME NEW i \in 1..n
          PROVE  Holds(t, pos[i], ss[i]) /\ pos[i + 1] = pos[i] + Len(ss[i])
      <3>1. Holds(t, p, f[i])
        BY <2>7 DEF T
      <3>2. CASE i = 1
        BY <2>2, <2>20, <2>4, <3>1, <3>2
      <3>3. CASE i # 1
        <4>1. i - 1 \in 1..n /\ f[i] = f[i - 1] \o ss[i] /\ pos[i] = p + Len(f[i - 1])
          BY <2>2, <2>20, <2>5, <3>3
        <4>2. f[i - 1] \in Text /\ ss[i] \in Text /\ Holds(t, p, f[i - 1] \o ss[i])
          BY <2>2, <3>1, <4>1
        <4>3. Holds(t, p + Len(f[i - 1]), ss[i])
          BY <4>2, HoldsConcat
        <4>4. /\ pos[i + 1] = p + Len(f[i]) /\ Len(f[i]) = Len(f[i - 1]) + Len(ss[i])
              /\ Len(f[i - 1]) \in Nat /\ Len(ss[i]) \in Nat
          BY <2>2, <2>20, <2>5, <3>3, <4>1
        <4>5. pos[i + 1] = (p + Len(f[i - 1])) + Len(ss[i])
          <5>1. \A a, b \in Nat : p + (a + b) = (p + a) + b
            OBVIOUS
          <5>. QED  BY <4>4, <5>1
        <4>. QED  BY <4>1, <4>3, <4>5
      <3>. QED  BY <3>2, <3>3
    <2>9. pos[n + 1] = p + Len(FlattenSeq(ss))
      BY <2>1, <2>2, <2>20
    <2>. QED  BY <2>2, <2>20, <2>3, <2>8, <2>9 DEF Places, n
  <1>. QED  BY <1>1, <1>2

(***************************************************************************)
(* Sorting.                                                                *)
(***************************************************************************)
\* The number of elements that come before the one at j.
Before(a, j) == {i \in DOMAIN a : Precedes(a, i, j)}

LEMMA PrecedesIsOrder ==
    ASSUME NEW E \in SUBSET Element, NEW a \in Seq(E)
    PROVE  /\ \A i \in DOMAIN a : ~Precedes(a, i, i)
           /\ \A i, j \in DOMAIN a : i = j \/ Precedes(a, i, j) \/ Precedes(a, j, i)
           /\ \A i, j, k \in DOMAIN a :
                  Precedes(a, i, j) /\ Precedes(a, j, k) => Precedes(a, i, k)
           /\ \A i, j \in DOMAIN a :
                  Precedes(a, i, j) => Rank[a[i].key] <= Rank[a[j].key]
  <1>1. \A i \in DOMAIN a : a[i].key \in Key /\ Rank[a[i].key] \in Nat /\ i \in Nat
    BY AddressAssumption DEF Element
  <1>2. \A i, j \in DOMAIN a : Rank[a[i].key] = Rank[a[j].key] <=> a[i].key = a[j].key
    BY <1>1, AddressAssumption
  <1>. QED  BY <1>1, <1>2 DEF Precedes

LEMMA BeforeCounts ==
    ASSUME NEW E \in SUBSET Element, NEW a \in Seq(E)
    PROVE  /\ \A j \in DOMAIN a : Cardinality(Before(a, j)) \in 0..Len(a) - 1
           /\ \A i, j \in DOMAIN a :
                  Precedes(a, i, j) => Cardinality(Before(a, i)) < Cardinality(Before(a, j))
  <1>1. DOMAIN a = 1..Len(a) /\ Len(a) \in Nat
    OBVIOUS
  <1>2. IsFiniteSet(DOMAIN a) /\ Cardinality(DOMAIN a) = Len(a)
    <2>1. IsFiniteSet(1..Len(a))
          /\ Cardinality(1..Len(a)) = IF 1 > Len(a) THEN 0 ELSE Len(a) - 1 + 1
      BY <1>1, FS_Interval
    <2>. QED  BY <1>1, <2>1
  <1>3. \A j \in DOMAIN a : Before(a, j) \in SUBSET DOMAIN a
    BY DEF Before
  <1>4. \A j \in DOMAIN a : IsFiniteSet(Before(a, j)) /\ Cardinality(Before(a, j)) \in Nat
    BY <1>2, <1>3, FS_Subset, FS_CardinalityType
  <1>5. ASSUME NEW j \in DOMAIN a PROVE Cardinality(Before(a, j)) \in 0..Len(a) - 1
    <2>1. j \notin Before(a, j)
      BY PrecedesIsOrder DEF Before
    <2>2. /\ Cardinality(Before(a, j)) <= Cardinality(DOMAIN a)
          /\ Cardinality(Before(a, j)) # Cardinality(DOMAIN a)
      BY <1>2, <1>3, <2>1, FS_Subset
    <2>. QED  BY <1>1, <1>2, <1>4, <2>2
  <1>6. ASSUME NEW i \in DOMAIN a, NEW j \in DOMAIN a, Precedes(a, i, j)
        PROVE  Cardinality(Before(a, i)) < Cardinality(Before(a, j))
    <2>1. Before(a, i) \in SUBSET Before(a, j)
      BY <1>6, PrecedesIsOrder DEF Before
    <2>2. i \in Before(a, j) /\ i \notin Before(a, i)
      BY <1>6, PrecedesIsOrder DEF Before
    <2>3. /\ Cardinality(Before(a, i)) <= Cardinality(Before(a, j))
          /\ Cardinality(Before(a, i)) # Cardinality(Before(a, j))
      BY <1>4, <2>1, <2>2, FS_Subset
    <2>. QED  BY <1>4, <2>3
  <1>. QED  BY <1>5, <1>6

\* Each place of the sorted address takes one element.
LEMMA SortedPlaces ==
    ASSUME NEW E \in SUBSET Element, NEW a \in Seq(E)
    PROVE  \E at \in [DOMAIN a -> DOMAIN a] :
               /\ \A n \in DOMAIN a : Cardinality(Before(a, at[n])) = n - 1
               /\ Sorted(a) = [n \in DOMAIN a |-> a[at[n]]]
  <1> DEFINE D == DOMAIN a
             T == 0..Len(a) - 1
             c == [j \in D |-> Cardinality(Before(a, j))]
             at == [n \in D |-> CHOOSE j \in D : Cardinality(Before(a, j)) = n - 1]
  <1>1. D = 1..Len(a) /\ Len(a) \in Nat
    OBVIOUS
  <1>2. c \in [D -> T]
    BY BeforeCounts
  <1>3. \A i, j \in D : c[i] = c[j] => i = j
    <2>1. \A i \in D : c[i] \in Nat
      BY <1>1, <1>2
    <2>2. \A i, j \in D : Precedes(a, i, j) => c[i] < c[j]
      BY BeforeCounts
    <2>3. \A i, j \in D : i = j \/ Precedes(a, i, j) \/ Precedes(a, j, i)
      BY PrecedesIsOrder
    <2> HIDE DEF c, D
    <2>. QED  BY <2>1, <2>2, <2>3
  <1>4. IsFiniteSet(D) /\ IsFiniteSet(T) /\ Cardinality(D) = Cardinality(T)
    <2>1. PICK l \in Nat : l = Len(a)
      BY <1>1
    <2>2. PICK k \in Int : k = l - 1
      OBVIOUS
    <2>3. 0 \in Int /\ 1 \in Int /\ l \in Int
      OBVIOUS
    <2>4. IsFiniteSet(1..l) /\ Cardinality(1..l) = IF 1 > l THEN 0 ELSE l - 1 + 1
      BY <2>3, FS_Interval
    <2>5. IsFiniteSet(0..k) /\ Cardinality(0..k) = IF 0 > k THEN 0 ELSE k - 0 + 1
      BY <2>3, FS_Interval
    <2>6. Cardinality(1..l) = Cardinality(0..k)
      BY <2>2, <2>4, <2>5
    <2>. QED  BY <1>1, <2>1, <2>2, <2>4, <2>5, <2>6
  <1>5. \A m \in T : \E j \in D : c[j] = m
    <2> HIDE DEF c, D, T
    <2>1. c \in Injection(D, T)
      BY <1>2, <1>3, Fun_IsInj
    <2>2. c \in Surjection(D, T)
      BY <1>4, <2>1, FS_Injection
    <2>. QED  BY <2>2 DEF Surjection
  <1>6. \A n \in D : n - 1 \in T
    BY <1>1
  <1>7. \A n \in D : \E j \in D : Cardinality(Before(a, j)) = n - 1
    BY <1>5, <1>6
  <1>8. \A n \in D : at[n] \in D /\ Cardinality(Before(a, at[n])) = n - 1
    BY <1>7
  <1>9. Sorted(a) = [n \in D |-> a[at[n]]]
    BY DEF Sorted, Before
  <1>10. at \in [D -> D]
    BY <1>8
  <1> HIDE DEF at
  <1>. QED  BY <1>8, <1>9, <1>10

\* Sorting rearranges the elements, none lost and none repeated, puts them into
\* order and leaves those with the same key in the order they were in.
THEOREM SortedIsInOrder ==
    ASSUME NEW E \in SUBSET Element, NEW a \in Seq(E)
    PROVE  /\ Sorted(a) \in Seq(E)
           /\ Len(Sorted(a)) = Len(a)
           /\ InOrder(Sorted(a))
           /\ \E at \in Bijection(DOMAIN a, DOMAIN a) :
                 /\ \A n \in DOMAIN a : Sorted(a)[n] = a[at[n]]
                 /\ \A m, n \in DOMAIN a :
                       m < n /\ Sorted(a)[m].key = Sorted(a)[n].key => at[m] < at[n]
  <1>1. PICK at \in [DOMAIN a -> DOMAIN a] :
            /\ \A n \in DOMAIN a : Cardinality(Before(a, at[n])) = n - 1
            /\ Sorted(a) = [n \in DOMAIN a |-> a[at[n]]]
    BY SortedPlaces
  <1> DEFINE s == Sorted(a)
  <1>2. DOMAIN a = 1..Len(a) /\ Len(a) \in Nat
    OBVIOUS
  <1>3. \A n \in DOMAIN a : s[n] = a[at[n]] /\ s[n] \in E
    BY <1>1
  <1>4. s \in Seq(E) /\ Len(s) = Len(a) /\ DOMAIN s = DOMAIN a
    <2>1. s \in [1..Len(a) -> E] /\ DOMAIN s = 1..Len(a)
      BY <1>1, <1>2, <1>3
    <2> HIDE DEF s
    <2>2. s \in Seq(E)
      BY <1>2, <2>1, SeqDef
    <2>. QED  BY <1>2, <2>1, <2>2
  <1>5. ASSUME NEW m \in DOMAIN a, NEW n \in DOMAIN a, m < n
        PROVE  Precedes(a, at[m], at[n]) /\ Rank[s[m].key] <= Rank[s[n].key]
    <2>1. /\ at[m] \in DOMAIN a /\ at[n] \in DOMAIN a
          /\ Cardinality(Before(a, at[m])) = m - 1 /\ Cardinality(Before(a, at[n])) = n - 1
          /\ m \in Nat /\ n \in Nat
      <3> HIDE DEF s
      <3>1. at[m] \in DOMAIN a /\ at[n] \in DOMAIN a
        BY <1>1
      <3>2. Cardinality(Before(a, at[m])) = m - 1 /\ Cardinality(Before(a, at[n])) = n - 1
        BY <1>1
      <3>3. m \in Nat /\ n \in Nat
        BY <1>2
      <3>. QED  BY <3>1, <3>2, <3>3
    <2>2. ~Precedes(a, at[n], at[m]) /\ at[n] # at[m]
      BY <1>5, <2>1, BeforeCounts
    <2>3. Precedes(a, at[m], at[n])
      BY <2>1, <2>2, PrecedesIsOrder
    <2>. QED  BY <1>3, <2>1, <2>3, PrecedesIsOrder
  <1> HIDE DEF s
  <1>6. InOrder(s)
    BY <1>4, <1>5 DEF InOrder
  <1>7. at \in Bijection(DOMAIN a, DOMAIN a)
    <2>1. ASSUME NEW m \in DOMAIN a, NEW n \in DOMAIN a, at[m] = at[n] PROVE m = n
      <3>1. m - 1 = n - 1
        BY <1>1, <2>1
      <3>. QED  BY <1>2, <3>1
    <2>2. at \in Injection(DOMAIN a, DOMAIN a)
      BY <1>1, <2>1 DEF Injection, IsInjective
    <2>3. IsFiniteSet(DOMAIN a)
      BY <1>2, FS_Interval
    <2>4. at \in Surjection(DOMAIN a, DOMAIN a)
      BY <2>2, <2>3, FS_Injection
    <2>. QED  BY <2>2, <2>4 DEF Bijection
  <1>8. ASSUME NEW m \in DOMAIN a, NEW n \in DOMAIN a, m < n, s[m].key = s[n].key
        PROVE  at[m] < at[n]
    <2>1. Precedes(a, at[m], at[n]) /\ a[at[m]].key = a[at[n]].key
      BY <1>3, <1>5, <1>8
    <2>2. at[m] \in DOMAIN a /\ a[at[m]] \in Element
      BY <1>1
    <2>3. Rank[a[at[m]].key] \in Nat
      BY <2>2, AddressAssumption DEF Element
    <2>. QED  BY <2>1, <2>3 DEF Precedes
  <1>9. \E p \in Bijection(DOMAIN a, DOMAIN a) :
           /\ \A n \in DOMAIN a : s[n] = a[p[n]]
           /\ \A m, n \in DOMAIN a : m < n /\ s[m].key = s[n].key => p[m] < p[n]
    BY <1>3, <1>7, <1>8
  <1>. QED  BY <1>4, <1>6, <1>9 DEF s

\* An address in order stays as it is.
THEOREM SortedKeepsOrder ==
    ASSUME NEW a \in Address, InOrder(a)
    PROVE  Sorted(a) = a
  <1>1. PICK at \in [DOMAIN a -> DOMAIN a] :
            /\ \A n \in DOMAIN a : Cardinality(Before(a, at[n])) = n - 1
            /\ Sorted(a) = [n \in DOMAIN a |-> a[at[n]]]
    BY SortedPlaces DEF Address
  <1>2. DOMAIN a = 1..Len(a) /\ Len(a) \in Nat
    BY DEF Address
  <1>3. ASSUME NEW j \in DOMAIN a PROVE Before(a, j) = 1..j - 1
    <2>1. \A i \in DOMAIN a : a[i].key \in Key /\ Rank[a[i].key] \in Nat /\ i \in Nat
      <3>1. \A i \in DOMAIN a : a[i] \in Element
        BY DEF Address
      <3>2. \A e \in Element : e.key \in Key
        BY DEF Element
      <3>. QED  BY <1>2, <3>1, <3>2, AddressAssumption
    <2>2. \A i \in DOMAIN a : Rank[a[i].key] = Rank[a[j].key] <=> a[i].key = a[j].key
      BY <2>1, AddressAssumption
    <2>3. ASSUME NEW i \in DOMAIN a PROVE Precedes(a, i, j) <=> i < j
      <3>1. CASE i < j
        BY <2>1, <2>2, <3>1 DEF InOrder, Precedes
      <3>2. CASE i = j
        BY <2>1, <3>2 DEF Precedes
      <3>3. CASE j < i
        <4>1. Rank[a[j].key] <= Rank[a[i].key]
          BY <3>3 DEF InOrder
        <4>. QED  BY <2>1, <3>3, <4>1 DEF Precedes
      <3>. QED  BY <1>2, <3>1, <3>2, <3>3
    <2>. QED  BY <1>2, <2>3 DEF Before
  <1>4. ASSUME NEW n \in DOMAIN a PROVE at[n] = n
    <2>1. at[n] \in DOMAIN a /\ Cardinality(Before(a, at[n])) = n - 1
      BY <1>1
    <2>2. at[n] \in 1..Len(a) /\ Cardinality(1..at[n] - 1) = n - 1
      BY <1>2, <1>3, <2>1
    <2>3. Cardinality(1..at[n] - 1) = IF 1 > at[n] - 1 THEN 0 ELSE at[n] - 1 - 1 + 1
      <3>1. at[n] - 1 \in Int
        BY <1>2, <2>2
      <3>. QED  BY <3>1, FS_Interval
    <2>. QED  BY <1>2, <2>2, <2>3
  <1>5. Sorted(a) = [n \in DOMAIN a |-> a[n]]
    BY <1>1, <1>4
  <1>. QED  BY <1>5 DEF Address

(***************************************************************************)
(* Reading.                                                                *)
(***************************************************************************)
\* The elements whose value has nothing that ends it for the reader.
SafeElement ==
    {e \in Element : \A i \in DOMAIN e.value : e.value[i] \notin Blank \union {")"}}

LEMMA TextLength ==
    ASSUME NEW t \in Text
    PROVE  Len(t) \in Nat /\ \A i \in 1..Len(t) : t[i] \in Token
  BY DEF Text, Token

LEMMA Excerpt ==
    ASSUME NEW t \in Text, NEW i \in 1..Len(t) + 1, NEW j \in i..Len(t) + 1
    PROVE  /\ SubSeq(t, i, j - 1) \in Text
           /\ Len(SubSeq(t, i, j - 1)) = j - i
           /\ \A n \in 1..j - i : SubSeq(t, i, j - 1)[n] = t[i + n - 1]
  <1>1. \A n \in i..j - 1 : t[n] \in Token
    <2>1. \A n \in i..j - 1 : n \in 1..Len(t)
      BY TextLength
    <2>. QED  BY <2>1, TextLength
  <1>2. i \in Int /\ j - 1 \in Int /\ i <= j
    BY TextLength
  <1>3. /\ SubSeq(t, i, j - 1) \in Seq(Token)
        /\ Len(SubSeq(t, i, j - 1)) = IF i <= j - 1 THEN (j - 1) - i + 1 ELSE 0
        /\ \A n \in 1..(j - 1) - i + 1 : SubSeq(t, i, j - 1)[n] = t[i + n - 1]
    BY <1>1, <1>2, SubSeqProperties
  <1>. QED  BY <1>2, <1>3 DEF Text, Token

LEMMA ReadElementIs ==
    ASSUME NEW t \in Text, NEW k \in 1..Len(t) + 1
    PROVE  LET r == ReadElement(t, k)
           IN  \/ r.ok /\ r.next \in k + 1..Len(t) + 1 /\ r.element \in SafeElement
               \/ ~r.ok /\ r.next = k
  <1> DEFINE c == Beyond(t, k, Alnum)
             e == FirstIn(t, c + 1, Blank \union {")"})
             r == ReadElement(t, k)
  <1>1. /\ c \in k..Len(t) + 1
        /\ \A i \in k..c - 1 : t[i] \in Alnum
    BY BeyondIs
  <1>2. CASE ~(Within(t, c) /\ c <= k + 1 /\ t[c] = ":")
    <2>1. r = [ok |-> FALSE, next |-> k]
      BY <1>2 DEF ReadElement
    <2> HIDE DEF r
    <2>. QED  BY <2>1 DEF r
  <1>3. CASE Within(t, c) /\ c <= k + 1 /\ t[c] = ":"
    <2> DEFINE key == IF c = k THEN NoKey ELSE t[k]
               value == SubSeq(t, c + 1, e - 1)
    <2>1. r = [ok |-> TRUE, next |-> e, element |-> [key |-> key, value |-> value]]
      BY <1>3 DEF ReadElement
    <2> HIDE DEF c
    <2>2. c \in 1..Len(t) /\ c + 1 \in 1..Len(t) + 1 /\ Len(t) \in Nat
      BY <1>3, TextLength DEF Within
    <2>3. /\ e \in c + 1..Len(t) + 1
          /\ \A i \in c + 1..e - 1 : t[i] \notin Blank \union {")"}
      BY <2>2, FirstInIs
    <2> HIDE DEF e
    <2>4. key \in Key
      <3>1. c # k => k \in k..c - 1
        BY <1>1, <2>2
      <3>. QED  BY <1>1, <3>1 DEF Key
    <2>5. /\ value \in Text
          /\ Len(value) = e - (c + 1)
          /\ \A i \in 1..e - (c + 1) : value[i] = t[(c + 1) + i - 1]
      BY <2>2, <2>3, Excerpt
    <2>6. \A i \in DOMAIN value : value[i] \notin Blank \union {")"}
      <3>1. DOMAIN value = 1..e - (c + 1)
        BY <2>5 DEF Text
      <3>2. \A i \in 1..e - (c + 1) : (c + 1) + i - 1 \in c + 1..e - 1
        BY <2>2, <2>3
      <3>. QED  BY <2>3, <2>5, <3>1, <3>2
    <2> HIDE DEF value, key, r
    <2>7. [key |-> key, value |-> value] \in SafeElement
      BY <2>4, <2>5, <2>6 DEF SafeElement, Element
    <2>8. e \in k + 1..Len(t) + 1
      BY <1>1, <2>2, <2>3
    <2>. QED  BY <2>1, <2>7, <2>8 DEF r
  <1>. QED  BY <1>2, <1>3

\* What one step of the reader makes of a text when the steps behind are known.
Body(t) == [elements : Seq(SafeElement), next : 1..Len(t) + 1]

LEMMA ElementsTyped ==
    ASSUME NEW t \in Text, NEW q \in 1..Len(t) + 1, NEW From,
           \A y \in 1..Len(t) + 1 : q < y => From[y] \in Body(t)
    PROVE  Elements(t, From, q) \in Body(t)
  <1> DEFINE k == CutWhitespaces(t, q)
             r == ReadElement(t, k)
             rest == From[r.next]
             x == Elements(t, From, q)
  <1>1. k \in q..Len(t) + 1
    BY BeyondIs DEF CutWhitespaces
  <1>2. Len(t) \in Nat
    BY TextLength
  <1>3. k \in 1..Len(t) + 1 /\ q <= k
    BY <1>1, <1>2
  <1>4. \/ r.ok /\ r.next \in k + 1..Len(t) + 1 /\ r.element \in SafeElement
        \/ ~r.ok /\ r.next = k
    BY <1>3, ReadElementIs
  <1>5. CASE ~r.ok
    <2>1. x = [elements |-> <<>>, next |-> CutWhitespaces(t, r.next)]
      BY <1>5 DEF Elements
    <2>2. CutWhitespaces(t, k) \in k..Len(t) + 1
      BY <1>3, BeyondIs DEF CutWhitespaces
    <2>3. CutWhitespaces(t, r.next) \in 1..Len(t) + 1
      BY <1>3, <1>4, <1>5, <2>2
    <2> HIDE DEF x, r
    <2>. QED  BY <2>1, <2>3 DEF Body, x
  <1>6. CASE r.ok
    <2>1. r.next \in 1..Len(t) + 1 /\ q < r.next /\ r.element \in SafeElement
      BY <1>2, <1>3, <1>4, <1>6
    <2>2. rest \in Body(t)
      BY <2>1
    <2> DEFINE one == <<r.element>>
               all == one \o rest.elements
    <2>3. \/ x = [elements |-> one, next |-> r.next]
          \/ x = [elements |-> all, next |-> rest.next]
      BY <1>6 DEF Elements
    <2> HIDE DEF r, rest, x
    <2>4. one \in Seq(SafeElement) /\ rest.elements \in Seq(SafeElement)
      BY <2>1, <2>2 DEF Body
    <2> HIDE DEF one
    <2>5. all \in Seq(SafeElement)
      BY <2>4, ConcatProperties
    <2>6. rest.next \in 1..Len(t) + 1
      BY <2>2 DEF Body
    <2> HIDE DEF all
    <2>7. x \in Body(t)
      BY <2>1, <2>3, <2>4, <2>5, <2>6 DEF Body
    <2>. QED  BY <2>7 DEF x
  <1>. QED  BY <1>5, <1>6

LEMMA ElementsFrom ==
    ASSUME NEW t \in Text
    PROVE  \E From \in [1..Len(t) + 1 -> Body(t)] :
               /\ \A q \in 1..Len(t) + 1 : /\ From[q] = Elements(t, From, q)
                                           /\ ReadElements(t, q) = From[q]
  <1> DEFINE N == Len(t) + 1
             V == Body(t)
             F == [g \in [1..N -> V] |-> [q \in 1..N |-> Elements(t, g, q)]]
             fl == CHOOSE f : f = [q \in 1..N |-> Elements(t, f, q)]
  <1>1. N \in Nat /\ 1 \in 1..N
    BY TextLength
  <1>2. V # {}
    <2>1. [elements |-> <<>>, next |-> 1] \in V
      BY <1>1 DEF Body
    <2>. QED  BY <2>1
  <1>3. F \in [[1..N -> V] -> [1..N -> V]]
    <2>1. ASSUME NEW g \in [1..N -> V] PROVE [q \in 1..N |-> Elements(t, g, q)] \in [1..N -> V]
      BY <2>1, ElementsTyped
    <2>. QED  BY <2>1
  <1>4. ASSUME NEW g \in [1..N -> V], NEW h \in [1..N -> V], NEW q \in 1..N,
               \A y \in 1..N : q < y => g[y] = h[y]
        PROVE  F[g][q] = F[h][q]
    <2> DEFINE k == CutWhitespaces(t, q)
               r == ReadElement(t, k)
    <2>1. k \in 1..N /\ q <= k
      BY TextLength, BeyondIs DEF CutWhitespaces
    <2>2. r.ok => r.next \in 1..N /\ q < r.next
      BY <1>1, <2>1, ReadElementIs
    <2>3. r.ok => g[r.next] = h[r.next]
      BY <1>4, <2>2
    <2>4. Elements(t, g, q) = Elements(t, h, q)
      BY <2>3, Zenon DEF Elements
    <2>. QED  BY <2>4
  <1> HIDE DEF V, N
  <1>5. PICK f \in [1..N -> V] : IsFixedPoint(f, F)
    <2> HIDE DEF F
    <2>. QED  BY <1>1, <1>2, <1>3, <1>4, DownwardRecursion
  <1>6. f = [q \in 1..N |-> Elements(t, f, q)]
    BY <1>5 DEF IsFixedPoint
  <1>7. fl = [q \in 1..N |-> Elements(t, fl, q)]
    BY <1>6, Zenon
  <1>8. \A q \in 1..N : ReadElements(t, q) = fl[q]
    BY Zenon DEF ReadElements, N
  <1> HIDE DEF fl
  <1>9. \A q \in 1..N : fl[q] \in V
    <2> DEFINE T == {q \in 1..N : fl[q] \in V}
    <2>1. ASSUME NEW q \in 1..N, \A y \in 1..N : q < y => y \in T PROVE q \in T
      BY <1>7, <2>1, ElementsTyped DEF N, V
    <2> HIDE DEF T
    <2>2. 1..N \subseteq T
      BY <1>1, <2>1, DownwardInduction
    <2>. QED  BY <2>2 DEF T
  <1>10. fl \in [1..N -> V]
    BY <1>7, <1>9
  <1>. QED  BY <1>7, <1>8, <1>10 DEF V, N

\* What the reader of an address returns: elements that were cut out of the text.
AddressReading(t) ==
    [elements : Seq(SafeElement), ok : BOOLEAN, past : BOOLEAN, next : 1..Len(t) + 1]

LEMMA ReadAddressTyped ==
    ASSUME NEW t \in Text, NEW p \in 1..Len(t) + 1
    PROVE  ReadAddress(t, p) \in AddressReading(t)
  <1> DEFINE open == CutWhitespaces(t, p)
             body == ReadElements(t, open + 1)
             x == ReadAddress(t, p)
  <1>1. open \in 1..Len(t) + 1 /\ Len(t) \in Nat
    BY BeyondIs, TextLength DEF CutWhitespaces
  <1>2. CASE ~Within(t, open) \/ t[open] # "("
    <2>1. x = [elements |-> <<>>, ok |-> FALSE, past |-> ~Within(t, open), next |-> open]
      BY <1>2 DEF ReadAddress
    <2>2. (~Within(t, open)) \in BOOLEAN
      BY DEF Within
    <2> HIDE DEF x, open
    <2>. QED  BY <1>1, <2>1, <2>2 DEF AddressReading, x
  <1>3. CASE Within(t, open) /\ t[open] = "("
    <2>1. x = CloseAddress(t, body)
      BY <1>3 DEF ReadAddress
    <2>2. open + 1 \in 1..Len(t) + 1
      BY <1>1, <1>3 DEF Within
    <2>3. body \in Body(t)
      <3>1. PICK From \in [1..Len(t) + 1 -> Body(t)] :
                \A q \in 1..Len(t) + 1 : ReadElements(t, q) = From[q]
        BY ElementsFrom
      <3>. QED  BY <2>2, <3>1
    <2> HIDE DEF x, body
    <2>4. body.elements \in Seq(SafeElement) /\ body.next \in 1..Len(t) + 1
      BY <2>3 DEF Body
    <2>5. Sorted(body.elements) \in Seq(SafeElement)
      BY <2>4, SortedIsInOrder DEF SafeElement
    <2>6. CASE ~Within(t, body.next) \/ t[body.next] # ")"
      <3>1. x = [elements |-> body.elements, ok |-> FALSE,
                 past |-> ~Within(t, body.next), next |-> body.next]
        BY <2>1, <2>6 DEF CloseAddress
      <3>2. (~Within(t, body.next)) \in BOOLEAN
        BY DEF Within
      <3>3. x \in AddressReading(t)
        BY <2>4, <3>1, <3>2 DEF AddressReading
      <3>. QED  BY <3>3 DEF x
    <2>7. CASE ~(~Within(t, body.next) \/ t[body.next] # ")")
      <3>1. x = [elements |-> Sorted(body.elements), ok |-> TRUE, past |-> FALSE,
                 next |-> body.next + 1]
        BY <2>1, <2>7 DEF CloseAddress
      <3>2. body.next + 1 \in 1..Len(t) + 1
        BY <2>4, <2>7 DEF Within
      <3>3. x \in AddressReading(t)
        BY <2>5, <3>1, <3>2 DEF AddressReading
      <3>. QED  BY <3>3 DEF x
    <2>. QED  BY <2>6, <2>7
  <1>. QED  BY <1>2, <1>3

(***************************************************************************)
(* What was written is read.                                               *)
(***************************************************************************)
LEMMA OneToken == \A x \in Token : <<x>> \in Text /\ Len(<<x>>) = 1
  BY DEF Token, Text

LEMMA SomeTokens ==
    /\ {":", " ", "(", ")", "\n", "<", ">", Quote, Version} \subseteq Token
    /\ Alnum \subseteq Token /\ Word \subseteq Token
    /\ Mark \cap Alnum = {} /\ Mark \cap Word = {}
  BY TextAssumption DEF Token, Mark, Blank

LEMMA Joined ==
    ASSUME NEW u \in Text, NEW v \in Text
    PROVE  u \o v \in Text /\ Len(u \o v) = Len(u) + Len(v)
  BY ConcatProperties DEF Text

LEMMA ElementText ==
    ASSUME NEW e \in Element
    PROVE  ElementAsString(e) \in Text
  <1> DEFINE K == IF e.key = NoKey THEN <<>> ELSE <<e.key>>
  <1>1. K \in Text
    <2>1. e.key \in Alnum \union {NoKey}
      BY DEF Element, Key
    <2>2. <<>> \in Text
      BY DEF Text
    <2>. QED  BY <2>1, <2>2, OneToken, SomeTokens
  <1>2. e.value \in Text /\ <<":">> \in Text /\ <<" ">> \in Text
    BY OneToken, SomeTokens DEF Element
  <1> HIDE DEF K
  <1>3. ((K \o <<":">>) \o e.value) \o <<" ">> \in Text
    BY <1>1, <1>2, Joined
  <1>. QED  BY <1>3 DEF ElementAsString, K

LEMMA ElementRead ==
    ASSUME NEW t \in Text, NEW k \in Nat, NEW e \in SafeElement,
           Holds(t, k, ElementAsString(e))
    PROVE  /\ k \in 1..Len(t) /\ t[k] \notin Blank
           /\ LET z == k + Len(ElementAsString(e)) - 1
              IN  /\ ReadElement(t, k) = [ok |-> TRUE, next |-> z, element |-> e]
                  /\ z \in k + 1..Len(t) /\ t[z] = " "
  <1> DEFINE K == IF e.key = NoKey THEN <<>> ELSE <<e.key>>
             v == e.value
             c == k + Len(K)
             z == c + 1 + Len(v)
  <1>1. /\ e \in Element /\ e.key \in Alnum \union {NoKey} /\ v \in Text
        /\ \A i \in DOMAIN v : v[i] \notin Blank \union {")"}
    BY DEF SafeElement, Element, Key
  <1>2. K \in Text /\ <<":">> \in Text /\ <<" ">> \in Text /\ <<>> \in Text
    <2>1. <<>> \in Text
      BY DEF Text
    <2>. QED  BY <1>1, <2>1, OneToken, SomeTokens
  <1>3. Len(K) = IF e.key = NoKey THEN 0 ELSE 1
    OBVIOUS
  <1>4. Holds(t, k, ((K \o <<":">>) \o v) \o <<" ">>)
    BY DEF ElementAsString
  <1> HIDE DEF K, v
  <1>5. /\ K \o <<":">> \in Text /\ (K \o <<":">>) \o v \in Text
        /\ Len(K \o <<":">>) = Len(K) + 1
        /\ Len((K \o <<":">>) \o v) = (Len(K) + 1) + Len(v)
        /\ Len(((K \o <<":">>) \o v) \o <<" ">>) = ((Len(K) + 1) + Len(v)) + 1
        /\ Len(K) \in Nat /\ Len(v) \in Nat /\ Len(t) \in Nat
    <2>1. Len(<<":">>) = 1 /\ Len(<<" ">>) = 1
      OBVIOUS
    <2>2. K \o <<":">> \in Text /\ Len(K \o <<":">>) = Len(K) + 1
      BY <1>2, <2>1, Joined
    <2> DEFINE u == K \o <<":">>
    <2> HIDE DEF u
    <2>3. u \o v \in Text /\ Len(u \o v) = Len(u) + Len(v)
      BY <1>1, <2>2, Joined DEF u
    <2> DEFINE w == u \o v
    <2> HIDE DEF w
    <2>4. Len(w \o <<" ">>) = Len(w) + 1
      BY <1>2, <2>1, <2>3, Joined DEF w
    <2>. QED  BY <1>1, <1>2, <2>2, <2>3, <2>4, TextLength DEF u, w
  <1>6. /\ Holds(t, k, (K \o <<":">>) \o v)
        /\ Holds(t, k + Len((K \o <<":">>) \o v), <<" ">>)
    BY <1>1, <1>2, <1>4, <1>5, HoldsConcat
  <1>7. /\ Holds(t, k, K \o <<":">>)
        /\ Holds(t, k + Len(K \o <<":">>), v)
    BY <1>1, <1>2, <1>5, <1>6, HoldsConcat
  <1>8. Holds(t, k, K) /\ Holds(t, c, <<":">>)
    BY <1>1, <1>2, <1>7, HoldsConcat
  <1>9. z \in 1..Len(t) /\ t[z] = " "
    <2>1. k + Len((K \o <<":">>) \o v) = z /\ z \in Nat
      BY <1>5
    <2>2. Holds(t, z, <<" ">>)
      BY <1>6, <2>1
    <2>. QED  BY <2>1, <2>2, HoldsOne
  <1>10. c \in 1..Len(t) /\ t[c] = ":" /\ k \in 1..Len(t)
    <2>1. c \in Nat
      BY <1>5
    <2>2. c \in 1..Len(t) /\ t[c] = ":"
      BY <1>8, <2>1, HoldsOne
    <2>3. k # 0
      BY <1>8 DEF Holds
    <2>. QED  BY <1>5, <2>2, <2>3
  <1> DEFINE Sizes == /\ z \in k + 1..Len(t)
                      /\ c + 1 \in 1..Len(t) + 1
                      /\ z \in c + 1..Len(t) + 1
                      /\ z - (c + 1) = Len(v)
                      /\ \A i \in c + 1..z - 1 :
                             i - c \in 1..Len(v) /\ (c + 1) + (i - c) - 1 = i
  <1>100. Sizes
    <2>1. c \in Nat /\ k <= c /\ k \in Nat /\ z = (c + 1) + Len(v) /\ Len(v) \in Nat
      BY <1>5
    <2>2. c \in 1..Len(t) /\ z \in 1..Len(t) /\ Len(t) \in Nat
      BY <1>5, <1>9, <1>10
    <2> HIDE DEF c, z
    <2>. QED  BY <2>1, <2>2
  <1> HIDE DEF Sizes
  <1>11. \A i \in 1..Len(v) : t[(c + 1) + i - 1] = v[i]
    <2>1. k + Len(K \o <<":">>) = c + 1
      BY <1>5
    <2>2. Holds(t, c + 1, v)
      BY <1>7, <2>1
    <2>. QED  BY <2>2 DEF Holds
  <1>12. t[c] \notin Alnum /\ t[c] \notin Blank /\ t[z] \in Blank
    BY <1>9, <1>10, SomeTokens DEF Mark, Blank
  <1>13. e.key # NoKey => c = k + 1 /\ t[k] = e.key /\ t[k] \in Alnum
    <2>1. ASSUME e.key # NoKey PROVE Holds(t, k, <<e.key>>)
      BY <1>8, <2>1 DEF K
    <2>. QED  BY <1>1, <1>3, <2>1, HoldsOne
  <1>14. e.key = NoKey => c = k
    BY <1>3
  <1>15. t[k] \notin Blank
    <2>1. CASE e.key = NoKey
      BY <1>12, <1>14, <2>1
    <2>2. CASE e.key # NoKey
      BY <1>13, <2>2, SomeTokens DEF Mark, Blank
    <2>. QED  BY <2>1, <2>2
  <1>16. Beyond(t, k, Alnum) = c
    <2>1. CASE e.key = NoKey
      BY <1>10, <1>12, <1>14, <2>1, BeyondNothing
    <2>2. CASE e.key # NoKey
      <3>1. c = k + 1 /\ t[k] \in Alnum
        BY <1>13, <2>2
      <3>. QED  BY <1>10, <1>12, <3>1, BeyondOne
    <2>. QED  BY <2>1, <2>2
  <1>17. FirstIn(t, c + 1, Blank \union {")"}) = z
    <2>1. /\ c + 1 \in 1..Len(t) + 1 /\ z \in c + 1..Len(t) + 1
          /\ t[z] \in Blank \union {")"}
      BY <1>100, <1>12 DEF Sizes
    <2>2. ASSUME NEW i \in c + 1..z - 1 PROVE t[i] \notin Blank \union {")"}
      <3>1. i - c \in 1..Len(v) /\ (c + 1) + (i - c) - 1 = i
        BY <1>100 DEF Sizes
      <3>2. t[i] = v[i - c]
        BY <1>11, <3>1
      <3>3. i - c \in DOMAIN v
        BY <1>1, <3>1 DEF Text
      <3>. QED  BY <1>1, <3>2, <3>3
    <2> HIDE DEF c, z
    <2>. QED  BY <2>1, <2>2, FirstInUnique
  <1>18. SubSeq(t, c + 1, z - 1) = v
    <2>1. c + 1 \in 1..Len(t) + 1 /\ z \in c + 1..Len(t) + 1 /\ z - (c + 1) = Len(v)
      BY <1>100 DEF Sizes
    <2> HIDE DEF c, z
    <2>2. /\ SubSeq(t, c + 1, z - 1) \in Text
          /\ Len(SubSeq(t, c + 1, z - 1)) = Len(v)
          /\ \A n \in 1..Len(v) : SubSeq(t, c + 1, z - 1)[n] = t[(c + 1) + n - 1]
      BY <2>1, Excerpt
    <2>. QED  BY <1>1, <1>11, <2>2, SeqEqual DEF Text
  <1>19. ReadElement(t, k) = [ok |-> TRUE, next |-> z, element |-> e]
    <2>1. e = [key |-> e.key, value |-> v]
      BY <1>1 DEF Element, v
    <2>2. (IF c = k THEN NoKey ELSE t[k]) = e.key
      BY <1>13, <1>14, <1>10
    <2>3. Within(t, c) /\ c <= k + 1
      BY <1>10, <1>13, <1>14 DEF Within
    <2> HIDE DEF c, z
    <2>. QED  BY <1>10, <1>16, <1>17, <1>18, <2>1, <2>2, <2>3 DEF ReadElement
  <1>20. z = k + Len(ElementAsString(e)) - 1
    <2>1. Len(ElementAsString(e)) = ((Len(K) + 1) + Len(v)) + 1
      BY <1>5 DEF ElementAsString, K, v
    <2>. QED  BY <1>5, <2>1
  <1>21. z \in k + 1..Len(t)
    BY <1>100 DEF Sizes
  <1> HIDE DEF z
  <1>. QED  BY <1>9, <1>10, <1>15, <1>19, <1>20, <1>21

\* The bracket behind the elements is no element.
LEMMA CloserRead ==
    ASSUME NEW t \in Text, NEW z \in 1..Len(t), t[z] = ")"
    PROVE  ReadElement(t, z) = [ok |-> FALSE, next |-> z] /\ CutWhitespaces(t, z) = z
  <1>1. t[z] \notin Alnum /\ t[z] \notin Blank /\ t[z] # ":"
    BY SomeTokens DEF Mark, Blank
  <1>2. Beyond(t, z, Alnum) = z /\ CutWhitespaces(t, z) = z
    BY <1>1, BeyondNothing DEF CutWhitespaces
  <1>. QED  BY <1>1, <1>2 DEF ReadElement

\* The texts of the elements.
ElementTexts(a) == [i \in DOMAIN a |-> ElementAsString(a[i])]

LEMMA ElementsRead ==
    ASSUME NEW t \in Text, NEW a \in Seq(SafeElement), NEW p \in Nat,
           Holds(t, p, FlattenSeq(ElementTexts(a))),
           NEW z, z = p + Len(FlattenSeq(ElementTexts(a))), z \in 1..Len(t), t[z] = ")",
           NEW q0 \in 1..Len(t) + 1, CutWhitespaces(t, q0) = p
    PROVE  ReadElements(t, q0) = [elements |-> a, next |-> z]
  <1> DEFINE D == 1..Len(t) + 1
             n == Len(a)
             ss == ElementTexts(a)
  <1>1. n \in Nat /\ DOMAIN a = 1..n /\ \A i \in 1..n : a[i] \in SafeElement
    OBVIOUS
  <1>2. ss \in Seq(Text) /\ Len(ss) = n /\ \A i \in 1..n : ss[i] = ElementAsString(a[i])
    <2>1. \A i \in 1..n : ElementAsString(a[i]) \in Text
      BY <1>1, ElementText DEF SafeElement
    <2>2. ss \in [1..n -> Text]
      BY <1>1, <2>1 DEF ElementTexts
    <2> HIDE DEF n
    <2>3. ss \in Seq(Text)
      BY <1>1, <2>2, SeqDef
    <2>. QED  BY <1>1, <2>2, <2>3 DEF ElementTexts
  <1> HIDE DEF n
  <1>3. PICK pos \in [1..n + 1 -> Nat] : /\ Places(t, ss, p, pos)
                                         /\ pos[n + 1] = z
    BY <1>2, FlattenHolds
  <1>4. PICK From \in [D -> Body(t)] :
            \A q \in D : From[q] = Elements(t, From, q) /\ ReadElements(t, q) = From[q]
    BY ElementsFrom
  <1>5. ASSUME NEW i \in 1..n
        PROVE  /\ i + 1 \in 1..n + 1 /\ i \in 1..n + 1
               /\ pos[i] \in 1..Len(t) /\ t[pos[i]] \notin Blank
               /\ pos[i + 1] - 1 \in pos[i] + 1..Len(t)
               /\ pos[i + 1] \in Nat
               /\ t[pos[i + 1] - 1] = " "
               /\ ReadElement(t, pos[i]) =
                    [ok |-> TRUE, next |-> pos[i + 1] - 1, element |-> a[i]]
    <2>1. i + 1 \in 1..n + 1 /\ i \in 1..n + 1
      BY <1>1
    <2>2. /\ pos[i] \in Nat /\ pos[i + 1] \in Nat
          /\ Holds(t, pos[i], ElementAsString(a[i]))
          /\ pos[i + 1] = pos[i] + Len(ElementAsString(a[i]))
          /\ a[i] \in SafeElement
      BY <1>1, <1>2, <1>3, <2>1 DEF Places
    <2> DEFINE y == pos[i] + Len(ElementAsString(a[i])) - 1
    <2>3. /\ pos[i] \in 1..Len(t) /\ t[pos[i]] \notin Blank
          /\ ReadElement(t, pos[i]) = [ok |-> TRUE, next |-> y, element |-> a[i]]
          /\ y \in pos[i] + 1..Len(t) /\ t[y] = " "
      BY <2>2, ElementRead
    <2>4. y = pos[i + 1] - 1
      <3>1. pos[i + 1] = pos[i] + Len(ElementAsString(a[i]))
        BY <2>2
      <3>2. Len(ElementAsString(a[i])) \in Nat /\ pos[i] \in Nat
        BY <2>2, ElementText, TextLength DEF SafeElement
      <3>. QED  BY <3>1, <3>2
    <2> HIDE DEF y
    <2>. QED  BY <2>1, <2>2, <2>3, <2>4
  <1>6. \A i \in 1..n + 1 : pos[i] \in 1..Len(t) /\ t[pos[i]] \notin Blank
    <2>1. t[pos[n + 1]] \notin Blank /\ pos[n + 1] \in 1..Len(t)
      BY <1>3 DEF Blank
    <2>2. \A i \in 1..n + 1 : i \in 1..n \/ i = n + 1
      BY <1>1
    <2>. QED  BY <1>5, <2>1, <2>2
  <1> DEFINE Claim(i, q) == From[q] = [elements |-> SubSeq(a, i, n), next |-> z]
             T == {i \in 1..n + 1 : \A q \in D : CutWhitespaces(t, q) = pos[i] => Claim(i, q)}
  <1>7. ASSUME NEW i \in 1..n + 1, \A j \in 1..n + 1 : i < j => j \in T
        PROVE  i \in T
    <2> SUFFICES ASSUME NEW q \in D, CutWhitespaces(t, q) = pos[i] PROVE Claim(i, q)
      OBVIOUS
    <2>1. From[q] = Elements(t, From, q)
      BY <1>4
    <2>2. CASE i = n + 1
      <3>1. CutWhitespaces(t, q) = z
        BY <1>3, <2>2
      <3>2. From[q] = [elements |-> <<>>, next |-> z]
        <4>1. ReadElement(t, z) = [ok |-> FALSE, next |-> z] /\ CutWhitespaces(t, z) = z
          BY CloserRead
        <4>2. Elements(t, From, q) = [elements |-> <<>>, next |-> CutWhitespaces(t, z)]
          <5> DEFINE r == ReadElement(t, CutWhitespaces(t, q))
          <5>1. ~r.ok /\ r.next = z
            BY <3>1, <4>1
          <5> HIDE DEF r
          <5>2. Elements(t, From, q) = [elements |-> <<>>, next |-> CutWhitespaces(t, r.next)]
            BY <5>1 DEF Elements, r
          <5>. QED  BY <5>1, <5>2
        <4>. QED  BY <2>1, <4>1, <4>2
      <3>3. SubSeq(a, i, n) = <<>>
        BY <1>1, <2>2, SubSeqEmpty
      <3>. QED  BY <3>2, <3>3
    <2>3. CASE i # n + 1
      <3>1. i \in 1..n /\ i < i + 1
        BY <1>1, <2>3
      <3> DEFINE y == pos[i + 1] - 1
                 r == [ok |-> TRUE, next |-> y, element |-> a[i]]
      <3>2. /\ y \in 1..Len(t) /\ y \in D /\ t[y] = " " /\ y + 1 = pos[i + 1]
            /\ ReadElement(t, CutWhitespaces(t, q)) = r
        <4>1. /\ pos[i + 1] \in Nat /\ y \in pos[i] + 1..Len(t) /\ pos[i] \in 1..Len(t)
              /\ t[y] = " " /\ ReadElement(t, pos[i]) = r
          BY <1>5, <3>1
        <4>2. y + 1 = pos[i + 1]
          <5>1. \A x \in Nat : (x - 1) + 1 = x
            OBVIOUS
          <5>. QED  BY <4>1, <5>1
        <4> HIDE DEF y
        <4>3. y \in 1..Len(t) /\ y \in D
          <5>1. \A u \in 1..Len(t) : \A x \in u + 1..Len(t) : x \in 1..Len(t) /\ x \in D
            BY TextLength
          <5>. QED  BY <4>1, <5>1
        <4>. QED  BY <4>1, <4>2, <4>3
      <3>3. CutWhitespaces(t, y) = pos[i + 1]
        <4>1. i + 1 \in 1..n + 1
          BY <1>5, <3>1
        <4>2. y + 1 \in 1..Len(t) /\ t[y + 1] \notin Blank
          BY <1>6, <3>2, <4>1
        <4>3. t[y] \in Blank
          BY <3>2 DEF Blank
        <4> HIDE DEF y
        <4>. QED  BY <3>2, <4>2, <4>3, BeyondOne DEF CutWhitespaces
      <3>4. Claim(i + 1, y)
        BY <1>5, <1>7, <3>1, <3>2, <3>3
      <3> HIDE DEF y
      <3> DEFINE rest == SubSeq(a, i + 1, n)
      <3>5. From[y] = [elements |-> rest, next |-> z]
        BY <3>4
      <3> HIDE DEF rest
      <3>6. r.ok /\ r.next = y /\ r.element = a[i] /\ t[y] # ")" /\ Within(t, y)
        BY <3>2 DEF Within
      <3>61. Elements(t, From, q) =
                [elements |-> <<a[i]>> \o From[y].elements, next |-> From[y].next]
        <4> HIDE DEF r
        <4>. QED  BY <3>2, <3>6 DEF Elements
      <3>7. From[q] = [elements |-> <<a[i]>> \o rest, next |-> z]
        BY <2>1, <3>5, <3>61
      <3>8. SubSeq(a, i, n) = <<a[i]>> \o rest
        BY <1>1, <3>1, SubSeqRecursiveFirst DEF rest, n
      <3>. QED  BY <3>7, <3>8
    <2>. QED  BY <2>2, <2>3
  <1> HIDE DEF T
  <1>8. 1..n + 1 \subseteq T
    <2> DEFINE m == n + 1
    <2>1. m \in Nat
      BY <1>1
    <2>2. \A i \in 1..m : (\A j \in 1..m : i < j => j \in T) => i \in T
      BY <1>7
    <2> HIDE DEF m
    <2>3. 1..m \subseteq T
      BY <2>1, <2>2, DownwardInduction
    <2>. QED  BY <2>3 DEF m
  <1>9. 1 \in T
    BY <1>1, <1>8
  <1>10. pos[1] = p
    BY <1>3 DEF Places
  <1>11. Claim(1, q0)
    BY <1>9, <1>10 DEF T
  <1>12. SubSeq(a, 1, n) = a
    BY SubSeqFull DEF n
  <1>. QED  BY <1>4, <1>11, <1>12

LEMMA ElementsText ==
    ASSUME NEW a \in Address
    PROVE  FlattenSeq([i \in DOMAIN a |-> ElementAsString(a[i])]) \in Text
  <1> DEFINE ss == [i \in DOMAIN a |-> ElementAsString(a[i])]
  <1>1. DOMAIN a = 1..Len(a) /\ Len(a) \in Nat /\ \A i \in DOMAIN a : a[i] \in Element
    BY DEF Address
  <1>2. ss \in [1..Len(a) -> Text]
    BY <1>1, ElementText
  <1> HIDE DEF ss
  <1>3. ss \in Seq(Seq(Token))
    BY <1>1, <1>2, SeqDef DEF Text, Token
  <1>4. FlattenSeq(ss) \in Seq(Token)
    BY <1>3, FlattenTyped
  <1>. QED  BY <1>4 DEF ss, Text, Token

LEMMA WrittenAddress ==
    ASSUME NEW a \in Address
    PROVE  AddressAsString(a) \in Text /\ Len(AddressAsString(a)) >= 2
  <1> DEFINE w == FlattenSeq([i \in DOMAIN a |-> ElementAsString(a[i])])
  <1>1. w \in Text /\ <<"(">> \in Text /\ <<")">> \in Text
        /\ Len(<<"(">>) = 1 /\ Len(<<")">>) = 1
    BY ElementsText, OneToken, SomeTokens
  <1> HIDE DEF w
  <1>2. <<"(">> \o w \in Text /\ Len(<<"(">> \o w) = 1 + Len(w)
    BY <1>1, Joined
  <1>3. (<<"(">> \o w) \o <<")">> \in Text
        /\ Len((<<"(">> \o w) \o <<")">>) = (1 + Len(w)) + 1
    BY <1>1, <1>2, Joined
  <1>4. Len(w) \in Nat
    BY <1>1, TextLength
  <1>. QED  BY <1>3, <1>4 DEF AddressAsString, w

\* An address whose values do not end early is read as it was written, but in
\* order (mbus_address_to_string and mbus_address_read).
THEOREM AddressRoundTrip ==
    ASSUME NEW t \in Text, NEW a \in Seq(SafeElement), NEW p \in Nat,
           Holds(t, p, AddressAsString(a)),
           NEW q \in 1..Len(t) + 1, CutWhitespaces(t, q) = p
    PROVE  ReadAddress(t, q) = [elements |-> Sorted(a), ok |-> TRUE, past |-> FALSE,
                                next |-> p + Len(AddressAsString(a))]
  <1> DEFINE ss == [i \in DOMAIN a |-> ElementAsString(a[i])]
             w == FlattenSeq(ss)
             z == (p + 1) + Len(w)
  <1>1. a \in Address
    BY SeqMonotonic DEF SafeElement, Address
  <1>2. w \in Text /\ <<"(">> \in Text /\ <<")">> \in Text
        /\ Len(<<"(">>) = 1 /\ Len(<<")">>) = 1
    BY <1>1, ElementsText, OneToken, SomeTokens
  <1>3. Holds(t, p, (<<"(">> \o w) \o <<")">>)
    BY DEF AddressAsString
  <1> HIDE DEF w
  <1>4. /\ <<"(">> \o w \in Text /\ Len(<<"(">> \o w) = 1 + Len(w)
        /\ Len((<<"(">> \o w) \o <<")">>) = (1 + Len(w)) + 1
        /\ Len(w) \in Nat
    <2>1. <<"(">> \o w \in Text /\ Len(<<"(">> \o w) = 1 + Len(w)
      BY <1>2, Joined
    <2>2. Len((<<"(">> \o w) \o <<")">>) = (1 + Len(w)) + 1
      BY <1>2, <2>1, Joined
    <2>. QED  BY <1>2, <2>1, <2>2, TextLength
  <1>5. Holds(t, p, <<"(">> \o w) /\ Holds(t, p + Len(<<"(">> \o w), <<")">>)
    BY <1>2, <1>3, <1>4, HoldsConcat
  <1>6. Holds(t, p, <<"(">>) /\ Holds(t, p + 1, w)
    BY <1>2, <1>5, HoldsConcat
  <1>7. p + Len(<<"(">> \o w) = z /\ z \in Nat /\ p + 1 \in Nat
    BY <1>4
  <1>8. z \in 1..Len(t) /\ t[z] = ")" /\ p \in 1..Len(t) /\ t[p] = "("
    BY <1>5, <1>6, <1>7, HoldsOne
  <1>9. p + 1 \in 1..Len(t) /\ t[p + 1] \notin Blank
    <2>1. Len(t) \in Nat
      BY TextLength
    <2>2. p + 1 \in 1..Len(t)
      BY <1>4, <1>8, <2>1
    <2>3. CASE Len(a) = 0
      <3>1. a = <<>>
        BY <2>3, EmptySeq
      <3>2. ss = <<>> /\ Len(w) = 0
        <4>1. ss = <<>>
          BY <3>1
        <4>2. FlattenSeq(<<>>) = <<>>
          BY DEF FlattenSeq
        <4>. QED  BY <4>1, <4>2 DEF w
      <3>3. p + 1 = z
        BY <3>2
      <3>. QED  BY <1>8, <2>2, <3>3 DEF Blank
    <2>4. CASE Len(a) # 0
      <3>1. Len(a) \in Nat /\ DOMAIN a = 1..Len(a) /\ 1 \in 1..Len(a) /\ a[1] \in SafeElement
        BY <2>4
      <3>2. ss \in Seq(Text) /\ Len(ss) = Len(a)
        <4>1. \A i \in 1..Len(a) : ElementAsString(a[i]) \in Text
          BY <3>1, ElementText DEF SafeElement
        <4>2. ss \in [1..Len(a) -> Text] /\ DOMAIN ss = 1..Len(a)
          BY <3>1, <4>1
        <4> HIDE DEF ss
        <4>3. ss \in Seq(Text)
          BY <3>1, <4>2, SeqDef
        <4>. QED  BY <3>1, <4>2, <4>3
      <3>3. ss[1] = ElementAsString(a[1])
        BY <3>1
      <3> HIDE DEF ss
      <3>4. PICK pos \in [1..Len(ss) + 1 -> Nat] : Places(t, ss, p + 1, pos)
        BY <1>6, <1>7, <3>2, FlattenHolds DEF w
      <3>5. Holds(t, p + 1, ElementAsString(a[1]))
        BY <3>1, <3>2, <3>3, <3>4 DEF Places
      <3>. QED  BY <1>7, <2>2, <3>1, <3>5, ElementRead
    <2>. QED  BY <2>3, <2>4
  <1>10. ReadElements(t, p + 1) = [elements |-> a, next |-> z]
    <2>1. CutWhitespaces(t, p + 1) = p + 1 /\ p + 1 \in 1..Len(t) + 1
      BY <1>9, BeyondNothing, TextLength DEF CutWhitespaces
    <2>2. ss = ElementTexts(a)
      BY DEF ElementTexts
    <2> HIDE DEF ss
    <2> DEFINE b == p + 1
    <2>3. /\ b \in Nat /\ Holds(t, b, FlattenSeq(ss)) /\ z = b + Len(FlattenSeq(ss))
          /\ b \in 1..Len(t) + 1 /\ CutWhitespaces(t, b) = b
      BY <1>6, <1>7, <2>1 DEF w
    <2> HIDE DEF b, z
    <2>4. ReadElements(t, b) = [elements |-> a, next |-> z]
      BY <1>8, <2>2, <2>3, ElementsRead
    <2>. QED  BY <2>4 DEF b
  <1> HIDE DEF z
  <1>11. ReadAddress(t, q) = CloseAddress(t, [elements |-> a, next |-> z])
    BY <1>8, <1>10 DEF ReadAddress, Within
  <1>12. ReadAddress(t, q) = [elements |-> Sorted(a), ok |-> TRUE, past |-> FALSE,
                              next |-> z + 1]
    BY <1>8, <1>11 DEF CloseAddress, Within
  <1>13. z + 1 = p + Len(AddressAsString(a))
    <2>1. Len(AddressAsString(a)) = (1 + Len(w)) + 1
      BY <1>4 DEF AddressAsString, w
    <2>. QED  BY <1>4, <2>1 DEF z
  <1>. QED  BY <1>12, <1>13

\* The address of a transport is in order and arrives as it is.
LEMMA DisambiguateIsSafe ==
    ASSUME NEW a \in Seq(SafeElement), NEW id \in Word
    PROVE  Disambiguate(a, id) \in Seq(SafeElement) /\ InOrder(Disambiguate(a, id))
  <1> DEFINE e == [key |-> "id", value |-> <<id>>]
             b == IF IsUnique(a) THEN a ELSE Append(a, e)
  <1>1. e \in SafeElement
    <2>1. id \in Token /\ id \notin Blank \union {")"}
      BY SomeTokens DEF Mark
    <2>2. <<id>> \in Text /\ \A i \in DOMAIN <<id>> : <<id>>[i] = id
      BY <2>1, OneToken
    <2>3. e \in Element
      BY <2>2, AddressAssumption DEF Element, Key
    <2>. QED  BY <2>1, <2>2, <2>3 DEF SafeElement
  <1>2. b \in Seq(SafeElement)
    BY <1>1, AppendProperties
  <1>3. Sorted(b) \in Seq(SafeElement) /\ InOrder(Sorted(b))
    BY <1>2, SortedIsInOrder DEF SafeElement
  <1>. QED  BY <1>3 DEF Disambiguate

(***************************************************************************)
(* Equality.                                                               *)
(***************************************************************************)
\* No element of the address is a wildcard.
IsTame(a) == \A i \in DOMAIN a : ~IsWild(a[i].value)

LEMMA ElementLaws ==
    ASSUME NEW e, NEW f, NEW g
    PROVE  /\ ElementIsEqual(e, e)
           /\ ElementIsEqual(e, f) => ElementIsEqual(f, e)
           /\ ElementIsEqual(e, f) /\ ElementIsEqual(f, g) /\ ~IsWild(f.value)
                => ElementIsEqual(e, g)
  BY DEF ElementIsEqual

LEMMA SameDomain ==
    ASSUME NEW a \in Address, NEW b \in Address, Len(a) = Len(b)
    PROVE  DOMAIN a = DOMAIN b
  BY DEF Address

\* mbus_address_is_equal is reflexive and symmetric for every address, and
\* transitive as long as the address in the middle has no wildcard.
THEOREM EqualityOfAddresses ==
    ASSUME NEW a \in Address, NEW b \in Address, NEW c \in Address
    PROVE  /\ IsEqual(a, a)
           /\ IsEqual(a, b) => IsEqual(b, a)
           /\ IsEqual(a, b) /\ IsEqual(b, c) /\ IsTame(b) => IsEqual(a, c)
  <1>1. IsEqual(a, a)
    BY ElementLaws DEF IsEqual
  <1>2. ASSUME IsEqual(a, b) PROVE IsEqual(b, a)
    <2>1. Len(a) = Len(b) /\ DOMAIN a = DOMAIN b
      BY <1>2, SameDomain DEF IsEqual
    <2>. QED  BY <1>2, <2>1, ElementLaws DEF IsEqual
  <1>3. ASSUME IsEqual(a, b), IsEqual(b, c), IsTame(b) PROVE IsEqual(a, c)
    <2>1. Len(a) = Len(b) /\ DOMAIN a = DOMAIN b /\ Len(b) = Len(c)
      BY <1>3, SameDomain DEF IsEqual
    <2>2. ASSUME NEW i \in DOMAIN a PROVE ElementIsEqual(a[i], c[i])
      BY <1>3, <2>1, <2>2, ElementLaws DEF IsEqual, IsTame
    <2>. QED  BY <2>1, <2>2 DEF IsEqual
  <1>. QED  BY <1>1, <1>2, <1>3

\* mbus_address_is_subset is reflexive, includes equality in both directions,
\* and is transitive as long as the address in the middle has no wildcard.
THEOREM SubsetOfAddresses ==
    ASSUME NEW a \in Address, NEW b \in Address, NEW c \in Address
    PROVE  /\ IsSubsetOf(a, a)
           /\ IsEqual(a, b) => IsSubsetOf(a, b) /\ IsSubsetOf(b, a)
           /\ IsSubsetOf(a, b) /\ IsSubsetOf(b, c) /\ IsTame(b) => IsSubsetOf(a, c)
  <1>1. IsSubsetOf(a, a)
    BY ElementLaws DEF IsSubsetOf
  <1>2. ASSUME IsEqual(a, b) PROVE IsSubsetOf(a, b) /\ IsSubsetOf(b, a)
    <2>1. DOMAIN a = DOMAIN b
      BY <1>2, SameDomain DEF IsEqual
    <2>. QED  BY <1>2, <2>1, ElementLaws DEF IsEqual, IsSubsetOf
  <1>3. ASSUME IsSubsetOf(a, b), IsSubsetOf(b, c), IsTame(b) PROVE IsSubsetOf(a, c)
    <2>1. ASSUME NEW k \in DOMAIN c
          PROVE  \E i \in DOMAIN a : ElementIsEqual(a[i], c[k])
      <3>1. PICK j \in DOMAIN b : ElementIsEqual(b[j], c[k])
        BY <1>3 DEF IsSubsetOf
      <3>2. PICK i \in DOMAIN a : ElementIsEqual(a[i], b[j])
        BY <1>3 DEF IsSubsetOf
      <3>. QED  BY <1>3, <3>1, <3>2, ElementLaws DEF IsTame
    <2>. QED  BY <2>1 DEF IsSubsetOf
  <1>. QED  BY <1>1, <1>2, <1>3

\* The first element with a key is there when any is: of the intervals up to an
\* element with the key, one has none of the others as a proper subset.
LEMMA FirstPosition ==
    ASSUME NEW a \in Address, NEW key, Positions(a, key) # {}
    PROVE  Min(Positions(a, key)) \in Positions(a, key)
  <1> DEFINE P  == Positions(a, key)
             S  == DOMAIN a
             Up == {1 .. x : x \in P}
  <1>1. S = 1 .. Len(a) /\ Len(a) \in Nat /\ P \subseteq S
    BY DEF Positions, Address
  <1>2. Up \subseteq FiniteSubsetsOf(S)
    <2>1. ASSUME NEW x \in P PROVE 1 .. x \subseteq S /\ IsFiniteSet(1 .. x)
      <3>1. x \in Int /\ 1 \in Int /\ 1 .. x \subseteq S
        BY <1>1
      <3>. QED  BY <3>1, FS_Interval
    <2>. QED  BY <2>1 DEF FiniteSubsetsOf
  <1>3. PICK u \in Up : \A v \in Up : <<v, u>> \notin StrictSubsetOrdering(S)
    <2>1. Up # {}
      OBVIOUS
    <2>. QED  BY <1>2, <2>1, FS_StrictSubsetOrderingWellFounded, WFMin
  <1>4. PICK n \in P : u = 1 .. n
    OBVIOUS
  <1>5. ASSUME NEW m \in P PROVE n <= m
    <2>1. m \in Nat /\ n \in Nat /\ n \in 1 .. Len(a) /\ m \in 1 .. Len(a)
      BY <1>1
    <2>2. SUFFICES ASSUME m < n PROVE FALSE
      BY <2>1
    <2>3. /\ 1 .. m \in SUBSET S /\ 1 .. n \in SUBSET S
          /\ 1 .. m \subseteq 1 .. n
          /\ n \in 1 .. n /\ n \notin 1 .. m
      BY <1>1, <2>1, <2>2
    <2>4. <<1 .. m, 1 .. n>> \in StrictSubsetOrdering(S)
      BY <2>3 DEF StrictSubsetOrdering
    <2>. QED  BY <1>3, <1>4, <2>4
  <1>. QED  BY <1>5 DEF Min

\* Equal addresses whose ids are no wildcards hash alike, so that the tables of
\* mtrans.c find the one by the other (mbus_address_hash).
THEOREM EqualAddressesHashAlike ==
    ASSUME NEW a \in Address, NEW b \in Address, IsEqual(a, b),
           \A i \in Positions(a, "id") : ~IsWild(a[i].value),
           \A i \in Positions(b, "id") : ~IsWild(b[i].value)
    PROVE  HashedBy(a) = HashedBy(b)
  <1>1. DOMAIN a = DOMAIN b
    BY SameDomain DEF IsEqual
  <1>2. Positions(a, "id") = Positions(b, "id")
    BY <1>1 DEF Positions, IsEqual, ElementIsEqual
  <1>3. CASE Positions(a, "id") = {}
    BY <1>2, <1>3 DEF HashedBy, IsUnique
  <1>4. CASE Positions(a, "id") # {}
    <2> DEFINE i == Min(Positions(a, "id"))
    <2>1. i \in Positions(a, "id") /\ i \in Positions(b, "id") /\ i \in DOMAIN a
      BY <1>2, <1>4, FirstPosition DEF Positions
    <2>2. a[i].value = b[i].value
      BY <2>1 DEF IsEqual, ElementIsEqual
    <2>. QED  BY <1>2, <1>4, <2>2 DEF HashedBy, IsUnique
  <1>. QED  BY <1>3, <1>4

=============================================================================
