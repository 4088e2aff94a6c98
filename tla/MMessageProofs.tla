--------------------------- MODULE MMessageProofs ---------------------------
(***************************************************************************)
(* Reader and writer of messages, for all messages and all texts: what the   *)
(* reader makes of a text has the types of a message, whatever the text is,  *)
(* and a safe message that was written is read as it was.                    *)
(***************************************************************************)
EXTENDS MMessage, MAddressProofs

(***************************************************************************)
(* The brackets of lists.                                                  *)
(***************************************************************************)
\* What an element adds to the depth.
Rise(o) == IF o.type = "[" THEN 1 ELSE IF o.type = "]" THEN -1 ELSE 0

LEMMA BracketsStep ==
    ASSUME NEW list \in Seq(Object), NEW b, NEW i \in 1..Len(list)
    PROVE  /\ IsFiniteSet(Brackets(list, b, i - 1))
           /\ Cardinality(Brackets(list, b, i - 1)) \in Nat
           /\ Cardinality(Brackets(list, b, i)) =
                Cardinality(Brackets(list, b, i - 1)) + IF list[i].type = b THEN 1 ELSE 0
  <1> DEFINE B == Brackets(list, b, i - 1)
  <1>1. IsFiniteSet(B) /\ Cardinality(B) \in Nat
    <2>1. 1 \in Int /\ i - 1 \in Int
      OBVIOUS
    <2>2. IsFiniteSet(1..i - 1)
      BY <2>1, FS_Interval
    <2>3. B \in SUBSET (1..i - 1)
      BY DEF Brackets
    <2> HIDE DEF B
    <2>. QED  BY <2>2, <2>3, FS_Subset, FS_CardinalityType
  <1>2. i \notin B
    BY DEF Brackets
  <1>3. CASE list[i].type = b
    <2>1. Brackets(list, b, i) = B \union {i}
      BY <1>3 DEF Brackets
    <2> HIDE DEF B
    <2>2. Cardinality(B \union {i}) = Cardinality(B) + 1
      BY <1>1, <1>2, FS_AddElement
    <2>. QED  BY <1>1, <1>3, <2>1, <2>2 DEF B
  <1>4. CASE list[i].type # b
    <2>1. Brackets(list, b, i) = B
      BY <1>4 DEF Brackets
    <2> HIDE DEF B
    <2>. QED  BY <1>1, <1>4, <2>1 DEF B
  <1>. QED  BY <1>3, <1>4

LEMMA DepthStep ==
    ASSUME NEW list \in Seq(Object), NEW i \in 1..Len(list)
    PROVE  /\ Depth(list, i - 1) \in Int
           /\ Depth(list, i) = Depth(list, i - 1) + Rise(list[i])
  <1> DEFINE o == Cardinality(Brackets(list, "[", i - 1))
             c == Cardinality(Brackets(list, "]", i - 1))
  <1>1. /\ o \in Nat /\ c \in Nat
        /\ Cardinality(Brackets(list, "[", i)) = o + IF list[i].type = "[" THEN 1 ELSE 0
        /\ Cardinality(Brackets(list, "]", i)) = c + IF list[i].type = "]" THEN 1 ELSE 0
    BY BracketsStep
  <1>2. Depth(list, i - 1) = o - c
    BY DEF Depth
  <1> HIDE DEF o, c
  <1>. QED  BY <1>1, <1>2 DEF Depth, Rise

LEMMA DepthZero ==
    ASSUME NEW list
    PROVE  Depth(list, 0) = 0
  <1>1. \A b : Brackets(list, b, 0) = {}
    BY DEF Brackets
  <1>. QED  BY <1>1, FS_EmptySet DEF Depth

LEMMA DepthType ==
    ASSUME NEW list \in Seq(Object), NEW i \in 0..Len(list)
    PROVE  Depth(list, i) \in Int
  <1>1. CASE i = 0
    BY <1>1, DepthZero
  <1>2. CASE i # 0
    <2>1. i \in 1..Len(list)
      BY <1>2
    <2>2. Rise(list[i]) \in Int
      BY DEF Rise
    <2>. QED  BY <2>1, <2>2, DepthStep
  <1>. QED  BY <1>1, <1>2

\* In a concatenation the depth of the second list is counted from that of the
\* first.
LEMMA DepthConcat ==
    ASSUME NEW u \in Seq(Object), NEW v \in Seq(Object)
    PROVE  /\ \A i \in 0..Len(u) : Depth(u \o v, i) = Depth(u, i)
           /\ \A i \in 0..Len(v) : Depth(u \o v, Len(u) + i) = Depth(u, Len(u)) + Depth(v, i)
  <1> DEFINE w == u \o v
             m == Len(u)
             n == Len(v)
  <1>1. /\ w \in Seq(Object) /\ m \in Nat /\ n \in Nat /\ Len(w) = m + n
        /\ \A i \in 1..m + n : w[i] = IF i <= m THEN u[i] ELSE v[i - m]
    BY ConcatProperties
  <1> HIDE DEF w
  <1>2. ASSUME NEW i \in 0..m PROVE Depth(w, i) = Depth(u, i)
    <2>1. \A j \in 1..i : w[j] = u[j]
      BY <1>1
    <2>2. \A b : Brackets(w, b, i) = Brackets(u, b, i)
      BY <2>1 DEF Brackets
    <2>. QED  BY <2>2 DEF Depth
  <1> DEFINE T == {i \in Nat : i <= n => Depth(w, m + i) = Depth(u, m) + Depth(v, i)}
  <1>3. ASSUME NEW i \in Nat, \A j \in Nat : j < i => j \in T
        PROVE  i \in T
    <2> SUFFICES ASSUME i <= n PROVE Depth(w, m + i) = Depth(u, m) + Depth(v, i)
      OBVIOUS
    <2>1. Depth(u, m) \in Int
      BY <1>1, DepthType
    <2>2. CASE i = 0
      <3>1. Depth(w, m) = Depth(u, m) /\ Depth(v, 0) = 0 /\ m + 0 = m
        BY <1>1, <1>2, DepthZero
      <3>. QED  BY <2>1, <2>2, <3>1
    <2>3. CASE i # 0
      <3>1. i - 1 \in Nat /\ i - 1 < i /\ i - 1 <= n /\ i \in 1..n
        BY <1>1, <2>3
      <3>2. Depth(w, m + (i - 1)) = Depth(u, m) + Depth(v, i - 1)
        BY <1>3, <3>1
      <3>3. m + i \in 1..m + n /\ (m + i) - 1 = m + (i - 1) /\ ~(m + i <= m) /\ (m + i) - m = i
        BY <1>1, <3>1
      <3>4. w[m + i] = v[i]
        BY <1>1, <3>3
      <3>5. Depth(w, m + i) = Depth(w, m + (i - 1)) + Rise(v[i])
        BY <1>1, <3>3, <3>4, DepthStep
      <3>6. Depth(v, i) = Depth(v, i - 1) + Rise(v[i]) /\ Depth(v, i - 1) \in Int
        BY <3>1, DepthStep
      <3>7. Rise(v[i]) \in Int
        BY DEF Rise
      <3>. QED  BY <2>1, <3>2, <3>5, <3>6, <3>7
    <2>. QED  BY <2>2, <2>3
  <1> HIDE DEF T
  <1>4. Nat \subseteq T
    BY <1>3, SetInduction
  <1>5. \A i \in 0..n : Depth(w, m + i) = Depth(u, m) + Depth(v, i)
    <2>1. \A i \in 0..n : i \in Nat /\ i <= n /\ i \in T
      BY <1>1, <1>4
    <2>. QED  BY <2>1 DEF T
  <1>. QED  BY <1>2, <1>5 DEF w

LEMMA EmptyList == <<>> \in List
  <1>1. Depth(<<>>, Len(<<>>)) = 0 /\ DOMAIN <<>> = {}
    BY DepthZero
  <1>. QED  BY <1>1 DEF List, IsBalanced

LEMMA ListsJoined ==
    ASSUME NEW u \in List, NEW v \in List
    PROVE  u \o v \in List
  <1>1. /\ u \in Seq(Object) /\ v \in Seq(Object)
        /\ Depth(u, Len(u)) = 0 /\ \A i \in 1..Len(u) : Depth(u, i) >= 0
        /\ Depth(v, Len(v)) = 0 /\ \A i \in 1..Len(v) : Depth(v, i) >= 0
    BY DEF List, IsBalanced
  <1> DEFINE w == u \o v
             m == Len(u)
             n == Len(v)
  <1>2. w \in Seq(Object) /\ m \in Nat /\ n \in Nat /\ Len(w) = m + n
    BY <1>1, ConcatProperties
  <1>3. /\ \A i \in 0..m : Depth(w, i) = Depth(u, i)
        /\ \A i \in 0..n : Depth(w, m + i) = Depth(v, i)
    <2>1. \A i \in 0..n : Depth(v, i) \in Int
      BY <1>1, DepthType
    <2>. QED  BY <1>1, <2>1, DepthConcat
  <1> HIDE DEF w
  <1>4. Depth(w, Len(w)) = 0
    BY <1>1, <1>2, <1>3
  <1>5. ASSUME NEW i \in 1..m + n PROVE Depth(w, i) >= 0
    <2>1. CASE i <= m
      BY <1>1, <1>2, <1>3, <2>1
    <2>2. CASE i > m
      <3>1. i - m \in 1..n /\ i - m \in 0..n /\ m + (i - m) = i
        BY <1>2, <2>2
      <3>. QED  BY <1>1, <1>3, <3>1
    <2>. QED  BY <1>2, <2>1, <2>2
  <1>6. DOMAIN w = 1..m + n
    BY <1>2
  <1>. QED  BY <1>2, <1>4, <1>5, <1>6 DEF List, IsBalanced, w

LEMMA OneObject ==
    ASSUME NEW o \in Object
    PROVE  /\ <<o>> \in Seq(Object) /\ Len(<<o>>) = 1 /\ Depth(<<o>>, 1) = Rise(o)
           /\ Rise(o) = 0 => <<o>> \in List
  <1>1. <<o>> \in Seq(Object) /\ Len(<<o>>) = 1 /\ <<o>>[1] = o
    OBVIOUS
  <1>2. Depth(<<o>>, 1) = Depth(<<o>>, 0) + Rise(o)
    <2>1. 1 \in 1..Len(<<o>>) /\ 1 - 1 = 0
      BY <1>1
    <2> DEFINE w == <<o>>
    <2> HIDE DEF w
    <2>. QED  BY <1>1, <2>1, DepthStep DEF w
  <1>3. Rise(o) \in Int
    BY DEF Rise
  <1>4. Depth(<<o>>, 1) = Rise(o)
    BY <1>2, <1>3, DepthZero
  <1>5. DOMAIN <<o>> = {1}
    OBVIOUS
  <1>. QED  BY <1>1, <1>4, <1>5 DEF List, IsBalanced

\* A list within brackets is a list.
LEMMA ListWrapped ==
    ASSUME NEW v \in List
    PROVE  <<MakeObject("[", <<>>)>> \o v \o <<MakeObject("]", <<>>)>> \in List
  <1> DEFINE a == MakeObject("[", <<>>)
             z == MakeObject("]", <<>>)
             u == <<a>> \o v
             w == u \o <<z>>
             n == Len(v)
  <1>1. a \in Object /\ z \in Object /\ Rise(a) = 1 /\ Rise(z) = -1
    BY DEF Object, MakeObject, Rise
  <1> HIDE DEF a, z
  <1>2. /\ v \in Seq(Object) /\ n \in Nat
        /\ Depth(v, n) = 0 /\ \A i \in 1..n : Depth(v, i) >= 0
        /\ \A i \in 0..n : Depth(v, i) \in Int /\ Depth(v, i) >= 0
    <2>1. v \in Seq(Object) /\ Depth(v, n) = 0 /\ \A i \in 1..n : Depth(v, i) >= 0
      BY DEF List, IsBalanced
    <2>2. \A i \in 0..n : i = 0 \/ i \in 1..n
      OBVIOUS
    <2>3. \A i \in 0..n : Depth(v, i) \in Int
      BY <2>1, DepthType
    <2>. QED  BY <2>1, <2>2, <2>3, DepthZero, LenProperties
  <1>3. /\ <<a>> \in Seq(Object) /\ Len(<<a>>) = 1 /\ Depth(<<a>>, 1) = 1
        /\ <<z>> \in Seq(Object) /\ Len(<<z>>) = 1 /\ Depth(<<z>>, 1) = -1
    BY <1>1, OneObject
  <1>4. u \in Seq(Object) /\ Len(u) = 1 + n
    BY <1>2, <1>3, ConcatProperties
  <1>5. \A i \in 0..n : Depth(u, 1 + i) = 1 + Depth(v, i)
    <2> DEFINE x == <<a>>
    <2> HIDE DEF x
    <2>1. \A i \in 0..Len(v) : Depth(x \o v, Len(x) + i) = Depth(x, Len(x)) + Depth(v, i)
      BY <1>2, <1>3, DepthConcat DEF x
    <2>. QED  BY <1>3, <2>1 DEF x
  <1> HIDE DEF u
  <1>6. w \in Seq(Object) /\ Len(w) = (1 + n) + 1
    BY <1>3, <1>4, ConcatProperties
  <1>7. /\ \A i \in 0..1 + n : Depth(w, i) = Depth(u, i)
        /\ Depth(w, (1 + n) + 1) = Depth(u, 1 + n) + Depth(<<z>>, 1)
    <2> DEFINE x == <<z>>
    <2> HIDE DEF x
    <2>1. /\ \A i \in 0..Len(u) : Depth(u \o x, i) = Depth(u, i)
          /\ \A i \in 0..Len(x) : Depth(u \o x, Len(u) + i) = Depth(u, Len(u)) + Depth(x, i)
      BY <1>3, <1>4, DepthConcat DEF x
    <2>2. Len(x) = 1 /\ 1 \in 0..1
      BY <1>3 DEF x
    <2>. QED  BY <1>4, <2>1, <2>2 DEF x
  <1> HIDE DEF w
  <1>8. Depth(u, 1 + n) = 1
    <2>1. n \in 0..n
      BY <1>2
    <2>. QED  BY <1>2, <1>5, <2>1
  <1>9. Depth(w, Len(w)) = 0
    BY <1>3, <1>6, <1>7, <1>8
  <1>10. ASSUME NEW i \in 1..(1 + n) + 1 PROVE Depth(w, i) >= 0
    <2>1. CASE i = (1 + n) + 1
      BY <1>6, <1>9, <2>1
    <2>2. CASE i # (1 + n) + 1
      <3>1. i - 1 \in 0..n /\ 1 + (i - 1) = i /\ i \in 0..1 + n
        BY <1>2, <2>2
      <3>2. Depth(w, i) = 1 + Depth(v, i - 1)
        BY <1>5, <1>7, <3>1
      <3>. QED  BY <1>2, <3>1, <3>2
    <2>. QED  BY <2>1, <2>2
  <1>11. DOMAIN w = 1..(1 + n) + 1
    BY <1>6
  <1>12. w \in List
    BY <1>6, <1>9, <1>10, <1>11 DEF List, IsBalanced
  <1>. QED  BY <1>12 DEF w, u, a, z

(***************************************************************************)
(* What the reader of lists returns, whatever the text.                    *)
(***************************************************************************)
ListReading(t) ==
    [how : {"closed", "failed", "broken"}, items : List, next : 1..Len(t) + 1,
     zeros : SUBSET (1..Len(t))]

\* The reading x of an element at q.
IsPiece(t, q, x) ==
    /\ x \in [how : {"read", "failed", "broken"}, items : List, next : q..Len(t) + 1,
              zeros : SUBSET (1..Len(t))]
    /\ x.how = "read" => x.next > q

LEMMA FailedPiece ==
    ASSUME NEW t \in Text, NEW q \in 1..Len(t), NEW how \in {"failed", "broken"},
           NEW Z \in SUBSET (1..Len(t))
    PROVE  IsPiece(t, q, Outcome(how, <<>>, q, Z))
  <1>1. q \in q..Len(t) + 1
    BY TextLength
  <1>. QED  BY <1>1, EmptyList DEF IsPiece, Outcome

LEMMA ReadPiece ==
    ASSUME NEW t \in Text, NEW q \in 1..Len(t), NEW o \in Object, Rise(o) = 0,
           NEW e \in q..Len(t)
    PROVE  IsPiece(t, q, Outcome("read", <<o>>, e + 1, {e}))
  <1>1. /\ e + 1 \in q..Len(t) + 1 /\ e + 1 > q
        /\ {e} \in SUBSET (1..Len(t))
    BY TextLength
  <1>2. <<o>> \in List
    BY OneObject
  <1> DEFINE items == <<o>>
  <1> HIDE DEF items
  <1>. QED  BY <1>1, <1>2 DEF IsPiece, Outcome, items

LEMMA FoundBehind ==
    ASSUME NEW t \in Text, NEW q \in 1..Len(t), NEW S
    PROVE  /\ FirstIn(t, q, S) \in q..Len(t) + 1
           /\ FirstIn(t, q + 1, S) \in q + 1..Len(t) + 1
           /\ Within(t, FirstIn(t, q, S)) => FirstIn(t, q, S) \in q..Len(t)
           /\ Within(t, FirstIn(t, q + 1, S)) => FirstIn(t, q + 1, S) \in q + 1..Len(t)
  <1>1. q \in 1..Len(t) + 1 /\ q + 1 \in 1..Len(t) + 1 /\ Len(t) \in Nat
    BY TextLength
  <1>2. /\ FirstIn(t, q, S) \in q..Len(t) + 1
        /\ FirstIn(t, q + 1, S) \in q + 1..Len(t) + 1
    BY <1>1, FirstInIs
  <1>. QED  BY <1>1, <1>2 DEF Within

LEMMA ElementTyped ==
    ASSUME NEW t \in Text, NEW q \in 1..Len(t), NEW inner,
           inner \in ListReading(t), inner.next >= q
    PROVE  IsPiece(t, q, ReadListElement(t, q, inner))
  <1>0. Len(t) \in Nat /\ q \in Nat /\ t[q] \in Token
    BY TextLength
  <1>1. IsPiece(t, q, ReadString(t, q))
    <2> DEFINE e == FindChar(t, q + 1, Quote)
               o == MakeObject("MSTRING", SubSeq(t, q + 1, e - 1))
    <2>1. e \in q + 1..Len(t) + 1 /\ (Within(t, e) => e \in q + 1..Len(t))
      BY FoundBehind DEF FindChar
    <2>2. q + 1 \in 1..Len(t) + 1
      BY <1>0
    <2> HIDE DEF e
    <2>3. o \in Object /\ Rise(o) = 0
      <3>1. SubSeq(t, q + 1, e - 1) \in Text
        BY <2>1, <2>2, Excerpt
      <3>. QED  BY <3>1 DEF Object, MakeObject, Rise
    <2> HIDE DEF o
    <2>4. CASE Within(t, e)
      <3>1. e \in q..Len(t)
        BY <1>0, <2>1, <2>4
      <3>2. IsPiece(t, q, Outcome("read", <<o>>, e + 1, {e}))
        BY <2>3, <3>1, ReadPiece
      <3>. QED  BY <2>4, <3>2 DEF ReadString, e, o
    <2>5. CASE ~Within(t, e)
      <3>1. IsPiece(t, q, Outcome("failed", <<>>, q, {}))
        BY FailedPiece
      <3>. QED  BY <2>5, <3>1 DEF ReadString, e
    <2>. QED  BY <2>4, <2>5
  <1>2. IsPiece(t, q, ReadData(t, q))
    <2> DEFINE e == FindChar(t, q + 1, ">")
               o == MakeObject("MDATA", SubSeq(t, q + 1, e - 1))
    <2>1. e \in q + 1..Len(t) + 1 /\ (Within(t, e) => e \in q + 1..Len(t))
      BY FoundBehind DEF FindChar
    <2>2. q + 1 \in 1..Len(t) + 1
      BY <1>0
    <2> HIDE DEF e
    <2>3. o \in Object /\ Rise(o) = 0
      <3>1. SubSeq(t, q + 1, e - 1) \in Text
        BY <2>1, <2>2, Excerpt
      <3>. QED  BY <3>1 DEF Object, MakeObject, Rise
    <2> HIDE DEF o
    <2>4. CASE Within(t, e) /\ e # q + 1
      <3>1. e \in q..Len(t)
        BY <1>0, <2>1, <2>4
      <3>2. IsPiece(t, q, Outcome("read", <<o>>, e + 1, {e}))
        BY <2>3, <3>1, ReadPiece
      <3>. QED  BY <2>4, <3>2 DEF ReadData, e, o
    <2>5. CASE ~(Within(t, e) /\ e # q + 1)
      <3>1. /\ IsPiece(t, q, Outcome("failed", <<>>, q, {}))
            /\ IsPiece(t, q, Outcome("broken", <<>>, q, {}))
        BY FailedPiece
      <3>. QED  BY <2>5, <3>1 DEF ReadData, e
    <2>. QED  BY <2>4, <2>5
  <1>3. ASSUME t[q] \in Number PROVE IsPiece(t, q, ReadNumber(t, q))
    <2> DEFINE e == FirstIn(t, q + 1, Blank)
               isFloat == \E i \in q..e - 1 : t[i] \in Decimal
               o == MakeObject(IF isFloat THEN "MFLOAT" ELSE "MINTEGER", <<t[q]>>)
    <2>1. e \in q + 1..Len(t) + 1 /\ (Within(t, e) => e \in q + 1..Len(t))
      BY FoundBehind
    <2> HIDE DEF e
    <2>3. o \in Object /\ Rise(o) = 0
      <3>1. CASE isFloat
        <4>1. o = [type |-> "MFLOAT", content |-> <<t[q]>>]
          BY <3>1 DEF MakeObject
        <4>. QED  BY <1>3, <4>1 DEF Object, Rise
      <3>2. CASE ~isFloat
        <4>1. q \in q..e - 1
          BY <1>0, <2>1
        <4>2. t[q] \in Integer
          BY <1>3, <3>2, <4>1 DEF Number, Integer
        <4>3. o = [type |-> "MINTEGER", content |-> <<t[q]>>]
          BY <3>2 DEF MakeObject
        <4>. QED  BY <4>2, <4>3 DEF Object, Rise
      <3>. QED  BY <3>1, <3>2
    <2>6. ReadNumber(t, q) = IF Within(t, e) THEN Outcome("read", <<o>>, e + 1, {e})
                             ELSE Outcome("broken", <<>>, q, {})
      BY DEF ReadNumber, e
    <2> HIDE DEF o
    <2>4. CASE Within(t, e)
      <3>1. e \in q..Len(t)
        BY <1>0, <2>1, <2>4
      <3>. QED  BY <2>3, <2>4, <2>6, <3>1, ReadPiece
    <2>5. CASE ~Within(t, e)
      BY <2>5, <2>6, FailedPiece
    <2>. QED  BY <2>4, <2>5
  <1>4. IsPiece(t, q, ReadSymbol(t, q))
    <2> DEFINE e == FindChar(t, q, " ")
               o == MakeObject("MSYMBOL", SubSeq(t, q, e - 1))
    <2>1. e \in q..Len(t) + 1 /\ (Within(t, e) => e \in q..Len(t))
      BY FoundBehind DEF FindChar
    <2>2. q \in 1..Len(t) + 1
      BY <1>0
    <2> HIDE DEF e
    <2>3. o \in Object /\ Rise(o) = 0
      <3>1. SubSeq(t, q, e - 1) \in Text
        BY <2>1, <2>2, Excerpt
      <3>. QED  BY <3>1 DEF Object, MakeObject, Rise
    <2>6. \/ /\ Within(t, e)
             /\ ReadSymbol(t, q) = Outcome("read", <<o>>, e + 1, {e})
          \/ ReadSymbol(t, q) = Outcome("failed", <<>>, q, IF Within(t, e) THEN {e} ELSE {})
      BY DEF ReadSymbol, e
    <2> HIDE DEF o
    <2>4. CASE Within(t, e) /\ ReadSymbol(t, q) = Outcome("read", <<o>>, e + 1, {e})
      BY <2>1, <2>3, <2>4, ReadPiece
    <2>5. CASE ReadSymbol(t, q) = Outcome("failed", <<>>, q, IF Within(t, e) THEN {e} ELSE {})
      <3> DEFINE Z == IF Within(t, e) THEN {e} ELSE {}
      <3>1. Z \in SUBSET (1..Len(t))
        BY DEF Within
      <3> HIDE DEF Z
      <3>2. IsPiece(t, q, Outcome("failed", <<>>, q, Z))
        BY <3>1, FailedPiece
      <3>. QED  BY <2>5, <3>2 DEF Z
    <2>. QED  BY <2>4, <2>5, <2>6
  <1>5. IsPiece(t, q, NestedList(t, q, inner))
    <2> DEFINE items == <<MakeObject("[", <<>>)>> \o inner.items \o <<MakeObject("]", <<>>)>>
    <2>1. /\ inner.items \in List /\ inner.next \in 1..Len(t) + 1
          /\ inner.zeros \in SUBSET (1..Len(t))
      BY DEF ListReading
    <2>2. items \in List
      BY <2>1, ListWrapped
    <2>3. \/ /\ Within(t, inner.next)
             /\ NestedList(t, q, inner) = Outcome("read", items, inner.next + 1, inner.zeros)
          \/ NestedList(t, q, inner) = Outcome("broken", <<>>, q, {})
      BY DEF NestedList
    <2> HIDE DEF items
    <2>4. ASSUME Within(t, inner.next)
          PROVE  IsPiece(t, q, Outcome("read", items, inner.next + 1, inner.zeros))
      <3>1. inner.next + 1 \in q..Len(t) + 1 /\ inner.next + 1 > q
        BY <1>0, <2>4 DEF Within
      <3>. QED  BY <2>1, <2>2, <3>1 DEF IsPiece, Outcome
    <2>. QED  BY <2>3, <2>4, FailedPiece
  <1>6. IsPiece(t, q, Outcome("broken", <<>>, q, {}))
    BY FailedPiece
  <1>. QED  BY <1>1, <1>2, <1>3, <1>4, <1>5, <1>6 DEF ReadListElement

\* The list reader never goes back behind q.
GoesOn(t, From, q) ==
    \A y \in 1..Len(t) + 1 : q < y => From[y] \in ListReading(t) /\ From[y].next >= y

LEMMA ItemsParts ==
    ASSUME NEW t \in Text, NEW q \in 1..Len(t) + 1, NEW From, GoesOn(t, From, q),
           NEW s, s = FirstNonWhitespace(t, q),
           NEW one, one = ReadListElement(t, s, From[s + 1])
    PROVE  /\ s \in 1..Len(t) + 1 /\ s >= q /\ Len(t) \in Nat
           /\ Within(t, s) => /\ s + 1 \in 1..Len(t) + 1 /\ q < s + 1
                              /\ IsPiece(t, s, one)
                              /\ one.how = "read" => one.next \in 1..Len(t) + 1 /\ q < one.next
  <1>1. s \in q..Len(t) + 1
    BY BeyondIs DEF FirstNonWhitespace
  <1>2. Len(t) \in Nat
    BY TextLength
  <1>3. ASSUME Within(t, s)
        PROVE  /\ s + 1 \in 1..Len(t) + 1 /\ q < s + 1
               /\ IsPiece(t, s, one)
               /\ one.how = "read" => one.next \in 1..Len(t) + 1 /\ q < one.next
    <2>1. s \in 1..Len(t) /\ s + 1 \in 1..Len(t) + 1 /\ q < s + 1
      BY <1>1, <1>2, <1>3 DEF Within
    <2>2. From[s + 1] \in ListReading(t) /\ From[s + 1].next >= s + 1
      BY <2>1 DEF GoesOn
    <2>3. From[s + 1].next >= s
      BY <2>1, <2>2 DEF ListReading
    <2>4. IsPiece(t, s, one)
      BY <2>1, <2>2, <2>3, ElementTyped
    <2>5. one.how = "read" => one.next \in s..Len(t) + 1 /\ one.next > s
      BY <2>4 DEF IsPiece
    <2>. QED  BY <1>1, <1>2, <2>1, <2>4, <2>5
  <1>. QED  BY <1>1, <1>2, <1>3

LEMMA ItemsTyped ==
    ASSUME NEW t \in Text, NEW q \in 1..Len(t) + 1, NEW From, GoesOn(t, From, q)
    PROVE  Items(t, From, q) \in ListReading(t) /\ Items(t, From, q).next >= q
  <1> DEFINE s == FirstNonWhitespace(t, q)
             one == ReadListElement(t, s, From[s + 1])
             rest == From[one.next]
             x == Items(t, From, q)
  <1>1. /\ s \in 1..Len(t) + 1 /\ s >= q /\ Len(t) \in Nat
        /\ Within(t, s) => /\ s + 1 \in 1..Len(t) + 1 /\ q < s + 1
                           /\ IsPiece(t, s, one)
                           /\ one.how = "read" => one.next \in 1..Len(t) + 1 /\ q < one.next
    BY ItemsParts
  <1>2. x = IF ~Within(t, s) \/ t[s] = ")" THEN Outcome("closed", <<>>, s, {})
            ELSE IF one.how # "read" THEN one
            ELSE Outcome(rest.how, one.items \o rest.items, rest.next,
                         one.zeros \union rest.zeros)
    BY DEF Items
  <1> HIDE DEF x, s
  <1>3. CASE ~Within(t, s) \/ t[s] = ")"
    <2>1. x = Outcome("closed", <<>>, s, {})
      BY <1>2, <1>3
    <2>2. {} \in SUBSET (1..Len(t))
      OBVIOUS
    <2>3. x \in ListReading(t) /\ x.next >= q
      BY <1>1, <2>1, <2>2, EmptyList DEF Outcome, ListReading
    <2>. QED  BY <2>3 DEF x
  <1> HIDE DEF one
  <1>4. CASE Within(t, s) /\ t[s] # ")" /\ one.how # "read"
    <2> USE DEF one
    <2>1. x = one
      BY <1>2, <1>4
    <2>2. /\ one.how \in {"failed", "broken"} /\ one.items \in List
          /\ one.next \in s..Len(t) + 1 /\ one.zeros \in SUBSET (1..Len(t))
      BY <1>1, <1>4 DEF IsPiece
    <2>3. one = [how |-> one.how, items |-> one.items, next |-> one.next,
                 zeros |-> one.zeros]
      BY <1>1, <1>4 DEF IsPiece
    <2> HIDE DEF one
    <2>4. one \in ListReading(t) /\ one.next >= q
      <3>1. one.next \in 1..Len(t) + 1 /\ one.next >= q
        BY <1>1, <2>2
      <3>. QED  BY <2>2, <2>3, <3>1 DEF ListReading
    <2>. QED  BY <2>1, <2>4 DEF x
  <1>5. CASE Within(t, s) /\ t[s] # ")" /\ one.how = "read"
    <2>1. /\ one.items \in List /\ one.zeros \in SUBSET (1..Len(t))
          /\ one.next \in 1..Len(t) + 1 /\ q < one.next
      BY <1>1, <1>5 DEF IsPiece, one
    <2>2. rest \in ListReading(t) /\ rest.next >= one.next
      BY <2>1 DEF GoesOn
    <2>3. x = Outcome(rest.how, one.items \o rest.items, rest.next,
                      one.zeros \union rest.zeros)
      BY <1>2, <1>5 DEF one
    <2> HIDE DEF rest
    <2>4. /\ rest.how \in {"closed", "failed", "broken"} /\ rest.items \in List
          /\ rest.next \in 1..Len(t) + 1 /\ rest.zeros \in SUBSET (1..Len(t))
      BY <2>2 DEF ListReading
    <2> DEFINE items == one.items \o rest.items
               zeros == one.zeros \union rest.zeros
    <2>5. items \in List
      BY <2>1, <2>4, ListsJoined
    <2>6. zeros \in SUBSET (1..Len(t)) /\ rest.next >= q
      BY <1>1, <2>1, <2>2, <2>4
    <2> HIDE DEF items, zeros
    <2>7. x \in ListReading(t) /\ x.next >= q
      BY <2>3, <2>4, <2>5, <2>6 DEF Outcome, ListReading, items, zeros
    <2>. QED  BY <2>7 DEF x
  <1>. QED  BY <1>3, <1>4, <1>5

LEMMA ItemsLocal ==
    ASSUME NEW t \in Text, NEW q \in 1..Len(t) + 1, NEW g, NEW h, GoesOn(t, g, q),
           \A y \in 1..Len(t) + 1 : q < y => g[y] = h[y]
    PROVE  Items(t, g, q) = Items(t, h, q)
  <1> DEFINE s == FirstNonWhitespace(t, q)
             one == ReadListElement(t, s, g[s + 1])
  <1>1. Within(t, s) => /\ s + 1 \in 1..Len(t) + 1 /\ q < s + 1
                        /\ one.how = "read" => one.next \in 1..Len(t) + 1 /\ q < one.next
    BY ItemsParts
  <1>2. CASE ~Within(t, s) \/ t[s] = ")"
    <2>1. Items(t, g, q) = Outcome("closed", <<>>, s, {})
      BY <1>2, Zenon DEF Items
    <2>2. Items(t, h, q) = Outcome("closed", <<>>, s, {})
      BY <1>2, Zenon DEF Items
    <2>. QED  BY <2>1, <2>2
  <1>3. CASE Within(t, s) /\ t[s] # ")" /\ one.how # "read"
    <2>1. g[s + 1] = h[s + 1]
      BY <1>1, <1>3
    <2>. QED  BY <1>3, <2>1, Zenon DEF Items
  <1>4. CASE Within(t, s) /\ t[s] # ")" /\ one.how = "read"
    <2>1. g[s + 1] = h[s + 1] /\ g[one.next] = h[one.next]
      BY <1>1, <1>4
    <2>. QED  BY <1>4, <2>1, Zenon DEF Items
  <1>. QED  BY <1>2, <1>3, <1>4

\* The function that ReadList defines.  The recursion is well-founded only as
\* long as no reading goes back.
LEMMA ItemsFrom ==
    ASSUME NEW t \in Text
    PROVE  \E From \in [1..Len(t) + 1 -> ListReading(t)] :
               \A q \in 1..Len(t) + 1 : /\ From[q] = Items(t, From, q)
                                        /\ From[q].next >= q
                                        /\ ReadList(t, q) = From[q]
  <1> DEFINE N == Len(t) + 1
             V == ListReading(t)
             End == Outcome("closed", <<>>, N, {})
             F == [g \in [1..N -> V] |->
                     [q \in 1..N |-> IF GoesOn(t, g, q) THEN Items(t, g, q) ELSE End]]
             fl == CHOOSE f : f = [q \in 1..N |-> Items(t, f, q)]
  <1>1. N \in Nat /\ 1 \in 1..N /\ N \in 1..N
    BY TextLength
  <1>2. End \in V
    <2>1. {} \in SUBSET (1..Len(t))
      OBVIOUS
    <2>. QED  BY <1>1, <2>1, EmptyList DEF Outcome, ListReading
  <1> HIDE DEF End
  <1>3. F \in [[1..N -> V] -> [1..N -> V]]
    <2>1. ASSUME NEW g \in [1..N -> V]
          PROVE  [q \in 1..N |-> IF GoesOn(t, g, q) THEN Items(t, g, q) ELSE End]
                     \in [1..N -> V]
      <3>1. \A q \in 1..N : GoesOn(t, g, q) => Items(t, g, q) \in V
        BY ItemsTyped
      <3> HIDE DEF V, N
      <3>. QED  BY <1>2, <3>1
    <2> HIDE DEF V, N
    <2>. QED  BY <2>1
  <1>4. ASSUME NEW g \in [1..N -> V], NEW h \in [1..N -> V], NEW q \in 1..N,
               \A y \in 1..N : q < y => g[y] = h[y]
        PROVE  F[g][q] = F[h][q]
    <2>1. GoesOn(t, g, q) <=> GoesOn(t, h, q)
      BY <1>4 DEF GoesOn
    <2>2. GoesOn(t, g, q) => Items(t, g, q) = Items(t, h, q)
      BY <1>4, ItemsLocal
    <2> HIDE DEF V, N
    <2>. QED  BY <2>1, <2>2
  <1> HIDE DEF V, N
  <1>5. PICK f \in [1..N -> V] : IsFixedPoint(f, F)
    <2>1. V # {}
      BY <1>2
    <2> HIDE DEF F
    <2>. QED  BY <1>1, <1>3, <1>4, <2>1, DownwardRecursion
  <1>6. f = [q \in 1..N |-> IF GoesOn(t, f, q) THEN Items(t, f, q) ELSE End]
    BY <1>5 DEF IsFixedPoint
  <1>7. \A q \in 1..N : GoesOn(t, f, q)
    <2> DEFINE T == {q \in 1..N : f[q].next >= q}
    <2>1. ASSUME NEW q \in 1..N, \A y \in 1..N : q < y => y \in T PROVE q \in T
      <3>1. GoesOn(t, f, q)
        BY <2>1 DEF GoesOn, N, V
      <3>2. f[q] = Items(t, f, q)
        BY <1>6, <3>1
      <3>. QED  BY <3>1, <3>2, ItemsTyped DEF N
    <2> HIDE DEF T
    <2>2. 1..N \subseteq T
      BY <1>1, <2>1, DownwardInduction
    <2>3. \A q \in 1..N : f[q].next >= q
      BY <2>2 DEF T
    <2>. QED  BY <2>3 DEF GoesOn, N, V
  <1>8. f = [q \in 1..N |-> Items(t, f, q)]
    BY <1>6, <1>7
  <1>9. fl = [q \in 1..N |-> Items(t, fl, q)]
    BY <1>8, Zenon
  <1>10. \A q \in 1..N : ReadList(t, q) = fl[q]
    BY Zenon DEF ReadList, N
  <1> HIDE DEF fl
  <1>11. \A q \in 1..N : fl[q] \in V /\ fl[q].next >= q
    <2> DEFINE T == {q \in 1..N : fl[q] \in V /\ fl[q].next >= q}
    <2>1. ASSUME NEW q \in 1..N, \A y \in 1..N : q < y => y \in T PROVE q \in T
      <3>1. GoesOn(t, fl, q)
        BY <2>1 DEF GoesOn, N, V
      <3>2. fl[q] = Items(t, fl, q)
        BY <1>9
      <3>3. Items(t, fl, q) \in V /\ Items(t, fl, q).next >= q
        BY <3>1, ItemsTyped DEF N, V
      <3>. QED  BY <3>2, <3>3
    <2> HIDE DEF T
    <2>2. 1..N \subseteq T
      BY <1>1, <2>1, DownwardInduction
    <2>. QED  BY <2>2 DEF T
  <1>12. fl \in [1..N -> V] /\ \A q \in 1..N : fl[q] = Items(t, fl, q)
    BY <1>9, <1>11
  <1>. QED  BY <1>10, <1>11, <1>12 DEF V, N

(***************************************************************************)
(* Objects are read as they were written.                                  *)
(***************************************************************************)
\* (The provers' encodings of the blank and of the quote, as string literals,
\* differ: they are left folded where arithmetic is done.)
Space == " "

LEMMA Tokens ==
    /\ Space \in Blank /\ Blank = {Space, "\n"} /\ Blank \subseteq Mark /\ Quote \in Mark
    /\ {Space, Quote, "<", ">", "(", ")", ",", "\n"} \subseteq Mark /\ Mark \subseteq Token
    /\ Word \subseteq Token /\ Mark \cap Word = {}
    /\ Quote \notin Blank /\ Quote \notin {"<", ">", "(", ")", "\n"}
    /\ \A x \in {"<", ">", "(", ")"} : x \notin Blank /\ x # Quote
  BY TextAssumption DEF Token, Mark, Blank, Space, Quote

LEMMA TwoTokens ==
    ASSUME NEW S, NEW a \in S, NEW b \in S
    PROVE  <<a, b>> \in Seq(S) /\ Len(<<a, b>>) = 2
  OBVIOUS

LEMMA FoundAt ==
    ASSUME NEW t \in Text, NEW k \in Nat, NEW w \in Text, Holds(t, k, w),
           NEW S, \A i \in 1..Len(w) : w[i] \notin S,
           NEW e, e = k + Len(w), e \in 1..Len(t), t[e] \in S
    PROVE  FirstIn(t, k, S) = e /\ SubSeq(t, k, e - 1) = w
  <1>1. /\ Len(w) \in Nat /\ Len(t) \in Nat /\ k # 0
        /\ \A i \in 1..Len(w) : t[k + i - 1] = w[i]
    BY TextLength DEF Holds
  <1>2. k \in 1..Len(t) + 1 /\ e \in k..Len(t) + 1
    BY <1>1
  <1>3. ASSUME NEW i \in k..e - 1 PROVE t[i] \notin S
    <2>1. i - k + 1 \in 1..Len(w) /\ k + (i - k + 1) - 1 = i
      BY <1>1
    <2>. QED  BY <1>1, <2>1
  <1>4. FirstIn(t, k, S) = e
    BY <1>2, <1>3, FirstInUnique
  <1>5. e - k = Len(w)
    BY <1>1
  <1>6. /\ SubSeq(t, k, e - 1) \in Text
        /\ Len(SubSeq(t, k, e - 1)) = Len(w)
        /\ \A n \in 1..Len(w) : SubSeq(t, k, e - 1)[n] = t[k + n - 1]
    BY <1>2, <1>5, Excerpt
  <1>7. SubSeq(t, k, e - 1) = w
    <2> DEFINE u == SubSeq(t, k, e - 1)
    <2> HIDE DEF u
    <2>. QED  BY <1>1, <1>6, SeqEqual DEF u, Text
  <1>. QED  BY <1>4, <1>7

LEMMA FoundOne ==
    ASSUME NEW t \in Text, NEW k \in Nat, NEW w \in Text, Holds(t, k, w),
           NEW c, \A i \in 1..Len(w) : w[i] # c,
           k + Len(w) \in 1..Len(t), t[k + Len(w)] = c
    PROVE  FirstIn(t, k, {c}) = k + Len(w) /\ SubSeq(t, k, (k + Len(w)) - 1) = w
  <1> DEFINE e == k + Len(w)
             S == {c}
  <1>1. e = k + Len(w) /\ e \in 1..Len(t) /\ t[e] \in S /\ \A i \in 1..Len(w) : w[i] \notin S
    OBVIOUS
  <1> HIDE DEF e, S
  <1>2. FirstIn(t, k, S) = e /\ SubSeq(t, k, e - 1) = w
    BY <1>1, FoundAt
  <1>. QED  BY <1>2 DEF e, S

LEMMA FoundNext ==
    ASSUME NEW t \in Text, NEW k \in Nat, NEW w \in Text, Holds(t, k + 1, w),
           NEW c, \A i \in 1..Len(w) : w[i] # c,
           (k + 1) + Len(w) \in 1..Len(t), t[(k + 1) + Len(w)] = c
    PROVE  /\ FirstIn(t, k + 1, {c}) = (k + 1) + Len(w)
           /\ SubSeq(t, k + 1, ((k + 1) + Len(w)) - 1) = w
  <1>1. PICK j \in Nat : j = k + 1
    OBVIOUS
  <1>2. Holds(t, j, w) /\ j + Len(w) \in 1..Len(t) /\ t[j + Len(w)] = c
    BY <1>1
  <1>3. FirstIn(t, j, {c}) = j + Len(w) /\ SubSeq(t, j, (j + Len(w)) - 1) = w
    BY <1>2, FoundOne
  <1>. QED  BY <1>1, <1>3

LEMMA WordsEnd ==
    ASSUME NEW t \in Text, NEW k \in Nat, NEW w \in Text, Holds(t, k + 1, w),
           NEW c, c \notin Word, \A i \in 1..Len(w) : w[i] \in Word,
           (k + 1) + Len(w) \in 1..Len(t), t[(k + 1) + Len(w)] = c
    PROVE  /\ FirstIn(t, k + 1, {c}) = (k + 1) + Len(w)
           /\ SubSeq(t, k + 1, ((k + 1) + Len(w)) - 1) = w
  <1>1. PICK j \in Nat : j = k + 1
    OBVIOUS
  <1>2. Holds(t, j, w) /\ j + Len(w) \in 1..Len(t) /\ t[j + Len(w)] = c
    BY <1>1
  <1>3. \A i \in 1..Len(w) : w[i] # c
    OBVIOUS
  <1>4. FirstIn(t, j, {c}) = j + Len(w) /\ SubSeq(t, j, (j + Len(w)) - 1) = w
    BY <1>2, <1>3, FoundOne, SMTT(60)
  <1>. QED  BY <1>1, <1>4

\* The array that base64encode makes has room for data of these lengths.
LEMMA SafeLengthsFit ==
    ASSUME NEW n \in SafeLengths
    PROVE  n # 0 /\ InBounds(n) /\ Encoded(n) = n
  <1>1. n \in {1, 2, 3, 4, 5, 6, 8, 9, 12}
    BY DEF SafeLengths
  <1>2. \/ n \in 1..3 /\ n \div 4 = 0
        \/ n \in 4..6 /\ n \div 4 = 1
        \/ n \in 8..9 /\ n \div 4 = 2
        \/ n = 12 /\ n \div 4 = 3
    BY <1>1
  <1>. QED  BY <1>1, <1>2 DEF InBounds, Encoded

LEMMA EncodedData ==
    ASSUME NEW w \in Text
    PROVE  SubSeq(w, 1, Encoded(Len(w))) \in Text
  <1>1. Len(w) \in Nat
    BY TextLength
  <1>2. Encoded(Len(w)) \in 0..Len(w)
    BY <1>1 DEF Encoded
  <1>3. Encoded(Len(w)) + 1 \in 1..Len(w) + 1 /\ (Encoded(Len(w)) + 1) - 1 = Encoded(Len(w))
        /\ 1 \in 1..Len(w) + 1
    BY <1>1, <1>2
  <1> DEFINE j == Encoded(Len(w)) + 1
  <1> HIDE DEF j
  <1>4. SubSeq(w, 1, j - 1) \in Text
    BY <1>3, Excerpt DEF j
  <1>. QED  BY <1>3, <1>4 DEF j

LEMMA ObjectTypes ==
    ASSUME NEW o \in Object
    PROVE  /\ o.type \in {"MINTEGER", "MFLOAT", "MSTRING", "MSYMBOL", "MDATA", "[", "]"}
           /\ o.type = "MINTEGER" => \E n \in Integer : o = MakeObject("MINTEGER", <<n>>)
           /\ o.type = "MFLOAT" => \E n \in Number : o = MakeObject("MFLOAT", <<n>>)
           /\ o.type \in {"MSTRING", "MSYMBOL", "MDATA"} =>
                  o.content \in Text /\ o = MakeObject(o.type, o.content)
           /\ o.type \in {"[", "]"} => o = MakeObject(o.type, <<>>)
  BY DEF Object, MakeObject

LEMMA ObjectText ==
    ASSUME NEW o \in Object
    PROVE  ObjectAsString(o) \in Text
  <1>1. CASE o.type = "MINTEGER"
    <2>1. PICK n \in Integer : o = MakeObject("MINTEGER", <<n>>)
      BY <1>1, ObjectTypes
    <2>2. n \in Token /\ o.content = <<n>>
      BY <2>1 DEF MakeObject, Integer, Token, Word, Number
    <2>3. ObjectAsString(o) = o.content
      BY <1>1 DEF ObjectAsString
    <2>. QED  BY <2>2, <2>3, OneToken
  <1>2. CASE o.type = "MFLOAT"
    <2>1. PICK n \in Number : o = MakeObject("MFLOAT", <<n>>)
      BY <1>2, ObjectTypes
    <2>2. o.content[1] = n
      BY <2>1 DEF MakeObject
    <2>3. Fixed[n] \in Token /\ Whole[n] \in Token /\ "," \in Token
      BY TypesAssumption DEF Token, Word, Number, Integer, Mark
    <2>4. <<Fixed[n]>> \in Text /\ <<Whole[n], ",">> \in Text
      BY <2>3, OneToken, TwoTokens DEF Text, Token
    <2>. QED  BY <1>2, <2>2, <2>4 DEF ObjectAsString
  <1>3. CASE o.type = "MSTRING"
    <2>1. o.content \in Text /\ <<Quote>> \in Text
      BY <1>3, ObjectTypes, OneToken, SomeTokens
    <2>2. (<<Quote>> \o o.content) \o <<Quote>> \in Text
      BY <2>1, Joined
    <2>. QED  BY <1>3, <2>2 DEF ObjectAsString
  <1>4. CASE o.type = "MDATA"
    <2> DEFINE w == SubSeq(o.content, 1, Encoded(Len(o.content)))
    <2>1. w \in Text /\ <<"<">> \in Text /\ <<">">> \in Text
      BY <1>4, ObjectTypes, EncodedData, OneToken, SomeTokens
    <2> HIDE DEF w
    <2>2. (<<"<">> \o w) \o <<">">> \in Text
      BY <2>1, Joined
    <2>. QED  BY <1>4, <2>2 DEF ObjectAsString, w
  <1>5. CASE o.type \in {"[", "]"}
    BY <1>5, OneToken, SomeTokens DEF ObjectAsString
  <1>6. CASE o.type = "MSYMBOL"
    BY <1>6, ObjectTypes DEF ObjectAsString
  <1>. QED  BY <1>1, <1>2, <1>3, <1>4, <1>5, <1>6, ObjectTypes

\* The reading x of the object o, which stands in t from k to the blank at e.
IsReading(t, k, e, o, x) ==
    \E next \in {e, e + 1} : \E Z \in SUBSET (k..e) : x = Outcome("read", <<o>>, next, Z)

LEMMA NumberRead ==
    ASSUME NEW t \in Text, NEW k \in Nat, NEW n \in Number, Holds(t, k, <<n>>),
           k + 1 \in 1..Len(t), t[k + 1] = Space, NEW inner
    PROVE  /\ t[k] \notin Blank /\ t[k] # ")"
           /\ IsReading(t, k, k + 1,
                        MakeObject(IF n \in Decimal THEN "MFLOAT" ELSE "MINTEGER", <<n>>),
                        ReadListElement(t, k, inner))
  <1>1. k \in 1..Len(t) /\ t[k] = n
    BY HoldsOne
  <1>2. n \in Word /\ n \notin Mark
    BY Tokens DEF Word
  <1>3. ReadListElement(t, k, inner) = ReadNumber(t, k)
    <2>1. t[k] # Quote /\ t[k] # "<" /\ t[k] # "(" /\ t[k] \in Number
      BY <1>1, <1>2, Tokens
    <2>2. t[k] \notin Upper
      BY <1>1, TextAssumption
    <2>. QED  BY <2>1, <2>2 DEF ReadListElement
  <1>4. FirstIn(t, k + 1, Blank) = k + 1
    <2>0. t[k + 1] \in Blank
      BY Tokens
    <2>1. k + 1 \in 1..Len(t) + 1 /\ k + 1 \in k + 1..Len(t) + 1
          /\ t[k + 1] \in Blank /\ \A i \in k + 1..(k + 1) - 1 : FALSE
      BY <2>0, TextLength
    <2> DEFINE j == k + 1
    <2> HIDE DEF j
    <2>2. FirstIn(t, j, Blank) = j
      BY <2>1, FirstInUnique DEF j
    <2>. QED  BY <2>2 DEF j
  <1>5. (\E i \in k..(k + 1) - 1 : t[i] \in Decimal) <=> n \in Decimal
    BY <1>1
  <1> DEFINE o == MakeObject(IF n \in Decimal THEN "MFLOAT" ELSE "MINTEGER", <<n>>)
  <1>6. ReadNumber(t, k) = Outcome("read", <<o>>, (k + 1) + 1, {k + 1})
    BY <1>1, <1>4, <1>5 DEF ReadNumber, Within
  <1>7. {k + 1} \in SUBSET (k..k + 1)
    OBVIOUS
  <1>8. t[k] \notin Blank /\ t[k] # ")"
    BY <1>1, <1>2, Tokens
  <1> HIDE DEF o
  <1>. QED  BY <1>3, <1>6, <1>7, <1>8 DEF IsReading, o

LEMMA SymbolRead ==
    ASSUME NEW t \in Text, NEW k \in Nat, NEW w \in Text, Holds(t, k, w),
           w # <<>>, IsValidSymbol(w), w[1] \in Upper,
           NEW e, e = k + Len(w), e \in 1..Len(t), t[e] = Space, NEW inner
    PROVE  /\ t[k] \notin Blank /\ t[k] # ")"
           /\ IsReading(t, k, e, MakeObject("MSYMBOL", w), ReadListElement(t, k, inner))
  <1>1. /\ Len(w) \in Nat /\ 1 \in 1..Len(w) /\ DOMAIN w = 1..Len(w) /\ k # 0
        /\ k \in 1..Len(t)
    <2>1. Len(w) \in Nat /\ Len(w) # 0 /\ DOMAIN w = 1..Len(w)
      BY EmptySeq, LenProperties DEF Text
    <2>. QED  BY <2>1, TextLength DEF Holds
  <1>2. t[k] = w[1]
    <2>1. k + 1 - 1 = k
      OBVIOUS
    <2>. QED  BY <1>1, <2>1 DEF Holds
  <1>3. t[k] \notin Mark /\ t[k] \notin Number
    BY <1>2, Tokens, TextAssumption DEF Word
  <1>4. ReadListElement(t, k, inner) = ReadSymbol(t, k)
    <2>1. t[k] # Quote /\ t[k] # "<" /\ t[k] # "(" /\ t[k] \notin Number /\ t[k] \in Upper
      BY <1>2, <1>3, Tokens
    <2>. QED  BY <2>1 DEF ReadListElement
  <1>5. \A i \in 1..Len(w) : w[i] \notin {Space}
    BY <1>1, Tokens DEF IsValidSymbol
  <1>6. FirstIn(t, k, {Space}) = e /\ SubSeq(t, k, e - 1) = w
    <2>1. \A i \in 1..Len(w) : w[i] # Space
      BY <1>5
    <2>2. k + Len(w) \in 1..Len(t) /\ t[k + Len(w)] = Space
      OBVIOUS
    <2>. QED  BY <2>1, <2>2, FoundOne
  <1> DEFINE o == MakeObject("MSYMBOL", w)
  <1>7. ReadSymbol(t, k) = Outcome("read", <<o>>, e + 1, {e})
    <2>1. FindChar(t, k, " ") = e
      BY <1>6 DEF FindChar, Space
    <2>. QED  BY <1>6, <2>1 DEF ReadSymbol, Within
  <1>8. {e} \in SUBSET (k..e)
    BY <1>1
  <1>9. t[k] \notin Blank /\ t[k] # ")"
    BY <1>3, Tokens
  <1> HIDE DEF o
  <1>. QED  BY <1>4, <1>7, <1>8, <1>9 DEF IsReading, o

\* A string or data: the words w between an opening and a closing character.
LEMMA EnclosedHolds ==
    ASSUME NEW t \in Text, NEW k \in Nat, NEW w \in Text, NEW a \in Token, NEW z \in Token,
           Holds(t, k, (<<a>> \o w) \o <<z>>)
    PROVE  /\ k \in 1..Len(t) /\ t[k] = a /\ Holds(t, k + 1, w)
           /\ (k + 1) + Len(w) \in 1..Len(t) /\ t[(k + 1) + Len(w)] = z
           /\ Len((<<a>> \o w) \o <<z>>) = Len(w) + 2
  <1>1. <<a>> \in Text /\ Len(<<a>>) = 1 /\ <<z>> \in Text /\ Len(<<z>>) = 1
        /\ Len(w) \in Nat
    BY OneToken, TextLength
  <1> DEFINE A == <<a>>
             Z == <<z>>
             u == A \o w
  <1> HIDE DEF A, Z
  <1>2. u \in Text /\ Len(u) = 1 + Len(w) /\ Len(u \o Z) = (1 + Len(w)) + 1
    BY <1>1, Joined DEF A, Z
  <1>3. Holds(t, k, u \o Z)
    BY DEF A, Z
  <1> HIDE DEF u
  <1>4. Holds(t, k, u) /\ Holds(t, k + Len(u), Z)
    BY <1>1, <1>2, <1>3, HoldsConcat DEF Z
  <1>5. Holds(t, k, A) /\ Holds(t, k + 1, w)
    BY <1>1, <1>4, HoldsConcat DEF u, A
  <1>6. k + Len(u) = (k + 1) + Len(w) /\ (k + 1) + Len(w) \in Nat
    BY <1>1, <1>2
  <1>7. k \in 1..Len(t) /\ t[k] = a
    BY <1>5, HoldsOne DEF A
  <1>8. (k + 1) + Len(w) \in 1..Len(t) /\ t[(k + 1) + Len(w)] = z
    BY <1>4, <1>6, HoldsOne DEF Z
  <1>9. Len(((<<a>> \o w) \o <<z>>)) = Len(w) + 2
    BY <1>1, <1>2 DEF u, A, Z
  <1>. QED  BY <1>5, <1>7, <1>8, <1>9

LEMMA StringReadBetween ==
    ASSUME NEW t \in Text, NEW k \in Nat, NEW w \in Text,
           k \in 1..Len(t), t[k] = Quote, Holds(t, k + 1, w),
           (k + 1) + Len(w) \in 1..Len(t), t[(k + 1) + Len(w)] = Quote,
           \A i \in 1..Len(w) : w[i] # Quote, NEW inner
    PROVE  /\ t[k] \notin Blank /\ t[k] # ")"
           /\ IsReading(t, k, k + (Len(w) + 2), MakeObject("MSTRING", w),
                        ReadListElement(t, k, inner))
  <1> DEFINE e == (k + 1) + Len(w)
             o == MakeObject("MSTRING", w)
  <1>1. /\ k \in 1..Len(t) /\ t[k] = Quote /\ Holds(t, k + 1, w)
        /\ e \in 1..Len(t) /\ t[e] = Quote /\ Len(w) \in Nat
    BY TextLength
  <1>2. k + 1 \in Nat /\ e = (k + 1) + Len(w)
    OBVIOUS
  <1>3. FirstIn(t, k + 1, {Quote}) = e /\ SubSeq(t, k + 1, e - 1) = w
    <2> DEFINE P == FirstIn(t, k + 1, {Quote}) = (k + 1) + Len(w)
               Q == SubSeq(t, k + 1, ((k + 1) + Len(w)) - 1) = w
    <2>1. P /\ Q
      BY FoundNext, ZenonT(60)
    <2>. QED  BY <2>1
  <1>4. e + 1 = k + (Len(w) + 2) /\ {e} \in SUBSET (k..k + (Len(w) + 2))
    BY <1>1
  <1> HIDE DEF e
  <1>5. ReadString(t, k) = Outcome("read", <<o>>, e + 1, {e})
    BY <1>1, <1>3 DEF ReadString, FindChar, Within
  <1>6. ReadListElement(t, k, inner) = ReadString(t, k)
    <2>1. t[k] = Quote /\ t[k] # "<" /\ t[k] # "(" /\ t[k] \notin Number /\ t[k] \notin Upper
      BY <1>1, Tokens DEF Word
    <2>. QED  BY <2>1 DEF ReadListElement
  <1>7. t[k] \notin Blank /\ t[k] # ")"
    BY <1>1, Tokens
  <1> HIDE DEF o
  <1>. QED  BY <1>4, <1>5, <1>6, <1>7 DEF IsReading, o

LEMMA StringRead ==
    ASSUME NEW t \in Text, NEW k \in Nat, NEW w \in Text,
           Holds(t, k, (<<Quote>> \o w) \o <<Quote>>),
           \A i \in 1..Len(w) : w[i] # Quote, NEW inner
    PROVE  /\ t[k] \notin Blank /\ t[k] # ")"
           /\ IsReading(t, k, k + (Len(w) + 2), MakeObject("MSTRING", w),
                        ReadListElement(t, k, inner))
  <1>1. Quote \in Token /\ Quote \in Token
    BY Tokens
  <1>2. /\ k \in 1..Len(t) /\ t[k] = Quote /\ Holds(t, k + 1, w)
        /\ (k + 1) + Len(w) \in 1..Len(t) /\ t[(k + 1) + Len(w)] = Quote
    BY <1>1, EnclosedHolds
  <1>. QED  BY <1>2, StringReadBetween

LEMMA DataReadBetween ==
    ASSUME NEW t \in Text, NEW k \in Nat, NEW w \in Text,
           k \in 1..Len(t), t[k] = "<", Holds(t, k + 1, w),
           (k + 1) + Len(w) \in 1..Len(t), t[(k + 1) + Len(w)] = ">",
           FirstIn(t, k + 1, {">"}) = (k + 1) + Len(w),
           SubSeq(t, k + 1, ((k + 1) + Len(w)) - 1) = w,
           w \in Seq(Word), Len(w) # 0, NEW inner
    PROVE  /\ t[k] \notin Blank /\ t[k] # ")"
           /\ IsReading(t, k, k + (Len(w) + 2), MakeObject("MDATA", w),
                        ReadListElement(t, k, inner))
  <1> DEFINE e == (k + 1) + Len(w)
             o == MakeObject("MDATA", w)
  <1>1. /\ k \in 1..Len(t) /\ t[k] = "<" /\ Holds(t, k + 1, w)
        /\ e \in 1..Len(t) /\ t[e] = ">" /\ Len(w) \in Nat
    BY TextLength
  <1>3. FirstIn(t, k + 1, {">"}) = e /\ SubSeq(t, k + 1, e - 1) = w
    OBVIOUS
  <1>4. e + 1 = k + (Len(w) + 2) /\ {e} \in SUBSET (k..k + (Len(w) + 2)) /\ e # k + 1
    BY <1>1
  <1> HIDE DEF e
  <1>5. ReadData(t, k) = Outcome("read", <<o>>, e + 1, {e})
    BY <1>1, <1>3, <1>4 DEF ReadData, FindChar, Within
  <1>6. ReadListElement(t, k, inner) = ReadData(t, k)
    <2>1. t[k] # Quote /\ t[k] = "<" /\ t[k] # "(" /\ t[k] \notin Number /\ t[k] \notin Upper
      BY <1>1, Tokens DEF Word
    <2>. QED  BY <2>1 DEF ReadListElement
  <1>7. t[k] \notin Blank /\ t[k] # ")"
    BY <1>1, Tokens
  <1> HIDE DEF o
  <1>. QED  BY <1>4, <1>5, <1>6, <1>7 DEF IsReading, o

LEMMA DataRead ==
    ASSUME NEW t \in Text, NEW k \in Nat, NEW w \in Text,
           Holds(t, k, (<<"<">> \o w) \o <<">">>),
           w \in Seq(Word), Len(w) # 0, NEW inner
    PROVE  /\ t[k] \notin Blank /\ t[k] # ")"
           /\ IsReading(t, k, k + (Len(w) + 2), MakeObject("MDATA", w),
                        ReadListElement(t, k, inner))
  <1>1. "<" \in Token /\ ">" \in Token
    BY Tokens
  <1>2. /\ k \in 1..Len(t) /\ t[k] = "<" /\ Holds(t, k + 1, w)
        /\ (k + 1) + Len(w) \in 1..Len(t) /\ t[(k + 1) + Len(w)] = ">"
    BY <1>1, EnclosedHolds
  <1>3. ">" \notin Word
    BY Tokens
  <1>4. \A i \in 1..Len(w) : w[i] \in Word
    OBVIOUS
  <1>5. /\ FirstIn(t, k + 1, {">"}) = (k + 1) + Len(w)
        /\ SubSeq(t, k + 1, ((k + 1) + Len(w)) - 1) = w
    BY <1>2, <1>3, <1>4, WordsEnd, Zenon
  <1>. QED  BY <1>2, <1>5, DataReadBetween

\* An object as it stands in the text of a list.
Piece(o) == ObjectAsString(o) \o Separator(o)

LEMMA PieceText ==
    ASSUME NEW o \in Object
    PROVE  /\ Piece(o) \in Text /\ Len(Piece(o)) \in Nat
           /\ Rise(o) = 0 => /\ Piece(o) = ObjectAsString(o) \o <<Space>>
                             /\ Len(Piece(o)) = Len(ObjectAsString(o)) + 1
           /\ o.type = "[" => Piece(o) = <<"(">>
           /\ o.type = "]" => Piece(o) = <<")">> \o <<Space>>
  <1>1. ObjectAsString(o) \in Text
    BY ObjectText
  <1>2. <<Space>> \in Text /\ Len(<<Space>>) = 1 /\ <<>> \in Text
    <2>1. Space \in Token
      BY Tokens
    <2>2. <<>> \in Text
      BY DEF Text
    <2>. QED  BY <2>1, <2>2, OneToken
  <1>3. o.type = "[" => Separator(o) = <<>> /\ ObjectAsString(o) = <<"(">>
    BY DEF Separator, ObjectAsString
  <1>4. o.type # "[" => Separator(o) = <<Space>>
    BY DEF Separator, Space
  <1>5. o.type = "]" => ObjectAsString(o) = <<")">>
    BY DEF ObjectAsString
  <1>6. Separator(o) \in Text
    BY <1>2, <1>3, <1>4
  <1>7. Piece(o) \in Text
    BY <1>1, <1>6, Joined DEF Piece
  <1>8. ASSUME Rise(o) = 0
        PROVE  /\ Piece(o) = ObjectAsString(o) \o <<Space>>
               /\ Len(Piece(o)) = Len(ObjectAsString(o)) + 1
    <2>1. o.type # "["
      BY <1>8 DEF Rise
    <2>2. Piece(o) = ObjectAsString(o) \o <<Space>>
      BY <1>4, <2>1 DEF Piece
    <2> DEFINE u == ObjectAsString(o)
               v == <<Space>>
    <2> HIDE DEF u, v
    <2>3. Len(u \o v) = Len(u) + Len(v) /\ Len(v) = 1
      BY <1>1, <1>2, Joined DEF u, v
    <2>. QED  BY <2>2, <2>3 DEF u, v
  <1>9. o.type = "[" => Piece(o) = <<"(">>
    <2>1. <<"(">> \o <<>> = <<"(">>
      OBVIOUS
    <2>. QED  BY <1>3, <2>1 DEF Piece
  <1>10. o.type = "]" => Piece(o) = <<")">> \o <<Space>>
    <2>1. o.type = "]" => o.type # "["
      OBVIOUS
    <2>. QED  BY <1>4, <1>5, <2>1 DEF Piece
  <1>. QED  BY <1>7, <1>8, <1>9, <1>10, TextLength

\* What is neither bracket is read up to its blank.
LEMMA PieceRead ==
    ASSUME NEW t \in Text, NEW k \in Nat, NEW o \in Object, ObjectIsSafe(o), Rise(o) = 0,
           Holds(t, k, Piece(o))
    PROVE  \E e \in k..Len(t) :
               /\ e + 1 = k + Len(Piece(o)) /\ t[e] = Space
               /\ k \in 1..Len(t) /\ t[k] \notin Blank /\ t[k] # ")"
               /\ \A inner : IsReading(t, k, e, o, ReadListElement(t, k, inner))
  <1> DEFINE u == ObjectAsString(o)
             v == <<Space>>
  <1>1. u \in Text /\ v \in Text /\ Piece(o) = u \o v /\ Len(Piece(o)) = Len(u) + 1
    <2>1. Space \in Token
      BY Tokens
    <2>. QED  BY <2>1, PieceText, ObjectText, OneToken
  <1>2. o.type \in {"MINTEGER", "MFLOAT", "MSTRING", "MSYMBOL", "MDATA"}
    BY ObjectTypes DEF Rise
  <1> HIDE DEF u, v
  <1>3. Holds(t, k, u) /\ Holds(t, k + Len(u), v) /\ Len(u) \in Nat /\ Len(t) \in Nat
    BY <1>1, HoldsConcat, TextLength
  <1>4. PICK e \in Nat : e = k + Len(u)
    BY <1>3
  <1>5. e \in 1..Len(t) /\ t[e] = Space /\ k # 0 /\ k \in 1..Len(t) /\ e \in k..Len(t)
        /\ e + 1 = k + Len(Piece(o))
    <2>1. Holds(t, e, <<Space>>)
      BY <1>3, <1>4 DEF v
    <2>2. e \in 1..Len(t) /\ t[e] = Space
      BY <2>1, HoldsOne
    <2>3. k # 0
      BY <1>3 DEF Holds
    <2>. QED  BY <1>1, <1>3, <1>4, <2>2, <2>3
  <1> DEFINE Goal(inner) == /\ t[k] \notin Blank /\ t[k] # ")"
                            /\ IsReading(t, k, e, o, ReadListElement(t, k, inner))
  <1>6. ASSUME NEW inner PROVE Goal(inner)
    <2>1. CASE o.type = "MINTEGER"
      <3>1. PICK n \in Integer : o = MakeObject("MINTEGER", <<n>>)
        BY <2>1, ObjectTypes
      <3>2. u = <<n>> /\ n \in Number /\ n \notin Decimal
        <4>1. u = <<n>>
          BY <3>1 DEF u, ObjectAsString, MakeObject
        <4>. QED  BY <4>1, TextAssumption DEF Integer, Number
      <3>3. e = k + 1
        BY <1>4, <3>2
      <3>4. Holds(t, k, <<n>>) /\ k + 1 \in 1..Len(t) /\ t[k + 1] = Space
        BY <1>3, <1>5, <3>2, <3>3
      <3>5. /\ t[k] \notin Blank /\ t[k] # ")"
            /\ IsReading(t, k, k + 1,
                         MakeObject(IF n \in Decimal THEN "MFLOAT" ELSE "MINTEGER", <<n>>),
                         ReadListElement(t, k, inner))
        BY <3>2, <3>4, NumberRead
      <3>. QED  BY <3>1, <3>2, <3>3, <3>5
    <2>2. CASE o.type = "MFLOAT"
      <3>1. PICK n \in Number : o = MakeObject("MFLOAT", <<n>>)
        BY <2>2, ObjectTypes
      <3>2. u = <<n>> /\ n \in Decimal
        <4>1. ~CommaLocale /\ Fixed[n] = n
          BY <3>1 DEF ObjectIsSafe, MakeObject
        <4>2. u = <<Fixed[n]>>
          BY <3>1, <4>1 DEF u, ObjectAsString, MakeObject
        <4>. QED  BY <4>1, <4>2, TypesAssumption
      <3>3. e = k + 1
        BY <1>4, <3>2
      <3>4. Holds(t, k, <<n>>) /\ k + 1 \in 1..Len(t) /\ t[k + 1] = Space
        BY <1>3, <1>5, <3>2, <3>3
      <3>5. /\ t[k] \notin Blank /\ t[k] # ")"
            /\ IsReading(t, k, k + 1,
                         MakeObject(IF n \in Decimal THEN "MFLOAT" ELSE "MINTEGER", <<n>>),
                         ReadListElement(t, k, inner))
        BY <3>4, NumberRead
      <3>. QED  BY <3>1, <3>2, <3>3, <3>5
    <2>3. CASE o.type = "MSYMBOL"
      <3> DEFINE w == o.content
      <3>1. w \in Text /\ o = MakeObject("MSYMBOL", w)
        BY <2>3, ObjectTypes
      <3>2. u = w
        BY <2>3 DEF u, ObjectAsString
      <3>3. w # <<>> /\ IsValidSymbol(w) /\ w[1] \in Upper
        BY <2>3 DEF ObjectIsSafe
      <3> HIDE DEF w
      <3>4. /\ t[k] \notin Blank /\ t[k] # ")"
            /\ IsReading(t, k, e, MakeObject("MSYMBOL", w), ReadListElement(t, k, inner))
        BY <1>3, <1>4, <1>5, <3>1, <3>2, <3>3, SymbolRead
      <3>. QED  BY <3>1, <3>4
    <2>4. CASE o.type = "MSTRING"
      <3> DEFINE w == o.content
      <3>1. w \in Text /\ o = MakeObject("MSTRING", w) /\ DOMAIN w = 1..Len(w) /\ Len(w) \in Nat
        BY <2>4, ObjectTypes, TextLength DEF Text
      <3>2. u = (<<Quote>> \o w) \o <<Quote>>
        BY <2>4 DEF u, ObjectAsString
      <3>3. \A i \in 1..Len(w) : w[i] # Quote
        BY <2>4, <3>1 DEF ObjectIsSafe
      <3> HIDE DEF w
      <3>4. /\ t[k] \notin Blank /\ t[k] # ")"
            /\ IsReading(t, k, k + (Len(w) + 2), MakeObject("MSTRING", w),
                         ReadListElement(t, k, inner))
        BY <1>3, <3>1, <3>2, <3>3, StringRead
      <3>5. e = k + (Len(w) + 2)
        <4>1. Quote \in Token
          BY Tokens
        <4>2. Len(u) = Len(w) + 2
          BY <1>3, <3>1, <3>2, <4>1, EnclosedHolds
        <4>. QED  BY <1>4, <4>2
      <3>. QED  BY <3>1, <3>4, <3>5
    <2>5. CASE o.type = "MDATA"
      <3> DEFINE w == o.content
      <3>1. w \in Text /\ o = MakeObject("MDATA", w) /\ Len(w) \in Nat
        BY <2>5, ObjectTypes, TextLength
      <3>2. IsPlain(w) /\ u = (<<"<">> \o SubSeq(w, 1, Encoded(Len(w)))) \o <<">">>
        BY <2>5 DEF u, ObjectAsString, ObjectIsSafe
      <3> HIDE DEF w
      <3>3. w \in Seq(Word) /\ Len(w) # 0 /\ SubSeq(w, 1, Encoded(Len(w))) = w
        <4>1. w \in Seq(Word) /\ Len(w) # 0 /\ Encoded(Len(w)) = Len(w)
          BY <3>2, SafeLengthsFit DEF IsPlain
        <4>. QED  BY <4>1, SubSeqFull
      <3>4. u = (<<"<">> \o w) \o <<">">>
        BY <3>2, <3>3
      <3>5. /\ t[k] \notin Blank /\ t[k] # ")"
            /\ IsReading(t, k, k + (Len(w) + 2), MakeObject("MDATA", w),
                         ReadListElement(t, k, inner))
        BY <1>3, <3>1, <3>3, <3>4, DataRead
      <3>6. e = k + (Len(w) + 2)
        <4>1. "<" \in Token /\ ">" \in Token
          BY Tokens
        <4>2. Len(u) = Len(w) + 2
          BY <1>3, <3>1, <3>4, <4>1, EnclosedHolds
        <4>. QED  BY <1>4, <4>2
      <3>. QED  BY <3>1, <3>5, <3>6
    <2>. QED  BY <1>2, <2>1, <2>2, <2>3, <2>4, <2>5
  <1>. QED  BY <1>5, <1>6

LEMMA BracketRead ==
    ASSUME NEW t \in Text, NEW k \in Nat, NEW o \in Object, Holds(t, k, Piece(o))
    PROVE  /\ o.type = "[" => /\ k \in 1..Len(t) /\ t[k] = "(" /\ Len(Piece(o)) = 1
           /\ o.type = "]" => /\ k \in 1..Len(t) /\ t[k] = ")" /\ Len(Piece(o)) = 2
                              /\ k + 1 \in 1..Len(t) /\ t[k + 1] = Space
  <1>1. ASSUME o.type = "[" PROVE k \in 1..Len(t) /\ t[k] = "(" /\ Len(Piece(o)) = 1
    <2>1. Holds(t, k, <<"(">>) /\ Piece(o) = <<"(">>
      BY <1>1, PieceText
    <2>2. k \in 1..Len(t) /\ t[k] = "("
      BY <2>1, HoldsOne
    <2>. QED  BY <2>1, <2>2
  <1>2. ASSUME o.type = "]"
        PROVE  /\ k \in 1..Len(t) /\ t[k] = ")" /\ Len(Piece(o)) = 2
               /\ k + 1 \in 1..Len(t) /\ t[k + 1] = Space
    <2> DEFINE u == <<")">>
               v == <<Space>>
    <2>1. u \in Text /\ Len(u) = 1 /\ v \in Text /\ Len(v) = 1
      <3>1. ")" \in Token /\ Space \in Token
        BY Tokens
      <3>. QED  BY <3>1, OneToken
    <2>2. Piece(o) = u \o v
      BY <1>2, PieceText
    <2> HIDE DEF u, v
    <2>3. Holds(t, k, u) /\ Holds(t, k + 1, v) /\ Len(Piece(o)) = 2
      <3>1. Holds(t, k, u \o v) /\ Len(u \o v) = 2 /\ k + Len(u) = k + 1
        <4>1. Len(u \o v) = Len(u) + Len(v)
          BY <2>1, Joined
        <4>2. Holds(t, k, u \o v)
          BY <2>2
        <4>. QED  BY <2>1, <4>1, <4>2
      <3>2. Holds(t, k, u) /\ Holds(t, k + Len(u), v)
        BY <2>1, <3>1, HoldsConcat
      <3>. QED  BY <2>2, <3>1, <3>2
    <2>4. k \in 1..Len(t) /\ t[k] = ")"
      BY <2>3, HoldsOne DEF u
    <2>5. k + 1 \in 1..Len(t) /\ t[k + 1] = Space
      BY <2>3, HoldsOne DEF v
    <2>. QED  BY <2>3, <2>4, <2>5
  <1>. QED  BY <1>1, <1>2

(***************************************************************************)
(* The part of a list from i to before k lies within one pair of brackets,  *)
(* and at k they close: the list closes, or one around the part does.        *)
(***************************************************************************)
Encloses(list, i, k) ==
    /\ k \in i..Len(list) + 1
    /\ \A j \in i - 1..k - 1 : Depth(list, j) >= Depth(list, i - 1)
    /\ k # Len(list) + 1 => Depth(list, k) < Depth(list, i - 1)

LEMMA WholeList ==
    ASSUME NEW list \in List
    PROVE  /\ list \in Seq(Object) /\ Len(list) \in Nat /\ DOMAIN list = 1..Len(list)
           /\ \A i \in 1..Len(list) : list[i] \in Object
           /\ \A i \in 0..Len(list) : Depth(list, i) \in Int /\ Depth(list, i) >= 0
           /\ \A i \in 1..Len(list) : Depth(list, i) = Depth(list, i - 1) + Rise(list[i])
           /\ Depth(list, Len(list)) = 0
           /\ Encloses(list, 1, Len(list) + 1)
  <1>1. /\ list \in Seq(Object) /\ Len(list) \in Nat /\ DOMAIN list = 1..Len(list)
        /\ \A i \in 1..Len(list) : list[i] \in Object
        /\ Depth(list, Len(list)) = 0 /\ \A i \in 1..Len(list) : Depth(list, i) >= 0
    BY DEF List, IsBalanced
  <1>2. ASSUME NEW i \in 0..Len(list) PROVE Depth(list, i) \in Int /\ Depth(list, i) >= 0
    <2>1. CASE i = 0
      BY <2>1, DepthZero
    <2>2. CASE i # 0
      <3>1. i \in 1..Len(list)
        BY <2>2
      <3>. QED  BY <1>1, <3>1, DepthType
    <2>. QED  BY <2>1, <2>2
  <1>3. \A i \in 1..Len(list) : Depth(list, i) = Depth(list, i - 1) + Rise(list[i])
    BY <1>1, DepthStep
  <1>4. Encloses(list, 1, Len(list) + 1)
    <2>1. 1 - 1 = 0 /\ (Len(list) + 1) - 1 = Len(list) /\ Len(list) + 1 \in 1..Len(list) + 1
      BY <1>1
    <2>2. \A j \in 0..Len(list) : Depth(list, j) >= Depth(list, 0)
      BY <1>2, DepthZero
    <2>. QED  BY <2>1, <2>2 DEF Encloses
  <1>. QED  BY <1>1, <1>2, <1>3, <1>4

LEMMA EnclosedAt ==
    ASSUME NEW list \in List, NEW i \in 1..Len(list), NEW k, Encloses(list, i, k)
    PROVE  /\ k \in Nat
           /\ k = i => list[i].type = "]"
           /\ k # i => Rise(list[i]) # -1 /\ i + 1 \in 1..Len(list) + 1
           /\ k # i /\ Rise(list[i]) = 0 => Encloses(list, i + 1, k)
  <1> DEFINE n == Len(list)
             D(j) == Depth(list, j)
  <1>1. /\ n \in Nat /\ \A j \in 0..n : D(j) \in Int
        /\ D(i) = D(i - 1) + Rise(list[i])
        /\ i - 1 \in 0..n /\ i \in 0..n /\ Rise(list[i]) \in {1, 0, -1}
    BY WholeList DEF Rise
  <1>2. /\ k \in i..n + 1
        /\ \A j \in i - 1..k - 1 : D(j) >= D(i - 1)
        /\ k # n + 1 => D(k) < D(i - 1)
    BY DEF Encloses
  <1> HIDE DEF D
  <1>3. k \in Nat
    BY <1>1, <1>2
  <1>4. k = i => list[i].type = "]"
    <2>1. SUFFICES ASSUME k = i PROVE Rise(list[i]) = -1
      BY DEF Rise
    <2>2. D(i) < D(i - 1) /\ D(i) \in Int /\ D(i - 1) \in Int
      BY <1>1, <1>2, <2>1
    <2>. QED  BY <1>1, <2>2
  <1>5. ASSUME k # i
        PROVE  /\ Rise(list[i]) # -1 /\ i + 1 \in 1..n + 1
               /\ Rise(list[i]) = 0 => Encloses(list, i + 1, k)
    <2>1. i \in i - 1..k - 1 /\ k \in i + 1..n + 1 /\ (i + 1) - 1 = i
      BY <1>1, <1>2, <1>5
    <2>2. D(i) >= D(i - 1) /\ D(i) \in Int /\ D(i - 1) \in Int
      BY <1>1, <1>2, <2>1
    <2>3. Rise(list[i]) # -1
      BY <1>1, <2>2
    <2>4. ASSUME Rise(list[i]) = 0 PROVE Encloses(list, i + 1, k)
      <3>1. D(i) = D(i - 1)
        BY <1>1, <2>2, <2>4
      <3>2. \A j \in i..k - 1 : j \in i - 1..k - 1
        OBVIOUS
      <3>3. \A j \in i..k - 1 : D(j) >= D(i)
        BY <1>2, <3>1, <3>2
      <3>4. k # n + 1 => D(k) < D(i)
        BY <1>2, <3>1
      <3>. QED  BY <2>1, <3>3, <3>4 DEF Encloses, D
    <2>. QED  BY <1>1, <2>3, <2>4
  <1>. QED  BY <1>3, <1>4, <1>5

\* An opening bracket closes before those around it do.
LEMMA ClosingBracket ==
    ASSUME NEW list \in List, NEW i \in 1..Len(list), list[i].type = "[",
           NEW k, Encloses(list, i, k), k # i
    PROVE  \E m \in i + 1..Len(list) : /\ m < k /\ list[m].type = "]"
                                       /\ Encloses(list, i + 1, m)
                                       /\ Encloses(list, m + 1, k)
  <1> DEFINE n == Len(list)
             D(j) == Depth(list, j)
  <1>1. /\ n \in Nat /\ \A j \in 0..n : D(j) \in Int /\ D(j) >= 0
        /\ D(n) = 0
        /\ \A j \in 1..n : D(j) = D(j - 1) + Rise(list[j])
    BY WholeList
  <1>2. /\ k \in i + 1..n + 1
        /\ \A j \in i - 1..k - 1 : D(j) >= D(i - 1)
        /\ k # n + 1 => D(k) < D(i - 1)
    BY <1>1 DEF Encloses
  <1> HIDE DEF D
  <1>3. D(i) = D(i - 1) + 1 /\ D(i) \in Int /\ D(i - 1) \in Int /\ D(i - 1) >= 0
    <2>1. i - 1 \in 0..n /\ i \in 0..n /\ Rise(list[i]) = 1
      BY <1>1 DEF Rise
    <2>. QED  BY <1>1, <2>1
  <1> DEFINE S == {j \in 0..n : D(j) < D(i)}
  <1>4. PICK l \in i + 1..n : l \in S /\ l <= k
    <2>1. CASE k = n + 1
      <3>1. n \in 0..n /\ D(n) < D(i) /\ n # i
        BY <1>1, <1>3
      <3>. QED  BY <1>1, <1>2, <2>1, <3>1
    <2>2. CASE k # n + 1
      <3>0. D(k) < D(i - 1)
        BY <1>2, <2>2
      <3>1. k \in i + 1..n /\ k \in 0..n /\ D(k) < D(i - 1)
        <4>1. n \in Nat /\ k \in i + 1..n + 1
          BY <1>1, <1>2
        <4>. QED  BY <2>2, <3>0, <4>1
      <3>2. D(k) < D(i)
        BY <1>1, <1>3, <3>1
      <3>. QED  BY <1>1, <3>1, <3>2
    <2>. QED  BY <2>1, <2>2
  <1> HIDE DEF S
  <1>5. PICK m \in i + 1..l : m \in S /\ \A j \in i + 1..m - 1 : j \notin S
    <2>1. PICK p \in Nat : p = i + 1
      OBVIOUS
    <2>2. l \in Nat
      BY <1>1, <1>4
    <2>3. p \in 1..l
      BY <1>1, <1>4, <2>1
    <2>4. l \in S
      BY <1>4
    <2>5. \E m \in p..l : m \in S /\ \A j \in p..m - 1 : j \notin S
      BY <2>2, <2>3, <2>4, FirstOf, ZenonT(60)
    <2>. QED  BY <2>1, <2>5
  <1>6. /\ m \in i + 1..n /\ m <= k /\ m - 1 \in i..n /\ m - 1 \in 0..n /\ m \in 0..n
        /\ D(m) < D(i) /\ D(m) \in Int /\ m \in 1..n
    <2>1. /\ m \in i + 1..n /\ m <= k /\ m - 1 \in i..n /\ m - 1 \in 0..n /\ m \in 0..n
          /\ m \in 1..n
      BY <1>1, <1>2, <1>4
    <2>2. D(m) < D(i)
      BY <1>5 DEF S
    <2>. QED  BY <1>1, <2>1, <2>2
  <1>7. \A j \in i..m - 1 : D(j) >= D(i)
    <2>1. ASSUME NEW j \in i..m - 1 PROVE D(j) >= D(i)
      <3>1. j \in 0..n /\ D(j) \in Int
        BY <1>1, <1>6
      <3>2. CASE j = i
        BY <1>3, <3>2
      <3>3. CASE j # i
        <4>1. j \in i + 1..m - 1
          BY <3>3
        <4>. QED  BY <1>3, <1>5, <3>1, <4>1 DEF S
      <3>. QED  BY <3>2, <3>3
    <2>. QED  BY <2>1
  <1>8. D(m) = D(i - 1) /\ Rise(list[m]) = -1
    <2>1. D(m) = D(m - 1) + Rise(list[m]) /\ D(m - 1) \in Int /\ Rise(list[m]) \in {1, 0, -1}
      BY <1>1, <1>6 DEF Rise
    <2>2. D(m - 1) >= D(i)
      BY <1>6, <1>7
    <2>. QED  BY <1>3, <1>6, <2>1, <2>2
  <1>9. m < k
    <2>1. CASE k = n + 1
      BY <1>1, <1>6, <2>1
    <2>2. CASE k # n + 1
      BY <1>2, <1>3, <1>6, <1>8, <2>2
    <2>. QED  BY <2>1, <2>2
  <1>10. Encloses(list, i + 1, m)
    <2>1. (i + 1) - 1 = i /\ m \in i + 1..n + 1
      BY <1>6
    <2>. QED  BY <1>6, <1>7, <2>1 DEF Encloses, D
  <1>11. Encloses(list, m + 1, k)
    <2>1. (m + 1) - 1 = m /\ k \in m + 1..n + 1
      BY <1>2, <1>6, <1>9
    <2>2. \A j \in m..k - 1 : j \in i - 1..k - 1
      BY <1>6
    <2>3. \A j \in m..k - 1 : D(j) >= D(m)
      BY <1>2, <1>8, <2>2
    <2>4. k # n + 1 => D(k) < D(m)
      BY <1>2, <1>8
    <2>. QED  BY <2>1, <2>3, <2>4 DEF Encloses, D
  <1>12. list[m].type = "]"
    BY <1>8 DEF Rise
  <1>. QED  BY <1>6, <1>9, <1>10, <1>11, <1>12


(***************************************************************************)
(* Lists are read as they were written.                                    *)
(***************************************************************************)
LEMMA Skipping ==
    ASSUME NEW t \in Text, NEW q \in 1..Len(t)
    PROVE  /\ t[q] # Space => FirstNonWhitespace(t, q) = q
           /\ t[q] = Space /\ q + 1 \in 1..Len(t) /\ t[q + 1] # Space =>
                  FirstNonWhitespace(t, q) = q + 1
  <1>1. FirstNonWhitespace(t, q) = Beyond(t, q, {Space})
    BY DEF FirstNonWhitespace, Space
  <1> DEFINE S == {Space}
  <1>2. \A x : x \in S <=> x = Space
    OBVIOUS
  <1> HIDE DEF S
  <1>3. t[q] \notin S => Beyond(t, q, S) = q
    BY BeyondNothing
  <1>4. t[q] \in S /\ q + 1 \in 1..Len(t) /\ t[q + 1] \notin S => Beyond(t, q, S) = q + 1
    BY BeyondOne
  <1>. QED  BY <1>1, <1>2, <1>3, <1>4 DEF S

Pieces(list) == [i \in DOMAIN list |-> Piece(list[i])]

\* The objects of the list stand in t at the positions pos, and the bracket
\* that closes it behind them.
Stands(t, list, pos) ==
    /\ pos \in [1..Len(list) + 1 -> 1..Len(t)]
    /\ \A i \in 1..Len(list) : /\ Holds(t, pos[i], Piece(list[i]))
                               /\ pos[i + 1] = pos[i] + Len(Piece(list[i]))
    /\ \A i \in 1..Len(list) + 1 : t[pos[i]] # Space
    /\ t[pos[Len(list) + 1]] = ")"

\* What the reader makes of the part of the list from i to before k.
ReadsPart(t, From, list, pos, i, k, q) ==
    /\ pos[i] <= pos[k]
    /\ \E Z \in SUBSET (pos[i]..pos[k] - 1) :
           From[q] = Outcome("closed", SubSeq(list, i, k - 1), pos[k], Z)

\* The first element that is read from q on.
FirstItem(t, From, q) ==
    ReadListElement(t, FirstNonWhitespace(t, q), From[FirstNonWhitespace(t, q) + 1])

LEMMA ItemsStep ==
    ASSUME NEW t, NEW From, NEW q,
           Within(t, FirstNonWhitespace(t, q)), t[FirstNonWhitespace(t, q)] # ")",
           FirstItem(t, From, q).how = "read"
    PROVE  Items(t, From, q) =
               Outcome(From[FirstItem(t, From, q).next].how,
                       FirstItem(t, From, q).items \o From[FirstItem(t, From, q).next].items,
                       From[FirstItem(t, From, q).next].next,
                       FirstItem(t, From, q).zeros
                         \union From[FirstItem(t, From, q).next].zeros)
  BY Zenon DEF Items, FirstItem

LEMMA ItemsEnd ==
    ASSUME NEW t, NEW From, NEW q, From[q] = Items(t, From, q),
           NEW s, FirstNonWhitespace(t, q) = s, t[s] = ")"
    PROVE  From[q] = Outcome("closed", <<>>, s, {})
  BY Zenon DEF Items

LEMMA PartObject ==
    ASSUME NEW t \in Text, NEW list \in List, ListIsSafe(list), NEW pos, Stands(t, list, pos),
           NEW From, NEW q, From[q] = Items(t, From, q),
           NEW i \in 1..Len(list), Rise(list[i]) = 0, FirstNonWhitespace(t, q) = pos[i],
           NEW k \in i + 1..Len(list) + 1,
           \A y \in 1..Len(t) + 1 : FirstNonWhitespace(t, y) = pos[i + 1] =>
               ReadsPart(t, From, list, pos, i + 1, k, y)
    PROVE  ReadsPart(t, From, list, pos, i, k, q)
  <1> DEFINE o == list[i]
             s == pos[i]
             last == pos[k]
  <1>1. /\ list \in Seq(Object) /\ Len(list) \in Nat /\ o \in Object /\ ObjectIsSafe(o)
        /\ i + 1 \in 1..Len(list) + 1 /\ k - 1 \in i..Len(list) /\ Len(t) \in Nat
        /\ i \in 1..Len(list) + 1 /\ k \in 1..Len(list) + 1 /\ k \in Nat
    BY WholeList, TextLength DEF ListIsSafe
  <1>2. /\ s \in 1..Len(t) /\ pos[i + 1] \in 1..Len(t) /\ last \in 1..Len(t)
        /\ Holds(t, s, Piece(o)) /\ pos[i + 1] = s + Len(Piece(o))
        /\ t[pos[i + 1]] # Space
    BY <1>1 DEF Stands
  <1> HIDE DEF o, s
  <1>3. PICK e \in s..Len(t) :
            /\ e + 1 = s + Len(Piece(o)) /\ t[e] = Space
            /\ t[s] # ")"
            /\ \A inner : IsReading(t, s, e, o, ReadListElement(t, s, inner))
    <2>1. s \in Nat /\ Rise(o) = 0
      BY <1>2 DEF o
    <2>. QED  BY <1>1, <1>2, <2>1, PieceRead
  <1>4. PICK next \in {e, e + 1} : \E Z \in SUBSET (s..e) :
            ReadListElement(t, s, From[s + 1]) = Outcome("read", <<o>>, next, Z)
    BY <1>3 DEF IsReading
  <1>5. PICK Y \in SUBSET (s..e) :
            ReadListElement(t, s, From[s + 1]) = Outcome("read", <<o>>, next, Y)
    BY <1>4
  <1>6. e \in 1..Len(t) /\ e + 1 = pos[i + 1] /\ e + 1 \in 1..Len(t)
    BY <1>1, <1>2, <1>3
  <1>7. FirstNonWhitespace(t, next) = pos[i + 1] /\ next \in 1..Len(t) + 1
    <2>1. FirstNonWhitespace(t, e) = e + 1
      BY <1>2, <1>3, <1>6, Skipping
    <2>2. FirstNonWhitespace(t, e + 1) = e + 1
      <3>1. PICK j \in 1..Len(t) : j = e + 1
        BY <1>6
      <3>2. t[j] # Space
        BY <1>2, <1>6, <3>1
      <3>3. FirstNonWhitespace(t, j) = j
        BY <3>2, Skipping
      <3>. QED  BY <3>1, <3>3
    <2>. QED  BY <1>1, <1>4, <1>6, <2>1, <2>2
  <1>8. ReadsPart(t, From, list, pos, i + 1, k, next)
    BY <1>7
  <1>9. PICK Z \in SUBSET (pos[i + 1]..last - 1) :
            From[next] = Outcome("closed", SubSeq(list, i + 1, k - 1), last, Z)
    BY <1>8 DEF ReadsPart
  <1>10. From[q] = Outcome("closed", <<o>> \o SubSeq(list, i + 1, k - 1), last, Y \union Z)
    <2> DEFINE items == <<o>>
               rest == SubSeq(list, i + 1, k - 1)
    <2> DEFINE one == FirstItem(t, From, q)
               other == From[one.next]
    <2>1. one = ReadListElement(t, s, From[s + 1])
      BY DEF FirstItem, s
    <2>5. FirstNonWhitespace(t, q) = s /\ Within(t, s) /\ t[s] # ")"
      BY <1>2, <1>3 DEF s, Within
    <2>6. one.how = "read" => From[q] = Outcome(other.how, one.items \o other.items, other.next,
                                                one.zeros \union other.zeros)
      BY <2>5, ItemsStep
    <2> HIDE DEF one
    <2> HIDE DEF items, rest, last
    <2>3. one.how = "read" /\ one.items = items /\ one.next = next /\ one.zeros = Y
      BY <1>5, <2>1 DEF Outcome, items
    <2>4. other.how = "closed" /\ other.items = rest /\ other.next = last /\ other.zeros = Z
      BY <1>9, <2>3 DEF Outcome, rest
    <2>. QED  BY <2>3, <2>4, <2>6 DEF items, rest
  <1>11. SubSeq(list, i, k - 1) = <<o>> \o SubSeq(list, i + 1, k - 1)
    <2>1. PICK m \in i..Len(list) : m = k - 1
      BY <1>1
    <2>2. SubSeq(list, i, m) = <<list[i]>> \o SubSeq(list, i + 1, m)
      BY <1>1, SubSeqRecursiveFirst
    <2>. QED  BY <2>1, <2>2 DEF o
  <1>12. s <= last /\ Y \union Z \in SUBSET (s..last - 1)
    <2>1. pos[i + 1] <= last
      BY <1>8 DEF ReadsPart
    <2> HIDE DEF last
    <2>2. e <= last - 1 /\ s <= e /\ s <= pos[i + 1]
      BY <1>2, <1>3, <1>6, <2>1
    <2>. QED  BY <1>2, <1>6, <2>1, <2>2
  <1>. QED  BY <1>10, <1>11, <1>12 DEF ReadsPart, s


LEMMA PartNested ==
    ASSUME NEW t \in Text, NEW list \in List, NEW pos, Stands(t, list, pos),
           NEW From, NEW q, From[q] = Items(t, From, q),
           NEW i \in 1..Len(list), list[i].type = "[", FirstNonWhitespace(t, q) = pos[i],
           NEW m \in i + 1..Len(list), list[m].type = "]",
           NEW k \in m + 1..Len(list) + 1,
           \A y \in 1..Len(t) + 1 : FirstNonWhitespace(t, y) = pos[i + 1] =>
               ReadsPart(t, From, list, pos, i + 1, m, y),
           \A y \in 1..Len(t) + 1 : FirstNonWhitespace(t, y) = pos[m + 1] =>
               ReadsPart(t, From, list, pos, m + 1, k, y)
    PROVE  ReadsPart(t, From, list, pos, i, k, q)
  <1> DEFINE s == pos[i]
             c == pos[m]
             last == pos[k]
             middle == SubSeq(list, i + 1, m - 1)
             rest == SubSeq(list, m + 1, k - 1)
  <1>1. /\ list \in Seq(Object) /\ Len(list) \in Nat /\ list[i] \in Object /\ list[m] \in Object
        /\ i + 1 \in 1..Len(list) + 1 /\ Len(t) \in Nat /\ m \in 1..Len(list)
        /\ i \in 1..Len(list) + 1 /\ m \in 1..Len(list) + 1 /\ k \in 1..Len(list) + 1
        /\ m + 1 \in 1..Len(list) + 1
    BY WholeList, TextLength
  <1>2. /\ s \in 1..Len(t) /\ c \in 1..Len(t) /\ last \in 1..Len(t)
        /\ pos[i + 1] \in 1..Len(t) /\ pos[m + 1] \in 1..Len(t)
        /\ Holds(t, s, Piece(list[i])) /\ pos[i + 1] = s + Len(Piece(list[i]))
        /\ Holds(t, c, Piece(list[m])) /\ pos[m + 1] = c + Len(Piece(list[m]))
        /\ t[pos[i + 1]] # Space /\ t[pos[m + 1]] # Space
    BY <1>1 DEF Stands
  <1> HIDE DEF s, c, last
  <1>3. t[s] = "(" /\ pos[i + 1] = s + 1
    <2>1. s \in Nat /\ Holds(t, s, Piece(list[i]))
      BY <1>2
    <2>2. t[s] = "(" /\ Len(Piece(list[i])) = 1
      BY <1>1, <2>1, BracketRead
    <2>. QED  BY <1>2, <2>2
  <1>4. t[c] = ")" /\ pos[m + 1] = c + 2 /\ c + 1 \in 1..Len(t) /\ t[c + 1] = Space
    <2>1. c \in Nat /\ Holds(t, c, Piece(list[m]))
      BY <1>2
    <2>2. t[c] = ")" /\ Len(Piece(list[m])) = 2 /\ c + 1 \in 1..Len(t) /\ t[c + 1] = Space
      BY <1>1, <2>1, BracketRead
    <2>. QED  BY <1>2, <2>2
  <1>5. FirstNonWhitespace(t, s + 1) = pos[i + 1] /\ s + 1 \in 1..Len(t) + 1
    <2>1. PICK j \in 1..Len(t) : j = s + 1
      BY <1>2, <1>3
    <2>2. FirstNonWhitespace(t, j) = j
      BY <1>2, <1>3, <2>1, Skipping
    <2>. QED  BY <1>1, <1>3, <2>1, <2>2
  <1>6. FirstNonWhitespace(t, c + 1) = pos[m + 1] /\ c + 1 \in 1..Len(t) + 1
    <2>1. PICK j \in 1..Len(t) : j = c + 1
      BY <1>4
    <2>2. j + 1 = pos[m + 1]
      BY <1>2, <1>4, <2>1
    <2>3. FirstNonWhitespace(t, j) = j + 1
      BY <1>2, <1>4, <2>1, <2>2, Skipping
    <2>. QED  BY <1>1, <2>1, <2>2, <2>3
  <1>7. ReadsPart(t, From, list, pos, i + 1, m, s + 1)
    BY <1>5
  <1>8. ReadsPart(t, From, list, pos, m + 1, k, c + 1)
    BY <1>6
  <1>9. PICK Y \in SUBSET (pos[i + 1]..c - 1) : From[s + 1] = Outcome("closed", middle, c, Y)
    BY <1>7 DEF ReadsPart, c
  <1>10. PICK Z \in SUBSET (pos[m + 1]..last - 1) : From[c + 1] = Outcome("closed", rest, last, Z)
    BY <1>8 DEF ReadsPart, last
  <1> DEFINE a == <<MakeObject("[", <<>>)>>
             z == <<MakeObject("]", <<>>)>>
  <1> HIDE DEF middle, rest
  <1>11. ReadListElement(t, s, From[s + 1]) = Outcome("read", a \o middle \o z, c + 1, Y)
    <2>1. PICK inner : inner = From[s + 1]
      OBVIOUS
    <2>2. inner.how = "closed" /\ inner.items = middle /\ inner.next = c /\ inner.zeros = Y
      BY <1>9, <2>1 DEF Outcome
    <2>3. Within(t, c)
      BY <1>2 DEF Within
    <2> HIDE DEF a, z
    <2>4. NestedList(t, s, inner) = Outcome("read", a \o middle \o z, c + 1, Y)
      BY <2>2, <2>3 DEF NestedList, a, z
    <2>5. ReadListElement(t, s, inner) = NestedList(t, s, inner)
      <3>1. t[s] # Quote /\ t[s] # "<" /\ t[s] = "(" /\ t[s] \notin Number /\ t[s] \notin Upper
        BY <1>3, Tokens DEF Word
      <3>. QED  BY <3>1 DEF ReadListElement
    <2>. QED  BY <2>1, <2>4, <2>5
  <1>12. From[q] = Outcome("closed", (a \o middle \o z) \o rest, last, Y \union Z)
    <2> DEFINE items == a \o middle \o z
    <2> DEFINE one == FirstItem(t, From, q)
               other == From[one.next]
    <2>1. one = ReadListElement(t, s, From[s + 1])
      BY DEF FirstItem, s
    <2>5. FirstNonWhitespace(t, q) = s /\ Within(t, s) /\ t[s] # ")"
      BY <1>2, <1>3 DEF s, Within
    <2>6. one.how = "read" => From[q] = Outcome(other.how, one.items \o other.items, other.next,
                                                one.zeros \union other.zeros)
      BY <2>5, ItemsStep
    <2> HIDE DEF one
    <2> HIDE DEF items
    <2>3. one.how = "read" /\ one.items = items /\ one.next = c + 1 /\ one.zeros = Y
      BY <1>11, <2>1 DEF Outcome, items
    <2>4. other.how = "closed" /\ other.items = rest /\ other.next = last /\ other.zeros = Z
      BY <1>10, <2>3 DEF Outcome
    <2>. QED  BY <2>3, <2>4, <2>6 DEF items
  <1>13. (a \o middle \o z) \o rest = SubSeq(list, i, k - 1)
    <2>1. PICK j \in m..Len(list) : j = k - 1
      BY <1>1
    <2>2. PICK l \in i..Len(list) : l = m - 1
      BY <1>1
    <2>3. list[i] = MakeObject("[", <<>>) /\ list[m] = MakeObject("]", <<>>)
      BY <1>1, ObjectTypes
    <2>4. SubSeq(list, i, m) = SubSeq(list, i, l) \o <<list[m]>>
      BY <1>1, <2>2, SubSeqRecursiveSecond
    <2>5. SubSeq(list, i, l) = <<list[i]>> \o SubSeq(list, i + 1, l)
      BY <1>1, SubSeqRecursiveFirst
    <2>6. SubSeq(list, i, m) \o SubSeq(list, m + 1, j) = SubSeq(list, i, j)
      <3>1. m \in i - 1..Len(list) /\ i \in 1..Len(list) + 1
        BY <1>1
      <3>. QED  BY <1>1, <3>1, ConcatAdjacentSubSeq
    <2>7. SubSeq(list, i, m) = (a \o middle) \o z
      BY <2>2, <2>3, <2>4, <2>5 DEF middle
    <2> HIDE DEF a, z
    <2>. QED  BY <2>1, <2>6, <2>7 DEF rest
  <1>14. s <= last /\ Y \union Z \in SUBSET (s..last - 1)
    <2>1. pos[i + 1] <= c
      BY <1>7 DEF ReadsPart, c
    <2>2. pos[m + 1] <= last
      BY <1>8 DEF ReadsPart, last
    <2>3. s \in Int /\ c \in Int /\ last \in Int
      BY <1>2
    <2>4. s + 1 <= c /\ c + 2 <= last
      BY <1>3, <1>4, <2>1, <2>2
    <2>5. Y \in SUBSET (s + 1..c - 1) /\ Z \in SUBSET (c + 2..last - 1)
      BY <1>3, <1>4
    <2>6. (s + 1..c - 1) \subseteq (s..last - 1) /\ (c + 2..last - 1) \subseteq (s..last - 1)
      BY <2>3, <2>4
    <2>7. s <= last
      BY <2>3, <2>4
    <2>. QED  BY <2>5, <2>6, <2>7
  <1>. QED  BY <1>12, <1>13, <1>14 DEF ReadsPart, s, last

LEMMA PartEmpty ==
    ASSUME NEW t \in Text, NEW list \in List, NEW pos, NEW From, NEW q,
           From[q] = Items(t, From, q),
           NEW i \in 1..Len(list) + 1, FirstNonWhitespace(t, q) = pos[i],
           pos[i] \in 1..Len(t), t[pos[i]] = ")"
    PROVE  ReadsPart(t, From, list, pos, i, i, q)
  <1>1. From[q] = Outcome("closed", <<>>, pos[i], {})
    BY ItemsEnd
  <1>2. SubSeq(list, i, i - 1) = <<>>
    BY WholeList, SubSeqEmpty
  <1>3. {} \in SUBSET (pos[i]..pos[i] - 1) /\ pos[i] <= pos[i]
    OBVIOUS
  <1>. QED  BY <1>1, <1>2, <1>3 DEF ReadsPart


LEMMA ItemsRead ==
    ASSUME NEW t \in Text, NEW list \in List, ListIsSafe(list), NEW pos, Stands(t, list, pos)
    PROVE  \E Z \in SUBSET (pos[1]..pos[Len(list) + 1] - 1) :
               ReadList(t, pos[1]) = Outcome("closed", list, pos[Len(list) + 1], Z)
  <1> DEFINE n == Len(list)
             N == n + 1
  <1>1. /\ n \in Nat /\ N \in Nat /\ list \in Seq(Object) /\ Len(t) \in Nat
        /\ 1 \in 1..N /\ N \in 1..N /\ N - 1 = n
    BY WholeList, TextLength
  <1>2. /\ \A i \in 1..N : pos[i] \in 1..Len(t) /\ t[pos[i]] # Space
        /\ t[pos[N]] = ")"
        /\ \A i \in 1..n : Holds(t, pos[i], Piece(list[i]))
    BY DEF Stands
  <1>3. PICK From \in [1..Len(t) + 1 -> ListReading(t)] :
            \A q \in 1..Len(t) + 1 : From[q] = Items(t, From, q) /\ ReadList(t, q) = From[q]
    BY ItemsFrom
  <1> DEFINE Reads(i, k) == \A q \in 1..Len(t) + 1 : FirstNonWhitespace(t, q) = pos[i] =>
                                ReadsPart(t, From, list, pos, i, k, q)
             T == {i \in 1..N : \A k \in 1..N : Encloses(list, i, k) => Reads(i, k)}
  <1>4. ASSUME NEW i \in 1..N, \A j \in 1..N : i < j => j \in T
        PROVE  i \in T
    <2>1. SUFFICES ASSUME NEW k \in 1..N, Encloses(list, i, k),
                          NEW q \in 1..Len(t) + 1, FirstNonWhitespace(t, q) = pos[i]
                   PROVE  ReadsPart(t, From, list, pos, i, k, q)
      OBVIOUS
    <2>2. From[q] = Items(t, From, q)
      BY <1>3
    <2>3. ASSUME NEW j \in 1..N, i < j, NEW l \in 1..N, Encloses(list, j, l) PROVE Reads(j, l)
      BY <1>4, <2>3
    <2>4. CASE k = i
      <3>1. t[pos[i]] = ")"
        <4>1. CASE i = N
          BY <1>2, <4>1
        <4>2. CASE i # N
          <5>1. i \in 1..n
            BY <1>1, <4>2
          <5>2. list[i].type = "]" /\ list[i] \in Object
            BY <2>1, <2>4, <5>1, EnclosedAt, WholeList
          <5>3. pos[i] \in Nat /\ Holds(t, pos[i], Piece(list[i]))
            BY <1>2, <5>1
          <5>. QED  BY <5>2, <5>3, BracketRead
        <4>. QED  BY <4>1, <4>2
      <3>2. ReadsPart(t, From, list, pos, i, i, q)
        BY <1>2, <2>1, <2>2, <3>1, PartEmpty
      <3>. QED  BY <2>4, <3>2
    <2>5. CASE k # i
      <3>1. i \in 1..n /\ k \in i + 1..N /\ i + 1 \in 1..N /\ i < i + 1
        <4>1. k \in i..N
          BY <2>1 DEF Encloses
        <4>. QED  BY <1>1, <2>5, <4>1
      <3>2. Rise(list[i]) # -1 /\ list[i] \in Object
        BY <2>1, <2>5, <3>1, EnclosedAt, WholeList
      <3>3. CASE Rise(list[i]) = 0
        <4>1. Encloses(list, i + 1, k)
          BY <2>1, <2>5, <3>1, <3>3, EnclosedAt
        <4>2. Reads(i + 1, k)
          BY <2>3, <3>1, <4>1
        <4>. QED  BY <2>1, <2>2, <3>1, <3>3, <4>2, PartObject
      <3>4. CASE Rise(list[i]) # 0
        <4>1. list[i].type = "["
          BY <3>2, <3>4 DEF Rise
        <4>2. PICK m \in i + 1..n : /\ m < k /\ list[m].type = "]"
                                    /\ Encloses(list, i + 1, m)
                                    /\ Encloses(list, m + 1, k)
          BY <2>1, <2>5, <3>1, <4>1, ClosingBracket
        <4>3. m \in 1..N /\ m + 1 \in 1..N /\ i < m + 1 /\ k \in m + 1..N
          BY <1>1, <3>1, <4>2
        <4>4. Reads(i + 1, m) /\ Reads(m + 1, k)
          BY <2>3, <3>1, <4>2, <4>3
        <4>. QED  BY <2>1, <2>2, <3>1, <4>1, <4>2, <4>3, <4>4, PartNested
      <3>. QED  BY <3>3, <3>4
    <2>. QED  BY <2>4, <2>5
  <1> HIDE DEF T
  <1>5. 1..N \subseteq T
    <2> HIDE DEF N
    <2>. QED  BY <1>1, <1>4, DownwardInduction
  <1>6. Reads(1, N)
    <2>1. 1 \in T /\ Encloses(list, 1, N)
      BY <1>1, <1>5, WholeList
    <2>. QED  BY <1>1, <2>1 DEF T
  <1>7. pos[1] \in 1..Len(t) + 1 /\ FirstNonWhitespace(t, pos[1]) = pos[1]
    <2>1. pos[1] \in 1..Len(t) /\ t[pos[1]] # Space
      BY <1>1, <1>2
    <2>. QED  BY <1>1, <2>1, Skipping
  <1>8. ReadsPart(t, From, list, pos, 1, N, pos[1])
    BY <1>6, <1>7
  <1>9. SubSeq(list, 1, N - 1) = list
    BY <1>1, SubSeqFull
  <1>. QED  BY <1>3, <1>7, <1>8, <1>9 DEF ReadsPart

LEMMA PiecesText ==
    ASSUME NEW list \in List
    PROVE  /\ Pieces(list) \in Seq(Text) /\ Len(Pieces(list)) = Len(list)
           /\ \A i \in 1..Len(list) : Pieces(list)[i] = Piece(list[i])
           /\ FlattenSeq(Pieces(list)) \in Text
           /\ ListAsString(list) = (<<"(">> \o FlattenSeq(Pieces(list))) \o <<")">>
           /\ ListAsString(list) \in Text
           /\ Len(ListAsString(list)) = Len(FlattenSeq(Pieces(list))) + 2
  <1> DEFINE n == Len(list)
             ss == Pieces(list)
  <1>1. n \in Nat /\ DOMAIN list = 1..n /\ \A i \in 1..n : list[i] \in Object
    BY WholeList
  <1>2. \A i \in 1..n : Piece(list[i]) \in Text
    BY <1>1, PieceText
  <1>3. ss \in [1..n -> Text] /\ \A i \in 1..n : ss[i] = Piece(list[i])
    BY <1>1, <1>2 DEF Pieces
  <1> HIDE DEF n, ss
  <1>4. ss \in Seq(Text) /\ Len(ss) = n
    BY <1>1, <1>3, SeqDef
  <1>5. FlattenSeq(ss) \in Text
    <2>1. ss \in Seq(Seq(Token))
      BY <1>4 DEF Text, Token
    <2>. QED  BY <2>1, FlattenTyped DEF Text, Token
  <1>6. ListAsString(list) = (<<"(">> \o FlattenSeq(ss)) \o <<")">>
    BY DEF ListAsString, ss, Pieces, Piece
  <1> DEFINE w == FlattenSeq(ss)
             a == <<"(">>
             z == <<")">>
  <1>7. a \in Text /\ z \in Text /\ Len(a) = 1 /\ Len(z) = 1
    <2>1. "(" \in Token /\ ")" \in Token
      BY Tokens
    <2>. QED  BY <2>1, OneToken
  <1> HIDE DEF w, a, z
  <1>8. (a \o w) \o z \in Text /\ Len((a \o w) \o z) = Len(w) + 2
    <2>1. w \in Text /\ Len(w) \in Nat
      BY <1>5, TextLength DEF w
    <2>2. a \o w \in Text /\ Len(a \o w) = 1 + Len(w)
      BY <1>7, <2>1, Joined
    <2>3. (a \o w) \o z \in Text /\ Len((a \o w) \o z) = Len(a \o w) + 1
      BY <1>7, <2>2, Joined
    <2>. QED  BY <2>1, <2>2, <2>3
  <1>. QED  BY <1>3, <1>4, <1>5, <1>6, <1>8 DEF n, ss, w, a, z


\* mbus_list_read gives back each list of safe objects from the text that
\* mbus_list_as_string made of it, with the lists within it, to the bracket
\* that closes it; the zeros that are written into the text stay within the
\* list.
THEOREM ListRoundTrip ==
    ASSUME NEW t \in Text, NEW list \in List, ListIsSafe(list), NEW p \in Nat,
           Holds(t, p, ListAsString(list)),
           NEW e, e = p + Len(ListAsString(list)) - 1
    PROVE  /\ p \in 1..Len(t) /\ t[p] = "(" /\ e \in p + 1..Len(t) /\ t[e] = ")"
           /\ \E Z \in SUBSET (p..e - 1) :
                  ReadList(t, p + 1) = Outcome("closed", list, e, Z)
  <1> DEFINE n == Len(list)
             ss == Pieces(list)
             w == FlattenSeq(ss)
             len == Len(w)
             a == "("
             z == ")"
  <1>1. /\ w \in Text /\ len \in Nat /\ Len(t) \in Nat /\ a \in Token /\ z \in Token
        /\ Holds(t, p, (<<a>> \o w) \o <<z>>)
        /\ Len(ListAsString(list)) = len + 2
    BY PiecesText, Tokens, TextLength
  <1> HIDE DEF w, a, z
  <1>2. /\ p \in 1..Len(t) /\ t[p] = a /\ Holds(t, p + 1, w)
        /\ (p + 1) + len \in 1..Len(t) /\ t[(p + 1) + len] = z
    BY <1>1, EnclosedHolds
  <1> HIDE DEF len
  <1>3. e = (p + 1) + len
    BY <1>1
  <1>4. PICK q \in Nat : q = p + 1
    OBVIOUS
  <1>5. ss \in Seq(Text) /\ Len(ss) = n /\ \A i \in 1..n : ss[i] = Piece(list[i])
    BY PiecesText
  <1> HIDE DEF ss, n
  <1>6. PICK pos \in [1..n + 1 -> Nat] :
            Places(t, ss, q, pos) /\ pos[n + 1] = q + len
    BY <1>1, <1>2, <1>4, <1>5, FlattenHolds DEF w, len
  <1>7. /\ n \in Nat /\ \A i \in 1..n : list[i] \in Object /\ ObjectIsSafe(list[i])
        /\ \A i \in 1..n : i \in 1..n + 1 /\ i + 1 \in 1..n + 1
    BY WholeList DEF n, ListIsSafe
  <1>8. /\ pos[1] = q
        /\ \A i \in 1..n : Holds(t, pos[i], Piece(list[i]))
                           /\ pos[i + 1] = pos[i] + Len(Piece(list[i]))
        /\ pos[n + 1] = e
    BY <1>3, <1>4, <1>5, <1>6 DEF Places
  <1>9. \A i \in 1..n : pos[i] \in 1..Len(t) /\ t[pos[i]] # Space
    <2>1. SUFFICES ASSUME NEW i \in 1..n PROVE pos[i] \in 1..Len(t) /\ t[pos[i]] # Space
      OBVIOUS
    <2>2. /\ pos[i] \in Nat /\ Holds(t, pos[i], Piece(list[i])) /\ list[i] \in Object
          /\ ObjectIsSafe(list[i])
      BY <1>6, <1>7, <1>8
    <2>3. Space \in Blank /\ Space # "(" /\ Space # ")"
      BY Tokens
    <2>4. CASE Rise(list[i]) = 0
      <3>1. pos[i] \in 1..Len(t) /\ t[pos[i]] \notin Blank
        BY <2>2, <2>4, PieceRead
      <3>. QED  BY <2>3, <3>1
    <2>5. CASE Rise(list[i]) # 0
      <3>1. list[i].type = "[" \/ list[i].type = "]"
        BY <2>5 DEF Rise
      <3>2. pos[i] \in 1..Len(t) /\ (t[pos[i]] = "(" \/ t[pos[i]] = ")")
        BY <2>2, <3>1, BracketRead
      <3>. QED  BY <2>3, <3>2
    <2>. QED  BY <2>4, <2>5
  <1>10. e \in 1..Len(t) /\ t[e] = ")" /\ t[e] # Space
    <2>1. Space # ")"
      BY Tokens
    <2>. QED  BY <1>2, <1>3, <2>1 DEF z
  <1>11. \A i \in 1..n + 1 : pos[i] \in 1..Len(t) /\ t[pos[i]] # Space
    <2>1. \A i \in 1..n + 1 : i \in 1..n \/ i = n + 1
      BY <1>7
    <2>. QED  BY <1>8, <1>9, <1>10, <2>1
  <1>12. Stands(t, list, pos)
    <2>1. pos \in [1..n + 1 -> 1..Len(t)]
      BY <1>11
    <2>2. t[pos[n + 1]] = ")"
      BY <1>8, <1>10
    <2>. QED  BY <1>8, <1>11, <2>1, <2>2 DEF Stands, n
  <1>13. PICK Z \in SUBSET (pos[1]..pos[n + 1] - 1) :
             ReadList(t, pos[1]) = Outcome("closed", list, pos[n + 1], Z)
    BY <1>12, ItemsRead DEF n
  <1>14. Z \in SUBSET (p..e - 1) /\ ReadList(t, p + 1) = Outcome("closed", list, e, Z)
    <2>1. Z \in SUBSET (q..e - 1) /\ ReadList(t, q) = Outcome("closed", list, e, Z)
      BY <1>8, <1>13
    <2>2. \A x \in q..e - 1 : x \in p..e - 1
      BY <1>4, <1>10
    <2>. QED  BY <1>4, <2>1, <2>2
  <1>15. e \in p + 1..Len(t)
    BY <1>1, <1>3, <1>10
  <1>. QED  BY <1>2, <1>10, <1>14, <1>15 DEF a


(***************************************************************************)
(* Commands.                                                               *)
(***************************************************************************)
CommandReading(t, q) ==
    [command : Command, broken : BOOLEAN, zeros : SUBSET (1..Len(t)), next : q..Len(t) + 1]

LEMMA ReadCommandTyped ==
    ASSUME NEW t \in Text, NEW q \in 1..Len(t) + 1
    PROVE  ReadCommand(t, q) \in CommandReading(t, q)
  <1> DEFINE n == Beyond(t, q, Word)
             s == FirstNonWhitespace(t, n)
             none == Outcome("failed", <<>>, s, {})
             cmd == SubSeq(t, q, n - 1)
  <1>1. Len(t) \in Nat /\ n \in q..Len(t) + 1 /\ n \in 1..Len(t) + 1
        /\ \A i \in q..n - 1 : t[i] \in Word
    BY BeyondIs, TextLength
  <1>2. cmd \in Seq(Word)
    <2>1. q \in Int /\ n - 1 \in Int
      BY <1>1
    <2> HIDE DEF n
    <2>. QED  BY <1>1, <2>1, SubSeqProperties
  <1> HIDE DEF n, cmd
  <1>3. s \in n..Len(t) + 1
    BY <1>1, BeyondIs DEF FirstNonWhitespace
  <1> HIDE DEF s
  <1>4. ASSUME NEW list, list.items \in List, list.zeros \in SUBSET (1..Len(t)),
               list.how = "closed" => list.next \in s + 1..Len(t) + 1
        PROVE  MakeCommand(t, q, n, s, list) \in CommandReading(t, q)
    <2> DEFINE taken == n + (list.next - s + 1)
               command == [cmd |-> cmd, arguments |-> list.items]
               broken == list.how = "broken"
               next == IF list.how = "closed" /\ taken <= Len(t) + 1 THEN taken ELSE n
    <2>1. command \in Command
      BY <1>2, <1>4 DEF Command
    <2>2. broken \in BOOLEAN
      OBVIOUS
    <2>3. next \in q..Len(t) + 1
      <3>1. list.how = "closed" => taken \in Nat /\ taken >= q
        BY <1>1, <1>3, <1>4
      <3> HIDE DEF taken
      <3>. QED  BY <1>1, <3>1
    <2>4. MakeCommand(t, q, n, s, list) =
            [command |-> command, broken |-> broken, zeros |-> list.zeros, next |-> next]
      BY DEF MakeCommand, cmd
    <2> HIDE DEF command, broken, next
    <2>. QED  BY <1>4, <2>1, <2>2, <2>3, <2>4 DEF CommandReading
  <1>5. CASE Within(t, s) /\ t[s] = "("
    <2>1. s + 1 \in 1..Len(t) + 1
      BY <1>1, <1>3, <1>5 DEF Within
    <2>2. PICK From \in [1..Len(t) + 1 -> ListReading(t)] :
              \A y \in 1..Len(t) + 1 : From[y].next >= y /\ ReadList(t, y) = From[y]
      BY ItemsFrom
    <2> DEFINE list == From[s + 1]
    <2>3. /\ list \in ListReading(t) /\ list.next >= s + 1 /\ ReadList(t, s + 1) = list
      BY <2>1, <2>2
    <2> HIDE DEF list
    <2>4. /\ list.items \in List /\ list.zeros \in SUBSET (1..Len(t))
          /\ list.next \in s + 1..Len(t) + 1
      BY <1>1, <1>3, <2>3 DEF ListReading
    <2>5. ReadCommand(t, q) = MakeCommand(t, q, n, s, list)
      BY <1>5, <2>3, Zenon DEF ReadCommand, n, s
    <2>. QED  BY <1>4, <2>4, <2>5
  <1>6. CASE ~(Within(t, s) /\ t[s] = "(")
    <2>1. none.items \in List /\ none.zeros \in SUBSET (1..Len(t)) /\ none.how # "closed"
      BY EmptyList DEF Outcome
    <2>2. ReadCommand(t, q) = MakeCommand(t, q, n, s, none)
      BY <1>6, Zenon DEF ReadCommand, n, s
    <2> HIDE DEF none
    <2>. QED  BY <1>4, <2>1, <2>2
  <1>. QED  BY <1>5, <1>6

LEMMA CommandText ==
    ASSUME NEW c \in Command
    PROVE  /\ c.cmd \in Text /\ c.arguments \in List /\ Len(c.cmd) \in Nat
           /\ c = [cmd |-> c.cmd, arguments |-> c.arguments]
           /\ CommandAsString(c) \in Text
           /\ Len(CommandAsString(c)) = Len(c.cmd) + Len(ListAsString(c.arguments))
           /\ Len(CommandAsString(c)) \in Nat /\ Len(CommandAsString(c)) >= 2
  <1>1. c.cmd \in Seq(Word) /\ c.arguments \in List
        /\ c = [cmd |-> c.cmd, arguments |-> c.arguments]
    BY DEF Command
  <1>2. c.cmd \in Text
    <2>1. \A w \in Seq(Word) : w \in Seq(Mark \union Word)
      OBVIOUS
    <2>. QED  BY <1>1, <2>1 DEF Text
  <1> DEFINE u == c.cmd
             v == ListAsString(c.arguments)
  <1>3. v \in Text /\ Len(v) >= 2 /\ Len(v) \in Nat
    <2>1. v \in Text /\ Len(v) = Len(FlattenSeq(Pieces(c.arguments))) + 2
          /\ FlattenSeq(Pieces(c.arguments)) \in Text
      BY <1>1, PiecesText
    <2>. QED  BY <2>1, TextLength
  <1> HIDE DEF u, v
  <1>4. u \o v \in Text /\ Len(u \o v) = Len(u) + Len(v) /\ Len(u) \in Nat
    BY <1>2, <1>3, Joined, TextLength DEF u
  <1>5. CommandAsString(c) = u \o v
    BY DEF CommandAsString, u, v
  <1>6. Len(u \o v) \in Nat /\ Len(u \o v) >= 2
    BY <1>3, <1>4
  <1>. QED  BY <1>1, <1>2, <1>4, <1>5, <1>6 DEF u, v

LEMMA CommandRead ==
    ASSUME NEW t \in Text, NEW q \in Nat, NEW c \in Command, ListIsSafe(c.arguments),
           Holds(t, q, CommandAsString(c)),
           NEW e, e = q + Len(CommandAsString(c))
    PROVE  /\ q \in 1..Len(t) /\ e \in q + 2..Len(t) + 1 /\ t[q] # "\n"
           /\ \E Z \in SUBSET (q..e - 1) :
                  ReadCommand(t, q) =
                      [command |-> c, broken |-> FALSE, zeros |-> Z, next |-> e]
  <1> DEFINE u == c.cmd
             v == ListAsString(c.arguments)
             n == q + Len(u)
             last == n + Len(v) - 1
  <1>1. /\ u \in Text /\ c.arguments \in List /\ v \in Text
        /\ Len(u) \in Nat /\ Len(v) \in Nat /\ Len(t) \in Nat
        /\ Len(CommandAsString(c)) = Len(u) + Len(v)
        /\ u \in Seq(Word)
    BY CommandText, PiecesText, TextLength DEF Command
  <1>2. Holds(t, q, u \o v)
    BY DEF CommandAsString
  <1> HIDE DEF u, v
  <1>3. Holds(t, q, u) /\ Holds(t, n, v) /\ n \in Nat
    BY <1>1, <1>2, HoldsConcat
  <1>4. /\ n \in 1..Len(t) /\ t[n] = "(" /\ last \in n + 1..Len(t)
        /\ \E Z \in SUBSET (n..last - 1) :
               ReadList(t, n + 1) = Outcome("closed", c.arguments, last, Z)
    <2>1. last = n + Len(ListAsString(c.arguments)) - 1
      BY DEF v
    <2>2. Holds(t, n, ListAsString(c.arguments))
      BY <1>3 DEF v
    <2> HIDE DEF n, last
    <2>. QED  BY <1>1, <1>3, <2>1, <2>2, ListRoundTrip
  <1>5. e = last + 1 /\ e \in q + 2..Len(t) + 1 /\ q \in 1..Len(t) /\ n >= q
    <2>1. q # 0
      BY <1>3 DEF Holds
    <2>. QED  BY <1>1, <1>3, <1>4, <2>1
  <1>6. n \in q..Len(t) + 1 /\ n = q + Len(u)
    BY <1>1, <1>4, <1>5
  <1> HIDE DEF n, last
  <1>7. t[n] \notin Word /\ t[n] # Space
    BY <1>4, Tokens
  <1>8. \A i \in q..n - 1 : t[i] \in Word
    <2>1. SUFFICES ASSUME NEW i \in q..n - 1 PROVE t[i] \in Word
      OBVIOUS
    <2>2. i - q + 1 \in 1..Len(u) /\ q + (i - q + 1) - 1 = i
      BY <1>1, <1>6
    <2>3. t[i] = u[i - q + 1]
      BY <1>3, <2>2 DEF Holds
    <2>. QED  BY <1>1, <2>2, <2>3
  <1>9. Beyond(t, q, Word) = n
    <2>1. q \in 1..Len(t) + 1
      BY <1>1, <1>5
    <2> DEFINE S == Word
    <2>2. t[n] \notin S /\ \A i \in q..n - 1 : t[i] \in S
      BY <1>7, <1>8
    <2> HIDE DEF S
    <2>3. Beyond(t, q, S) = n
      BY <1>6, <2>1, <2>2, BeyondUnique
    <2>. QED  BY <2>3 DEF S
  <1>10. SubSeq(t, q, n - 1) = u
    <2>1. q \in 1..Len(t) + 1 /\ n - q = Len(u)
      BY <1>1, <1>5, <1>6
    <2>2. /\ SubSeq(t, q, n - 1) \in Text
          /\ Len(SubSeq(t, q, n - 1)) = Len(u)
          /\ \A i \in 1..Len(u) : SubSeq(t, q, n - 1)[i] = t[q + i - 1]
      BY <1>6, <2>1, Excerpt
    <2>3. \A i \in 1..Len(u) : u[i] = t[q + i - 1]
      BY <1>3 DEF Holds
    <2> DEFINE x == SubSeq(t, q, n - 1)
    <2> HIDE DEF x
    <2>. QED  BY <1>1, <2>2, <2>3, SeqEqual DEF x, Text
  <1>11. FirstNonWhitespace(t, n) = n
    BY <1>4, <1>7, Skipping
  <1>12. PICK Z \in SUBSET (n..last - 1) :
             ReadList(t, n + 1) = Outcome("closed", c.arguments, last, Z)
    BY <1>4
  <1> DEFINE list == Outcome("closed", c.arguments, last, Z)
  <1>13. ReadCommand(t, q) = MakeCommand(t, q, n, n, list)
    <2>1. Within(t, n)
      BY <1>4 DEF Within
    <2>. QED  BY <1>4, <1>9, <1>11, <1>12, <2>1, Zenon DEF ReadCommand
  <1>14. /\ list.how = "closed" /\ list.items = c.arguments /\ list.next = last
         /\ list.zeros = Z
    BY DEF Outcome
  <1> HIDE DEF list
  <1>15. MakeCommand(t, q, n, n, list) =
           [command |-> c, broken |-> FALSE, zeros |-> Z, next |-> e]
    <2>1. n + (last - n + 1) = e /\ e <= Len(t) + 1
      BY <1>1, <1>4, <1>5
    <2>2. [cmd |-> SubSeq(t, q, n - 1), arguments |-> list.items] = c
      BY <1>10, <1>14, CommandText DEF u
    <2>. QED  BY <1>14, <2>1, <2>2 DEF MakeCommand
  <1>16. Z \in SUBSET (q..e - 1)
    <2>1. n \in Nat /\ last \in Nat /\ e - 1 = last /\ n >= q
      BY <1>1, <1>4, <1>5
    <2>. QED  BY <2>1
  <1>17. t[q] # "\n"
    <2>1. CASE q = n
      BY <1>4, <2>1
    <2>2. CASE q # n
      <3>1. q \in q..n - 1
        BY <1>6, <2>2
      <3>2. "\n" \notin Word
        BY Tokens
      <3>. QED  BY <1>8, <3>1, <3>2
    <2>. QED  BY <2>1, <2>2
  <1>. QED  BY <1>5, <1>13, <1>15, <1>16, <1>17


(***************************************************************************)
(* Payloads.                                                               *)
(***************************************************************************)
PayloadReading == [payload : Seq(Command), broken : BOOLEAN]

LEMMA LinesTyped ==
    ASSUME NEW t \in Text, NEW q \in 1..Len(t) + 1, NEW From,
           \A y \in 1..Len(t) + 1 : q < y => From[y] \in PayloadReading
    PROVE  /\ Lines(t, From, q) \in PayloadReading
           /\ FindChar(t, ReadCommand(t, q).next, "\n") \in q..Len(t) + 1
  <1> DEFINE one == ReadCommand(t, q)
             nl == FindChar(t, one.next, "\n")
             rest == From[nl + 1]
             x == Lines(t, From, q)
  <1>1. one \in CommandReading(t, q) /\ Len(t) \in Nat
    BY ReadCommandTyped, TextLength
  <1>2. one.next \in q..Len(t) + 1 /\ one.command \in Command
    BY <1>1 DEF CommandReading
  <1>3. nl \in q..Len(t) + 1
    <2>1. one.next \in 1..Len(t) + 1
      BY <1>1, <1>2
    <2>2. nl \in one.next..Len(t) + 1
      BY <2>1, FirstInIs DEF FindChar
    <2> HIDE DEF nl, one
    <2>. QED  BY <1>1, <1>2, <2>2
  <1>4. \/ x = [payload |-> <<>>, broken |-> FALSE]
        \/ x = [payload |-> <<>>, broken |-> TRUE]
        \/ x = [payload |-> <<one.command>>, broken |-> FALSE]
        \/ /\ Within(t, nl)
           /\ x = [payload |-> <<one.command>> \o rest.payload,
                   broken  |-> rest.broken \/ \E z \in one.zeros : z > nl]
    BY DEF Lines
  <1> HIDE DEF x, one, nl
  <1>5. x \in PayloadReading
    <2>1. CASE \/ x = [payload |-> <<>>, broken |-> FALSE]
               \/ x = [payload |-> <<>>, broken |-> TRUE]
               \/ x = [payload |-> <<one.command>>, broken |-> FALSE]
      <3>1. <<one.command>> \in Seq(Command) /\ <<>> \in Seq(Command)
        BY <1>2
      <3>2. PICK l \in Seq(Command), b \in BOOLEAN : x = [payload |-> l, broken |-> b]
        BY <2>1, <3>1
      <3>. QED  BY <3>2 DEF PayloadReading
    <2>2. CASE /\ Within(t, nl)
               /\ x = [payload |-> <<one.command>> \o rest.payload,
                       broken  |-> rest.broken \/ \E z \in one.zeros : z > nl]
      <3>1. nl + 1 \in 1..Len(t) + 1 /\ q < nl + 1
        BY <1>1, <1>3, <2>2 DEF Within
      <3>2. rest \in PayloadReading
        BY <3>1
      <3> HIDE DEF rest
      <3>3. rest.payload \in Seq(Command) /\ rest.broken \in BOOLEAN
        BY <3>2 DEF PayloadReading
      <3> DEFINE b == rest.broken \/ \E z \in one.zeros : z > nl
                 l == <<one.command>> \o rest.payload
      <3>4. b \in BOOLEAN
        BY <3>3
      <3>5. l \in Seq(Command)
        <4>1. <<one.command>> \in Seq(Command)
          BY <1>2
        <4>. QED  BY <3>3, <4>1, ConcatProperties
      <3>6. x = [payload |-> l, broken |-> b]
        BY <2>2
      <3> HIDE DEF b, l
      <3>. QED  BY <3>4, <3>5, <3>6 DEF PayloadReading
    <2>. QED  BY <1>4, <2>1, <2>2
  <1>. QED  BY <1>3, <1>5 DEF x, nl, one

LEMMA LinesFrom ==
    ASSUME NEW t \in Text
    PROVE  \E From \in [1..Len(t) + 1 -> PayloadReading] :
               \A q \in 1..Len(t) + 1 : From[q] = Lines(t, From, q) /\ ReadPayload(t, q) = From[q]
  <1> DEFINE N == Len(t) + 1
             V == PayloadReading
             F == [g \in [1..N -> V] |-> [q \in 1..N |-> Lines(t, g, q)]]
             fl == CHOOSE f : f = [q \in 1..N |-> Lines(t, f, q)]
  <1>1. N \in Nat /\ 1 \in 1..N /\ Len(t) \in Nat
    BY TextLength
  <1>2. V # {}
    <2>1. [payload |-> <<>>, broken |-> FALSE] \in V
      BY DEF PayloadReading
    <2>. QED  BY <2>1
  <1>3. F \in [[1..N -> V] -> [1..N -> V]]
    <2>1. ASSUME NEW g \in [1..N -> V] PROVE [q \in 1..N |-> Lines(t, g, q)] \in [1..N -> V]
      BY <2>1, LinesTyped
    <2>. QED  BY <2>1
  <1>4. ASSUME NEW g \in [1..N -> V], NEW h \in [1..N -> V], NEW q \in 1..N,
               \A y \in 1..N : q < y => g[y] = h[y]
        PROVE  F[g][q] = F[h][q]
    <2> DEFINE nl == FindChar(t, ReadCommand(t, q).next, "\n")
    <2>1. nl \in q..Len(t) + 1
      BY LinesTyped
    <2>2. Within(t, nl) => nl + 1 \in 1..N /\ q < nl + 1
      BY <1>1, <2>1 DEF Within
    <2>3. Within(t, nl) => g[nl + 1] = h[nl + 1]
      BY <1>4, <2>2
    <2>4. Lines(t, g, q) = Lines(t, h, q)
      BY <2>3, Zenon DEF Lines
    <2>. QED  BY <2>4
  <1> HIDE DEF V, N
  <1>5. PICK f \in [1..N -> V] : IsFixedPoint(f, F)
    <2> HIDE DEF F
    <2>. QED  BY <1>1, <1>2, <1>3, <1>4, DownwardRecursion
  <1>6. f = [q \in 1..N |-> Lines(t, f, q)]
    BY <1>5 DEF IsFixedPoint
  <1>7. fl = [q \in 1..N |-> Lines(t, fl, q)]
    BY <1>6, Zenon
  <1>8. \A q \in 1..N : ReadPayload(t, q) = fl[q]
    BY Zenon DEF ReadPayload, N
  <1> HIDE DEF fl
  <1>9. \A q \in 1..N : fl[q] \in V
    <2> DEFINE T == {q \in 1..N : fl[q] \in V}
    <2>1. ASSUME NEW q \in 1..N, \A y \in 1..N : q < y => y \in T PROVE q \in T
      BY <1>7, <2>1, LinesTyped DEF N, V
    <2> HIDE DEF T
    <2>2. 1..N \subseteq T
      BY <1>1, <2>1, DownwardInduction
    <2>. QED  BY <2>2 DEF T
  <1>10. fl \in [1..N -> V]
    BY <1>7, <1>9
  <1>. QED  BY <1>7, <1>8, <1>10 DEF V, N

\* The lines of a payload.
Line(c) == CommandAsString(c) \o <<"\n">>
CommandLines(payload) == [i \in DOMAIN payload |-> Line(payload[i])]

LEMMA LineText ==
    ASSUME NEW c \in Command
    PROVE  /\ Line(c) \in Text /\ Len(Line(c)) = Len(CommandAsString(c)) + 1
           /\ \A t \in Text : \A p \in Nat : Holds(t, p, Line(c)) =>
                  /\ Holds(t, p, CommandAsString(c))
                  /\ p + Len(CommandAsString(c)) \in 1..Len(t)
                  /\ t[p + Len(CommandAsString(c))] = "\n"
  <1> DEFINE u == CommandAsString(c)
             v == <<"\n">>
  <1>1. u \in Text /\ Len(u) \in Nat /\ v \in Text /\ Len(v) = 1
    <2>1. "\n" \in Token
      BY Tokens
    <2>. QED  BY <2>1, CommandText, OneToken
  <1>2. Line(c) = u \o v
    BY DEF Line
  <1> HIDE DEF u, v
  <1>3. u \o v \in Text /\ Len(u \o v) = Len(u) + 1
    BY <1>1, Joined
  <1>4. ASSUME NEW t \in Text, NEW p \in Nat, Holds(t, p, u \o v)
        PROVE  Holds(t, p, u) /\ p + Len(u) \in 1..Len(t) /\ t[p + Len(u)] = "\n"
    <2>1. PICK e \in Nat : e = p + Len(u)
      BY <1>1
    <2>2. Holds(t, p, u) /\ Holds(t, e, v)
      BY <1>1, <1>4, <2>1, HoldsConcat
    <2>3. e \in 1..Len(t) /\ t[e] = "\n"
      BY <2>2, HoldsOne DEF v
    <2>. QED  BY <2>1, <2>2, <2>3
  <1>. QED  BY <1>2, <1>3, <1>4 DEF u

LEMMA LinesText ==
    ASSUME NEW payload \in Seq(Command)
    PROVE  /\ CommandLines(payload) \in Seq(Text) /\ Len(CommandLines(payload)) = Len(payload)
           /\ \A i \in 1..Len(payload) : CommandLines(payload)[i] = Line(payload[i])
           /\ FlattenSeq(CommandLines(payload)) \in Text
  <1> DEFINE n == Len(payload)
             ss == CommandLines(payload)
  <1>1. n \in Nat /\ DOMAIN payload = 1..n /\ \A i \in 1..n : payload[i] \in Command
    OBVIOUS
  <1>2. \A i \in 1..n : Line(payload[i]) \in Text
    BY <1>1, LineText
  <1>3. ss \in [1..n -> Text] /\ \A i \in 1..n : ss[i] = Line(payload[i])
    BY <1>1, <1>2 DEF CommandLines
  <1> HIDE DEF n, ss
  <1>4. ss \in Seq(Text) /\ Len(ss) = n
    BY <1>1, <1>3, SeqDef
  <1>5. FlattenSeq(ss) \in Text
    <2>1. ss \in Seq(Seq(Token))
      BY <1>4 DEF Text, Token
    <2>. QED  BY <2>1, FlattenTyped DEF Text, Token
  <1>. QED  BY <1>3, <1>4, <1>5 DEF n, ss

\* One line is read up to its end.
LEMMA LineRead ==
    ASSUME NEW t \in Text, NEW From, NEW q \in Nat, From[q] = Lines(t, From, q),
           NEW c \in Command, ListIsSafe(c.arguments), Holds(t, q, Line(c)),
           From[q + Len(Line(c))].broken = FALSE
    PROVE  From[q] = [payload |-> <<c>> \o From[q + Len(Line(c))].payload, broken |-> FALSE]
  <1> DEFINE y == q + Len(Line(c))
             l == From[y].payload
  <1>0. From[y].broken = FALSE /\ From[y].payload = l /\ y = q + Len(Line(c))
    OBVIOUS
  <1> HIDE DEF y, l
  <1>1. PICK e \in Nat : e = q + Len(CommandAsString(c))
    BY CommandText
  <1>2. /\ Holds(t, q, CommandAsString(c)) /\ e \in 1..Len(t) /\ t[e] = "\n"
        /\ y = e + 1 /\ Len(t) \in Nat
    BY <1>0, <1>1, LineText, CommandText, TextLength
  <1>3. /\ q \in 1..Len(t) /\ e \in q + 2..Len(t) + 1 /\ t[q] # "\n"
        /\ \E Z \in SUBSET (q..e - 1) :
               ReadCommand(t, q) = [command |-> c, broken |-> FALSE, zeros |-> Z, next |-> e]
    BY <1>1, <1>2, CommandRead
  <1>4. PICK Z \in SUBSET (q..e - 1) :
            ReadCommand(t, q) = [command |-> c, broken |-> FALSE, zeros |-> Z, next |-> e]
    BY <1>3
  <1> DEFINE one == ReadCommand(t, q)
             nl == FindChar(t, one.next, "\n")
             rest == From[nl + 1]
  <1>5. one.command = c /\ one.broken = FALSE /\ one.zeros = Z /\ one.next = e
    BY <1>4
  <1>6. nl = e
    <2>1. FirstIn(t, e, {"\n"}) = e
      <3> DEFINE S == {"\n"}
      <3>1. t[e] \in S /\ e \in 1..Len(t) + 1 /\ e \in e..Len(t) + 1 /\ \A i \in e..e - 1 : FALSE
        BY <1>2
      <3> HIDE DEF S
      <3>2. FirstIn(t, e, S) = e
        BY <3>1, FirstInUnique
      <3>. QED  BY <3>2 DEF S
    <2>. QED  BY <1>5, <2>1 DEF FindChar
  <1>7. Within(t, q) /\ t[q] # "\n" /\ q # Len(t) /\ Within(t, nl)
    BY <1>2, <1>3, <1>6 DEF Within
  <1> HIDE DEF one
  <1>8. one.zeros \cap (one.next..nl) = {} /\ ~\E z \in one.zeros : z > nl
    <2>1. e \in Nat /\ q \in Nat
      OBVIOUS
    <2>2. \A z \in Z : z < e /\ z \notin e..e /\ ~(z > e)
      BY <2>1
    <2> HIDE DEF nl
    <2>. QED  BY <1>5, <1>6, <2>2
  <1>9. rest.payload = l /\ rest.broken = FALSE
    BY <1>0, <1>2, <1>6
  <1> HIDE DEF nl, rest
  <1>10. Lines(t, From, q) = [payload |-> <<one.command>> \o rest.payload,
                             broken |-> rest.broken \/ \E z \in one.zeros : z > nl]
    BY <1>5, <1>7, <1>8, Zenon DEF Lines, one, nl, rest
  <1>. QED  BY <1>5, <1>8, <1>9, <1>10 DEF l, y

\* mbus_payload_read gives back the commands that mbus_payload_as_string wrote,
\* in their order, when the text ends behind them.
THEOREM PayloadRoundTrip ==
    ASSUME NEW t \in Text, NEW payload \in Seq(Command), PayloadIsSafe(payload),
           NEW p \in Nat, Holds(t, p, FlattenSeq(CommandLines(payload))),
           p + Len(FlattenSeq(CommandLines(payload))) = Len(t) + 1
    PROVE  ReadPayload(t, p) = [payload |-> payload, broken |-> FALSE]
  <1> DEFINE n == Len(payload)
             N == n + 1
             ss == CommandLines(payload)
  <1>1. /\ n \in Nat /\ N \in Nat /\ 1 \in 1..N /\ N \in 1..N /\ Len(t) \in Nat
        /\ \A i \in 1..n : payload[i] \in Command /\ ListIsSafe(payload[i].arguments)
    BY TextLength DEF PayloadIsSafe
  <1>2. ss \in Seq(Text) /\ Len(ss) = n /\ \A i \in 1..n : ss[i] = Line(payload[i])
    BY LinesText
  <1> HIDE DEF ss
  <1>3. PICK pos \in [1..n + 1 -> Nat] : Places(t, ss, p, pos) /\ pos[n + 1] = Len(t) + 1
    BY <1>2, FlattenHolds DEF ss
  <1>4. /\ pos[1] = p
        /\ \A i \in 1..n : Holds(t, pos[i], Line(payload[i]))
                           /\ pos[i + 1] = pos[i] + Len(Line(payload[i]))
    BY <1>2, <1>3 DEF Places
  <1>5. PICK From \in [1..Len(t) + 1 -> PayloadReading] :
            \A q \in 1..Len(t) + 1 : From[q] = Lines(t, From, q) /\ ReadPayload(t, q) = From[q]
    BY LinesFrom
  <1>6. \A i \in 1..N : pos[i] \in 1..Len(t) + 1
    <2>1. ASSUME NEW i \in 1..n PROVE pos[i] \in 1..Len(t) + 1
      <3>1. /\ pos[i] \in Nat /\ Holds(t, pos[i], CommandAsString(payload[i]))
            /\ payload[i] \in Command /\ ListIsSafe(payload[i].arguments)
        <4>1. pos[i] \in Nat /\ Holds(t, pos[i], Line(payload[i])) /\ payload[i] \in Command
          <5>1. i \in 1..n + 1
            BY <1>1
          <5>. QED  BY <1>1, <1>3, <1>4, <5>1
        <4>. QED  BY <1>1, <4>1, LineText
      <3>2. pos[i] \in 1..Len(t)
        BY <3>1, CommandRead
      <3>. QED  BY <1>1, <3>2
    <2>2. \A i \in 1..N : i \in 1..n \/ i = n + 1
      BY <1>1
    <2>3. Len(t) + 1 \in 1..Len(t) + 1
      BY <1>1
    <2>. QED  BY <1>3, <2>1, <2>2, <2>3
  <1> DEFINE T == {i \in 1..N : From[pos[i]] = [payload |-> SubSeq(payload, i, n),
                                                broken |-> FALSE]}
  <1>7. ASSUME NEW i \in 1..N, \A j \in 1..N : i < j => j \in T
        PROVE  From[pos[i]] = [payload |-> SubSeq(payload, i, n), broken |-> FALSE]
    <2>1. From[pos[i]] = Lines(t, From, pos[i])
      BY <1>5, <1>6
    <2>2. CASE i = N
      <3>1. SubSeq(payload, i, n) = <<>>
        BY <1>1, <2>2, SubSeqEmpty
      <3>2. ~Within(t, pos[i])
        BY <1>1, <1>3, <2>2 DEF Within
      <3>3. Lines(t, From, pos[i]) = [payload |-> <<>>, broken |-> FALSE]
        BY <3>2, Zenon DEF Lines
      <3>. QED  BY <2>1, <3>1, <3>3
    <2>3. CASE i # N
      <3>1. i \in 1..n /\ i + 1 \in 1..N /\ i < i + 1 /\ n \in i..n
        BY <1>1, <2>3
      <3> DEFINE l == SubSeq(payload, i + 1, n)
                 y == pos[i + 1]
      <3>2. From[y] = [payload |-> l, broken |-> FALSE]
        BY <1>7, <3>1
      <3>3. /\ pos[i] \in Nat /\ payload[i] \in Command /\ ListIsSafe(payload[i].arguments)
            /\ Holds(t, pos[i], Line(payload[i])) /\ y = pos[i] + Len(Line(payload[i]))
        BY <1>1, <1>3, <1>4, <3>1
      <3>4. SubSeq(payload, i, n) = <<payload[i]>> \o l
        BY <3>1, SubSeqRecursiveFirst
      <3> HIDE DEF l, y
      <3>5. From[pos[i]] = [payload |-> <<payload[i]>> \o l, broken |-> FALSE]
        <4> DEFINE q == pos[i]
                   c == payload[i]
        <4>1. /\ q \in Nat /\ c \in Command /\ ListIsSafe(c.arguments) /\ Holds(t, q, Line(c))
              /\ y = q + Len(Line(c)) /\ From[q] = Lines(t, From, q)
          BY <2>1, <3>3
        <4> HIDE DEF q, c
        <4>2. From[q] = [payload |-> <<c>> \o l, broken |-> FALSE]
          <5>1. From[q + Len(Line(c))] = [payload |-> l, broken |-> FALSE]
            BY <3>2, <4>1
          <5>2. From[q] = [payload |-> <<c>> \o From[q + Len(Line(c))].payload, broken |-> FALSE]
            <6>1. From[q + Len(Line(c))].broken = FALSE
              BY <5>1
            <6>. QED  BY <4>1, <6>1, LineRead, Zenon
          <5>. QED  BY <5>1, <5>2
        <4>. QED  BY <4>2 DEF q, c
      <3>. QED  BY <3>4, <3>5
    <2>. QED  BY <2>2, <2>3
  <1>8. 1..N \subseteq T
    <2>1. \A i \in 1..N : (\A j \in 1..N : i < j => j \in T) => i \in T
      BY <1>7
    <2> HIDE DEF T, N
    <2>. QED  BY <1>1, <2>1, DownwardInduction
  <1>9. From[p] = [payload |-> SubSeq(payload, 1, n), broken |-> FALSE]
    BY <1>1, <1>4, <1>8
  <1>10. SubSeq(payload, 1, n) = payload
    BY SubSeqFull
  <1>11. p \in 1..Len(t) + 1
    BY <1>1, <1>4, <1>6
  <1>. QED  BY <1>5, <1>9, <1>10, <1>11


(***************************************************************************)
(* Acknowledgements.                                                       *)
(***************************************************************************)
AcksReading(t) == [acks : Seq(Digits), ok : BOOLEAN, past : BOOLEAN, next : 1..Len(t) + 1]

LEMMA AcksTyped ==
    ASSUME NEW t \in Text, NEW q \in 1..Len(t) + 1, NEW From,
           \A y \in 1..Len(t) + 1 : q < y => From[y] \in AcksReading(t)
    PROVE  /\ Acks(t, From, q) \in AcksReading(t)
           /\ CutWhitespaces(t, q) \in q..Len(t) + 1
  <1> DEFINE s == CutWhitespaces(t, q)
             rest == From[s + 1]
             x == Acks(t, From, q)
  <1>1. s \in q..Len(t) + 1 /\ Len(t) \in Nat /\ s \in 1..Len(t) + 1
    BY BeyondIs, TextLength DEF CutWhitespaces
  <1>2. \/ x = [acks |-> <<>>, ok |-> FALSE, past |-> TRUE, next |-> s]
        \/ x = [acks |-> <<>>, ok |-> TRUE, past |-> FALSE, next |-> s]
        \/ x = [acks |-> <<>>, ok |-> FALSE, past |-> FALSE, next |-> s]
        \/ IsNumberAt(t, s) /\ x = [rest EXCEPT !.acks = <<t[s]>> \o @]
    BY DEF Acks
  <1> HIDE DEF x, s
  <1>3. CASE \/ x = [acks |-> <<>>, ok |-> FALSE, past |-> TRUE, next |-> s]
             \/ x = [acks |-> <<>>, ok |-> TRUE, past |-> FALSE, next |-> s]
             \/ x = [acks |-> <<>>, ok |-> FALSE, past |-> FALSE, next |-> s]
    <2>1. x \in AcksReading(t)
      <3>1. PICK b \in BOOLEAN, c \in BOOLEAN :
                x = [acks |-> <<>>, ok |-> b, past |-> c, next |-> s]
        BY <1>3
      <3>. QED  BY <1>1, <3>1 DEF AcksReading
    <2>. QED  BY <1>1, <2>1 DEF x, s
  <1>4. CASE IsNumberAt(t, s) /\ x = [rest EXCEPT !.acks = <<t[s]>> \o @]
    <2>1. s + 1 \in 1..Len(t) + 1 /\ q < s + 1 /\ t[s] \in Digits
      BY <1>1, <1>4 DEF IsNumberAt, Within
    <2>2. rest \in AcksReading(t)
      BY <2>1
    <2> HIDE DEF rest
    <2> DEFINE l == <<t[s]>> \o rest.acks
    <2>3. l \in Seq(Digits)
      <3>1. <<t[s]>> \in Seq(Digits) /\ rest.acks \in Seq(Digits)
        BY <2>1, <2>2 DEF AcksReading
      <3>. QED  BY <3>1, ConcatProperties
    <2>4. x = [rest EXCEPT !.acks = l]
      BY <1>4
    <2> HIDE DEF l
    <2>5. x \in AcksReading(t)
      BY <2>2, <2>3, <2>4 DEF AcksReading
    <2>. QED  BY <1>1, <2>5 DEF x, s
  <1>. QED  BY <1>2, <1>3, <1>4

LEMMA AcksFrom ==
    ASSUME NEW t \in Text
    PROVE  \E From \in [1..Len(t) + 1 -> AcksReading(t)] :
               \A q \in 1..Len(t) + 1 : From[q] = Acks(t, From, q) /\ ReadAcks(t, q) = From[q]
  <1> DEFINE N == Len(t) + 1
             V == AcksReading(t)
             F == [g \in [1..N -> V] |-> [q \in 1..N |-> Acks(t, g, q)]]
             fl == CHOOSE f : f = [q \in 1..N |-> Acks(t, f, q)]
  <1>1. N \in Nat /\ 1 \in 1..N /\ Len(t) \in Nat
    BY TextLength
  <1>2. V # {}
    <2>1. [acks |-> <<>>, ok |-> FALSE, past |-> FALSE, next |-> 1] \in V
      BY <1>1 DEF AcksReading
    <2>. QED  BY <2>1
  <1>3. F \in [[1..N -> V] -> [1..N -> V]]
    <2>1. ASSUME NEW g \in [1..N -> V] PROVE [q \in 1..N |-> Acks(t, g, q)] \in [1..N -> V]
      BY <2>1, AcksTyped
    <2>. QED  BY <2>1
  <1>4. ASSUME NEW g \in [1..N -> V], NEW h \in [1..N -> V], NEW q \in 1..N,
               \A y \in 1..N : q < y => g[y] = h[y]
        PROVE  F[g][q] = F[h][q]
    <2> DEFINE s == CutWhitespaces(t, q)
    <2>1. s \in q..Len(t) + 1
      BY AcksTyped
    <2>2. Within(t, s) => s + 1 \in 1..N /\ q < s + 1
      BY <1>1, <2>1 DEF Within
    <2>3. Within(t, s) => g[s + 1] = h[s + 1]
      BY <1>4, <2>2
    <2>4. Acks(t, g, q) = Acks(t, h, q)
      BY <2>3, Zenon DEF Acks
    <2>. QED  BY <2>4
  <1> HIDE DEF V, N
  <1>5. PICK f \in [1..N -> V] : IsFixedPoint(f, F)
    <2> HIDE DEF F
    <2>. QED  BY <1>1, <1>2, <1>3, <1>4, DownwardRecursion
  <1>6. f = [q \in 1..N |-> Acks(t, f, q)]
    BY <1>5 DEF IsFixedPoint
  <1>7. fl = [q \in 1..N |-> Acks(t, fl, q)]
    BY <1>6, Zenon
  <1>8. \A q \in 1..N : ReadAcks(t, q) = fl[q]
    BY Zenon DEF ReadAcks, N
  <1> HIDE DEF fl
  <1>9. \A q \in 1..N : fl[q] \in V
    <2> DEFINE T == {q \in 1..N : fl[q] \in V}
    <2>1. ASSUME NEW q \in 1..N, \A y \in 1..N : q < y => y \in T PROVE q \in T
      BY <1>7, <2>1, AcksTyped DEF N, V
    <2> HIDE DEF T
    <2>2. 1..N \subseteq T
      BY <1>1, <2>1, DownwardInduction
    <2>. QED  BY <2>2 DEF T
  <1>10. fl \in [1..N -> V]
    BY <1>7, <1>9
  <1>. QED  BY <1>7, <1>8, <1>10 DEF V, N

AckTexts(acks) == [i \in DOMAIN acks |-> AckAsString(acks[i])]

LEMMA AckText ==
    ASSUME NEW ack \in Digits
    PROVE  /\ AckAsString(ack) = <<ack>> \o <<Space>> /\ <<ack>> \in Text /\ <<Space>> \in Text
           /\ AckAsString(ack) \in Text /\ Len(AckAsString(ack)) = 2
  <1>1. ack \in Token /\ Space \in Token
    BY Tokens DEF Token, Word, Number
  <1>2. AckAsString(ack) = <<ack>> \o <<Space>> /\ AckAsString(ack) = <<ack, Space>>
    <2>1. AckAsString(ack) = <<ack, Space>>
      BY DEF AckAsString, Space
    <2>2. \A x : <<ack, x>> = <<ack>> \o <<x>>
      OBVIOUS
    <2>. QED  BY <2>1, <2>2
  <1>. QED  BY <1>1, <1>2, OneToken, TwoTokens DEF Text, Token

LEMMA AckHolds ==
    ASSUME NEW t \in Text, NEW p \in Nat, NEW ack \in Digits, Holds(t, p, AckAsString(ack))
    PROVE  /\ p \in 1..Len(t) /\ t[p] = ack /\ p + 1 \in 1..Len(t) /\ t[p + 1] = Space
           /\ t[p] \notin Blank /\ t[p] # ")" /\ IsNumberAt(t, p)
  <1> DEFINE u == <<ack>>
             v == <<Space>>
  <1>1. /\ u \in Text /\ v \in Text /\ Len(u) = 1
        /\ Holds(t, p, u \o v)
    BY AckText
  <1> HIDE DEF u, v
  <1>2. Holds(t, p, u) /\ Holds(t, p + 1, v)
    BY <1>1, HoldsConcat
  <1>3. p \in 1..Len(t) /\ t[p] = ack
    BY <1>2, HoldsOne DEF u
  <1>4. p + 1 \in 1..Len(t) /\ t[p + 1] = Space
    BY <1>2, HoldsOne DEF v
  <1>5. t[p] \notin Blank /\ t[p] # ")" /\ t[p + 1] \in Blank
    BY <1>3, <1>4, Tokens DEF Word, Number
  <1>6. IsNumberAt(t, p)
    BY <1>3, <1>4, <1>5 DEF IsNumberAt, Within
  <1>. QED  BY <1>3, <1>4, <1>5, <1>6

LEMMA AcksText ==
    ASSUME NEW acks \in Seq(Digits)
    PROVE  /\ AckTexts(acks) \in Seq(Text) /\ Len(AckTexts(acks)) = Len(acks)
           /\ \A i \in 1..Len(acks) : AckTexts(acks)[i] = AckAsString(acks[i])
           /\ FlattenSeq(AckTexts(acks)) \in Text
  <1> DEFINE n == Len(acks)
             ss == AckTexts(acks)
  <1>1. n \in Nat /\ DOMAIN acks = 1..n /\ \A i \in 1..n : acks[i] \in Digits
    OBVIOUS
  <1>2. \A i \in 1..n : AckAsString(acks[i]) \in Text
    BY <1>1, AckText
  <1>3. ss \in [1..n -> Text] /\ \A i \in 1..n : ss[i] = AckAsString(acks[i])
    BY <1>1, <1>2 DEF AckTexts
  <1> HIDE DEF n, ss
  <1>4. ss \in Seq(Text) /\ Len(ss) = n
    BY <1>1, <1>3, SeqDef
  <1>5. FlattenSeq(ss) \in Text
    <2>1. ss \in Seq(Seq(Token))
      BY <1>4 DEF Text, Token
    <2>. QED  BY <2>1, FlattenTyped DEF Text, Token
  <1>. QED  BY <1>3, <1>4, <1>5 DEF n, ss

LEMMA OtherAcks ==
    ASSUME NEW l, NEW a, NEW b, NEW z, NEW m
    PROVE  [[acks |-> l, ok |-> a, past |-> b, next |-> z] EXCEPT !.acks = m] =
               [acks |-> m, ok |-> a, past |-> b, next |-> z]
  OBVIOUS

LEMMA AcksRead ==
    ASSUME NEW t \in Text, NEW acks \in Seq(Digits), NEW p \in Nat,
           Holds(t, p, FlattenSeq(AckTexts(acks))),
           NEW z, z = p + Len(FlattenSeq(AckTexts(acks))), z \in 1..Len(t), t[z] = ")"
    PROVE  ReadAcks(t, p) = [acks |-> acks, ok |-> TRUE, past |-> FALSE, next |-> z]
  <1> DEFINE n == Len(acks)
             N == n + 1
             ss == AckTexts(acks)
             Read(i) == [acks |-> SubSeq(acks, i, n), ok |-> TRUE, past |-> FALSE, next |-> z]
  <1>1. /\ n \in Nat /\ N \in Nat /\ 1 \in 1..N /\ N \in 1..N /\ Len(t) \in Nat
        /\ \A i \in 1..n : acks[i] \in Digits
    BY TextLength
  <1>2. ss \in Seq(Text) /\ Len(ss) = n /\ \A i \in 1..n : ss[i] = AckAsString(acks[i])
    BY AcksText
  <1> HIDE DEF ss
  <1>3. PICK pos \in [1..n + 1 -> Nat] : Places(t, ss, p, pos) /\ pos[n + 1] = z
    BY <1>2, FlattenHolds DEF ss
  <1>4. /\ pos[1] = p
        /\ \A i \in 1..n : /\ i \in 1..n + 1 /\ i + 1 \in 1..n + 1 /\ pos[i] \in Nat
                           /\ Holds(t, pos[i], AckAsString(acks[i]))
                           /\ pos[i + 1] = pos[i] + Len(AckAsString(acks[i]))
    <2>1. pos[1] = p
      BY <1>3 DEF Places
    <2>2. ASSUME NEW i \in 1..n
          PROVE  /\ Holds(t, pos[i], AckAsString(acks[i]))
                 /\ pos[i + 1] = pos[i] + Len(AckAsString(acks[i]))
      BY <1>2, <1>3 DEF Places
    <2>3. \A i \in 1..n : i \in 1..n + 1 /\ i + 1 \in 1..n + 1
      BY <1>1
    <2>. QED  BY <1>3, <2>1, <2>2, <2>3
  <1>5. \A i \in 1..n : /\ pos[i] \in 1..Len(t) /\ t[pos[i]] = acks[i]
                        /\ t[pos[i]] \notin Blank /\ t[pos[i]] # ")"
                        /\ IsNumberAt(t, pos[i])
                        /\ pos[i] + 1 \in 1..Len(t) /\ t[pos[i] + 1] = Space
                        /\ pos[i + 1] = (pos[i] + 1) + 1
    <2>1. SUFFICES ASSUME NEW i \in 1..n
                   PROVE  /\ pos[i] \in 1..Len(t) /\ t[pos[i]] = acks[i]
                          /\ t[pos[i]] \notin Blank /\ t[pos[i]] # ")"
                          /\ IsNumberAt(t, pos[i])
                          /\ pos[i] + 1 \in 1..Len(t) /\ t[pos[i] + 1] = Space
                          /\ pos[i + 1] = (pos[i] + 1) + 1
      OBVIOUS
    <2>2. acks[i] \in Digits /\ pos[i] \in Nat /\ Holds(t, pos[i], AckAsString(acks[i]))
          /\ pos[i + 1] = pos[i] + Len(AckAsString(acks[i]))
      BY <1>1, <1>4
    <2>3. Len(AckAsString(acks[i])) = 2
      BY <2>2, AckText
    <2>4. /\ pos[i] \in 1..Len(t) /\ t[pos[i]] = acks[i]
          /\ t[pos[i]] \notin Blank /\ t[pos[i]] # ")"
          /\ IsNumberAt(t, pos[i])
          /\ pos[i] + 1 \in 1..Len(t) /\ t[pos[i] + 1] = Space
      BY <2>2, AckHolds, Zenon
    <2>5. pos[i + 1] = (pos[i] + 1) + 1
      BY <2>2, <2>3
    <2>. QED  BY <2>4, <2>5
  <1>6. \A i \in 1..N : pos[i] \in 1..Len(t) /\ t[pos[i]] \notin Blank
    <2>1. ")" \notin Blank
      BY Tokens
    <2>2. \A i \in 1..N : i \in 1..n \/ i = n + 1
      BY <1>1
    <2>. QED  BY <1>3, <1>5, <2>1, <2>2
  <1>7. PICK From \in [1..Len(t) + 1 -> AcksReading(t)] :
            \A q \in 1..Len(t) + 1 : From[q] = Acks(t, From, q) /\ ReadAcks(t, q) = From[q]
    BY AcksFrom
  <1> DEFINE T == {i \in 1..N : \A q \in 1..Len(t) + 1 :
                                    CutWhitespaces(t, q) = pos[i] => From[q] = Read(i)}
  <1>8. ASSUME NEW i \in 1..N, \A j \in 1..N : i < j => j \in T,
               NEW q \in 1..Len(t) + 1, CutWhitespaces(t, q) = pos[i]
        PROVE  From[q] = Read(i)
    <2>1. From[q] = Acks(t, From, q) /\ Within(t, pos[i])
      BY <1>6, <1>7 DEF Within
    <2>2. CASE i = N
      <3>1. SubSeq(acks, i, n) = <<>>
        BY <1>1, <2>2, SubSeqEmpty
      <3>2. pos[i] = z
        BY <1>3, <2>2
      <3>3. Acks(t, From, q) = [acks |-> <<>>, ok |-> TRUE, past |-> FALSE, next |-> z]
        BY <1>8, <2>1, <3>2, Zenon DEF Acks
      <3>. QED  BY <2>1, <3>1, <3>3
    <2>3. CASE i # N
      <3>1. i \in 1..n /\ i + 1 \in 1..N /\ i < i + 1 /\ n \in i..n
        BY <1>1, <2>3
      <3> DEFINE s == pos[i]
                 l == SubSeq(acks, i + 1, n)
                 rest == From[s + 1]
      <3>2. /\ s \in 1..Len(t) /\ t[s] = acks[i] /\ t[s] # ")" /\ IsNumberAt(t, s)
            /\ s + 1 \in 1..Len(t) /\ t[s + 1] = Space /\ pos[i + 1] = (s + 1) + 1
            /\ pos[i + 1] \in 1..Len(t) /\ t[pos[i + 1]] \notin Blank
        BY <1>5, <1>6, <3>1
      <3>3. CutWhitespaces(t, s + 1) = pos[i + 1]
        <4>1. PICK j \in 1..Len(t) : j = s + 1
          BY <3>2
        <4>2. j + 1 = pos[i + 1] /\ t[j] \in Blank
          BY <3>2, <4>1, Tokens
        <4>3. Beyond(t, j, Blank) = j + 1
          BY <3>2, <4>2, BeyondOne
        <4>. QED  BY <4>1, <4>2, <4>3 DEF CutWhitespaces
      <3>4. From[s + 1] = Read(i + 1)
        <4>1. s + 1 \in 1..Len(t) + 1
          BY <1>1, <3>2
        <4>2. i + 1 \in T
          BY <1>8, <3>1
        <4>. QED  BY <3>3, <4>1, <4>2
      <3>5. rest.acks = l /\ rest = [acks |-> l, ok |-> TRUE, past |-> FALSE, next |-> z]
        BY <3>4
      <3> HIDE DEF l, rest, s
      <3>6. Acks(t, From, q) = [rest EXCEPT !.acks = <<t[s]>> \o @]
        BY <1>8, <2>1, <3>2, Zenon DEF Acks, rest, s
      <3>7. From[q] = [acks |-> <<acks[i]>> \o l, ok |-> TRUE, past |-> FALSE, next |-> z]
        <4> DEFINE m == <<acks[i]>> \o l
        <4>1. From[q] = [rest EXCEPT !.acks = m]
          BY <2>1, <3>2, <3>5, <3>6
        <4> HIDE DEF m
        <4>2. From[q] = [acks |-> m, ok |-> TRUE, past |-> FALSE, next |-> z]
          <5>1. PICK a, b : a = TRUE /\ b = FALSE
            OBVIOUS
          <5>2. rest = [acks |-> l, ok |-> a, past |-> b, next |-> z]
            BY <3>5, <5>1
          <5>3. From[q] = [acks |-> m, ok |-> a, past |-> b, next |-> z]
            BY <4>1, <5>2, OtherAcks
          <5>. QED  BY <5>1, <5>3
        <4>. QED  BY <4>2 DEF m
      <3>8. SubSeq(acks, i, n) = <<acks[i]>> \o l
        BY <3>1, SubSeqRecursiveFirst DEF l
      <3>. QED  BY <3>7, <3>8
    <2>. QED  BY <2>2, <2>3
  <1>9. 1..N \subseteq T
    <2>1. \A i \in 1..N : (\A j \in 1..N : i < j => j \in T) => i \in T
      BY <1>8
    <2> HIDE DEF T, N
    <2>. QED  BY <1>1, <2>1, DownwardInduction
  <1>10. CutWhitespaces(t, p) = p /\ p \in 1..Len(t) + 1
    <2>1. p \in 1..Len(t) /\ t[p] \notin Blank
      BY <1>1, <1>4, <1>6
    <2>. QED  BY <1>1, <2>1, BeyondNothing DEF CutWhitespaces
  <1>11. From[p] = Read(1)
    BY <1>1, <1>4, <1>9, <1>10
  <1>12. SubSeq(acks, 1, n) = acks
    BY SubSeqFull
  <1>. QED  BY <1>7, <1>10, <1>11, <1>12



(***************************************************************************)
(* Headers.                                                                *)
(***************************************************************************)
LEMMA NumbersTyped ==
    ASSUME NEW t \in Text, ReadNumbers(t).ok
    PROVE  /\ ReadNumbers(t).type \in {"U", "R"}
           /\ ReadNumbers(t).sequence_no \in Digits
           /\ ReadNumbers(t).timestamp \in Digits
           /\ ReadNumbers(t).next \in 1..Len(t) + 1
  <1> DEFINE x == ReadNumbers(t)
             v == CutWhitespaces(t, 1)
             n == CutWhitespaces(t, v + 1)
             s == CutWhitespaces(t, n + 2)
             y == s + 2
  <1>1. ~NoHeader(TRUE).ok /\ ~NoHeader(FALSE).ok
    BY DEF NoHeader
  <1>2. /\ Within(t, y) /\ IsNumberAt(t, n) /\ IsNumberAt(t, s) /\ t[y] \in {"U", "R"}
        /\ x = [ok |-> TRUE, type |-> t[y], sequence_no |-> t[n], timestamp |-> t[s],
                next |-> y + 1]
    BY <1>1, Zenon DEF ReadNumbers
  <1> HIDE DEF y, s, n, v
  <1>3. y \in 1..Len(t) /\ t[n] \in Digits /\ t[s] \in Digits
    BY <1>2 DEF Within, IsNumberAt
  <1> HIDE DEF x
  <1>4. /\ x.type = t[y] /\ x.sequence_no = t[n] /\ x.timestamp = t[s] /\ x.next = y + 1
    BY <1>2
  <1>5. y + 1 \in 1..Len(t) + 1
    BY <1>3, TextLength
  <1>. QED  BY <1>2, <1>3, <1>4, <1>5 DEF x

\* What a header is read as when it is read at all.
HeaderReading(t) ==
    [ok : {TRUE}, past : {FALSE}, next : 1..Len(t) + 1, header : Header]

LEMMA ReadHeaderTyped ==
    ASSUME NEW t \in Text, ReadHeader(t).ok
    PROVE  ReadHeader(t) \in HeaderReading(t)
  <1> DEFINE first == ReadNumbers(t)
             source == ReadAddress(t, first.next)
             dest == ReadAddress(t, source.next)
             open == CutWhitespaces(t, dest.next)
             acks == ReadAcks(t, open + 1)
             x == ReadHeader(t)
  <1>1. \A b : ~NoHeader(b).ok
    BY DEF NoHeader
  <1>2. first.ok /\ x = ReadFromSource(t, first, source)
    BY Zenon DEF ReadHeader
  <1>3. source.ok /\ x = ReadFromDestination(t, first, source, dest)
    BY <1>1, <1>2, Zenon DEF ReadFromSource
  <1>4. Within(t, open) /\ x = CompleteHeader(t, first, source, dest, acks)
    BY <1>1, <1>3, Zenon DEF ReadFromDestination
  <1> DEFINE h == [type |-> first.type, sequence_no |-> first.sequence_no,
                   timestamp |-> first.timestamp, source |-> source.elements,
                   destination |-> dest.elements, acks |-> acks.acks]
  <1>5. x = [ok |-> TRUE, past |-> FALSE, next |-> acks.next, header |-> h]
    BY <1>1, <1>4, Zenon DEF CompleteHeader
  <1>6. /\ first.type \in {"U", "R"} /\ first.sequence_no \in Digits
        /\ first.timestamp \in Digits /\ first.next \in 1..Len(t) + 1
    BY <1>2, NumbersTyped
  <1>7. source.elements \in Address /\ source.next \in 1..Len(t) + 1
    <2>1. source \in AddressReading(t)
      BY <1>6, ReadAddressTyped
    <2>2. \A a \in Seq(SafeElement) : a \in Address
      BY SeqMonotonic DEF SafeElement, Address
    <2> HIDE DEF source
    <2>. QED  BY <2>1, <2>2 DEF AddressReading
  <1>8. dest.elements \in Address
    <2>1. dest \in AddressReading(t)
      BY <1>7, ReadAddressTyped
    <2>2. \A a \in Seq(SafeElement) : a \in Address
      BY SeqMonotonic DEF SafeElement, Address
    <2> HIDE DEF dest
    <2>. QED  BY <2>1, <2>2 DEF AddressReading
  <1>9. acks.acks \in Seq(Digits) /\ acks.next \in 1..Len(t) + 1
    <2>1. open + 1 \in 1..Len(t) + 1
      BY <1>4, TextLength DEF Within
    <2>2. acks \in AcksReading(t)
      BY <2>1, AcksFrom
    <2> HIDE DEF acks
    <2>. QED  BY <2>2 DEF AcksReading
  <1> HIDE DEF first, source, dest, open, acks, x
  <1>10. h \in Header
    BY <1>6, <1>7, <1>8, <1>9 DEF Header
  <1> HIDE DEF h
  <1>11. x \in HeaderReading(t)
    BY <1>5, <1>9, <1>10 DEF HeaderReading
  <1>. QED  BY <1>11 DEF x

LEMMA ReadMessageTyped ==
    ASSUME NEW t \in Text
    PROVE  /\ ReadMessage(t).how \in {"ok", "refused", "broken"}
           /\ ReadMessage(t).how = "ok" =>
                  /\ ReadMessage(t).message \in Message
                  /\ ReadMessage(t) = [how |-> "ok", message |-> ReadMessage(t).message]
  <1> DEFINE h == ReadHeader(t)
             nl == FindChar(t, h.next, "\n")
             p == ReadPayload(t, nl + 1)
             x == ReadMessage(t)
             m == [header |-> h.header, payload |-> p.payload]
  <1>1. \/ x = [how |-> "broken"]
        \/ x = [how |-> "refused"]
        \/ h.ok /\ Within(t, nl) /\ x = [how |-> "ok", message |-> m]
    BY Zenon DEF ReadMessage, MakeMessage
  <1>2. ASSUME h.ok, Within(t, nl) PROVE m \in Message
    <2>1. h \in HeaderReading(t)
      BY <1>2, ReadHeaderTyped
    <2>2. nl + 1 \in 1..Len(t) + 1
      BY <1>2, TextLength DEF Within
    <2>3. p \in PayloadReading
      BY <2>2, LinesFrom
    <2> HIDE DEF h, p
    <2>4. h.header \in Header /\ p.payload \in Seq(Command)
      BY <2>1, <2>3 DEF HeaderReading, PayloadReading
    <2>. QED  BY <2>4 DEF Message
  <1> HIDE DEF m, h, nl
  <1>3. CASE x = [how |-> "broken"] \/ x = [how |-> "refused"]
    <2>1. x.how \in {"refused", "broken"}
      BY <1>3
    <2>. QED  BY <2>1
  <1>4. CASE h.ok /\ Within(t, nl) /\ x = [how |-> "ok", message |-> m]
    <2> HIDE DEF x
    <2>1. x.how = "ok" /\ x.message = m
      BY <1>4
    <2>. QED  BY <1>2, <1>4, <2>1 DEF x
  <1>. QED  BY <1>1, <1>3, <1>4


\* The parts of a header: eight tokens, the two addresses, the acknowledgements.
Opening(h) == <<Version, Space, h.sequence_no, Space, Clock, Space, h.type, Space>>
Numbers(h) == FlattenSeq(AckTexts(h.acks))

LEMMA EightTokens ==
    ASSUME NEW S, NEW a \in S, NEW b \in S, NEW c \in S, NEW d \in S, NEW e \in S,
           NEW f \in S, NEW g \in S, NEW h \in S
    PROVE  /\ <<a, b, c, d, e, f, g, h>> \in Seq(S)
           /\ Len(<<a, b, c, d, e, f, g, h>>) = 8
  OBVIOUS

LEMMA EightPlaces ==
    ASSUME NEW t, NEW a, NEW b, NEW c, NEW d, NEW e, NEW f, NEW g, NEW h,
           Holds(t, 1, <<a, b, c, d, e, f, g, h>>)
    PROVE  /\ t[1] = a /\ t[2] = b /\ t[3] = c /\ t[4] = d
           /\ t[5] = e /\ t[6] = f /\ t[7] = g /\ t[8] = h
  <1> DEFINE w == <<a, b, c, d, e, f, g, h>>
  <1>1. /\ Len(w) = 8 /\ w[1] = a /\ w[2] = b /\ w[3] = c /\ w[4] = d
        /\ w[5] = e /\ w[6] = f /\ w[7] = g /\ w[8] = h
    OBVIOUS
  <1> HIDE DEF w
  <1>2. \A i \in 1..8 : t[i] = w[i]
    <2>1. \A i \in 1..8 : 1 + i - 1 = i
      OBVIOUS
    <2>2. \A i \in 1..8 : t[1 + i - 1] = w[i]
      BY <1>1 DEF Holds, w
    <2>. QED  BY <2>1, <2>2
  <1>. QED  BY <1>1, <1>2

LEMMA HeaderTypes ==
    ASSUME NEW h \in Header
    PROVE  /\ h.type \in {"U", "R"} /\ h.sequence_no \in Digits /\ h.timestamp \in Digits
           /\ h.source \in Address /\ h.destination \in Address /\ h.acks \in Seq(Digits)
           /\ h = [type |-> h.type, sequence_no |-> h.sequence_no, timestamp |-> h.timestamp,
                   source |-> h.source, destination |-> h.destination, acks |-> h.acks]
  BY DEF Header

LEMMA OpeningText ==
    ASSUME NEW h \in Header
    PROVE  Opening(h) \in Text /\ Len(Opening(h)) = 8
  <1>1. /\ Version \in Token /\ Space \in Token /\ h.sequence_no \in Token
        /\ Clock \in Token /\ h.type \in Token
    <2>1. Version \in Token /\ Space \in Token
      BY SomeTokens, Tokens
    <2>2. Digits \subseteq Token /\ Upper \subseteq Token
      BY DEF Token, Word, Number
    <2>. QED  BY <2>1, <2>2, HeaderTypes, MessageAssumption
  <1>. QED  BY <1>1, EightTokens DEF Opening, Text, Token

LEMMA OpeningRead ==
    ASSUME NEW t \in Text, NEW h \in Header, Holds(t, 1, Opening(h)),
           Len(t) >= 9
    PROVE  ReadNumbers(t) = [ok |-> TRUE, type |-> h.type, sequence_no |-> h.sequence_no,
                             timestamp |-> Clock, next |-> 8]
  <1>1. /\ t[1] = Version /\ t[2] = Space /\ t[3] = h.sequence_no /\ t[4] = Space
        /\ t[5] = Clock /\ t[6] = Space /\ t[7] = h.type
    BY EightPlaces DEF Opening
  <1>2. /\ Len(t) \in Nat /\ Len(t) >= 9
        /\ 1 \in 1..Len(t) /\ 2 \in 1..Len(t) /\ 3 \in 1..Len(t) /\ 4 \in 1..Len(t)
        /\ 5 \in 1..Len(t) /\ 6 \in 1..Len(t) /\ 7 \in 1..Len(t)
    BY TextLength
  <1>3. /\ h.sequence_no \in Digits /\ Clock \in Digits /\ h.type \in {"U", "R"}
    BY HeaderTypes, MessageAssumption
  <1>4. /\ Version \notin Blank /\ h.sequence_no \notin Blank /\ Clock \notin Blank
        /\ Space \in Blank
    <2>1. Version \notin Blank
      BY Tokens, TextAssumption DEF Blank, Version
    <2>2. \A d \in Digits : d \notin Blank
      BY Tokens DEF Word, Number
    <2>. QED  BY <1>3, <2>1, <2>2, Tokens
  <1>5. CutWhitespaces(t, 1) = 1
    BY <1>1, <1>2, <1>4, BeyondNothing DEF CutWhitespaces
  <1>6. CutWhitespaces(t, 2) = 3
    <2>1. PICK j \in 1..Len(t) : j = 2
      BY <1>2
    <2>2. t[j] \in Blank /\ j + 1 \in 1..Len(t) /\ t[j + 1] \notin Blank
      BY <1>1, <1>2, <1>4, <2>1
    <2>3. Beyond(t, j, Blank) = j + 1
      BY <2>2, BeyondOne
    <2>. QED  BY <2>1, <2>3 DEF CutWhitespaces
  <1>7. CutWhitespaces(t, 5) = 5
    BY <1>1, <1>2, <1>4, BeyondNothing DEF CutWhitespaces
  <1>8. /\ Within(t, 1) /\ Within(t, 3) /\ Within(t, 5) /\ Within(t, 7)
        /\ IsNumberAt(t, 3) /\ IsNumberAt(t, 5)
    <2>1. 3 + 1 = 4 /\ 5 + 1 = 6
      OBVIOUS
    <2>. QED  BY <1>1, <1>2, <1>3, <1>4, <2>1 DEF Within, IsNumberAt
  <1>9. 1 + 1 = 2 /\ 3 + 2 = 5 /\ 5 + 2 = 7 /\ 7 + 1 = 8
    OBVIOUS
  <1>10. /\ CutWhitespaces(t, CutWhitespaces(t, 1) + 1) = 3
         /\ CutWhitespaces(t, CutWhitespaces(t, CutWhitespaces(t, 1) + 1) + 2) = 5
         /\ CutWhitespaces(t, CutWhitespaces(t, CutWhitespaces(t, 1) + 1) + 2) + 2 = 7
    BY <1>5, <1>6, <1>7, <1>9
  <1>11. ReadNumbers(t) = [ok |-> TRUE, type |-> t[7], sequence_no |-> t[3],
                           timestamp |-> t[5], next |-> 7 + 1]
    BY <1>1, <1>3, <1>5, <1>8, <1>10, Zenon DEF ReadNumbers
  <1>. QED  BY <1>1, <1>9, <1>11


LEMMA Pair ==
    ASSUME NEW a, NEW b
    PROVE  <<a, b>> = <<a>> \o <<b>>
  <1>1. \A x : <<a, x>> = <<a>> \o <<x>>
    OBVIOUS
  <1>. QED  BY <1>1

LEMMA HoldsTwo ==
    ASSUME NEW t \in Text, NEW p \in Nat, NEW a \in Token, NEW b \in Token,
           Holds(t, p, <<a, b>>)
    PROVE  p \in 1..Len(t) /\ t[p] = a /\ p + 1 \in 1..Len(t) /\ t[p + 1] = b
  <1> DEFINE u == <<a>>
             v == <<b>>
  <1>1. u \in Text /\ v \in Text /\ Len(u) = 1
    BY OneToken
  <1>2. <<a, b>> = u \o v
    BY Pair
  <1>3. Holds(t, p, u \o v)
    BY <1>2
  <1> HIDE DEF u, v
  <1>4. Holds(t, p, u) /\ Holds(t, p + 1, v)
    BY <1>1, <1>3, HoldsConcat
  <1>5. p \in 1..Len(t) /\ t[p] = a
    BY <1>4, HoldsOne DEF u
  <1>6. p + 1 \in 1..Len(t) /\ t[p + 1] = b
    BY <1>4, HoldsOne DEF v
  <1>. QED  BY <1>5, <1>6

\* Four texts, one behind the other.
Four(a, b, c, d) == ((a \o b) \o c) \o d

LEMMA FourText ==
    ASSUME NEW a \in Text, NEW b \in Text, NEW c \in Text, NEW d \in Text
    PROVE  /\ Four(a, b, c, d) \in Text
           /\ Len(Four(a, b, c, d)) = Len(a) + Len(b) + Len(c) + Len(d)
  <1> DEFINE ab == a \o b
             abc == ab \o c
             all == abc \o d
  <1>1. ab \in Text /\ Len(ab) = Len(a) + Len(b)
    BY Joined
  <1> HIDE DEF ab
  <1>2. abc \in Text /\ Len(abc) = Len(ab) + Len(c)
    BY <1>1, Joined
  <1> HIDE DEF abc
  <1>3. all \in Text /\ Len(all) = Len(abc) + Len(d)
    BY <1>2, Joined
  <1> HIDE DEF all
  <1>4. Len(all) = Len(a) + Len(b) + Len(c) + Len(d)
    BY <1>1, <1>2, <1>3
  <1>5. Four(a, b, c, d) = all
    BY Zenon DEF Four, all, abc, ab
  <1>. QED  BY <1>3, <1>4, <1>5

LEMMA FourHold ==
    ASSUME NEW t \in Text, NEW p \in Nat, NEW a \in Text, NEW b \in Text, NEW c \in Text,
           NEW d \in Text, Holds(t, p, Four(a, b, c, d))
    PROVE  /\ Holds(t, p, a)
           /\ Holds(t, p + Len(a), b)
           /\ Holds(t, p + (Len(a) + Len(b)), c)
           /\ Holds(t, p + (Len(a) + Len(b) + Len(c)), d)
  <1> DEFINE ab == a \o b
             abc == ab \o c
  <1>1. ab \in Text /\ Len(ab) = Len(a) + Len(b)
    BY Joined
  <1>2. Holds(t, p, abc \o d)
    BY Zenon DEF Four
  <1> HIDE DEF ab
  <1>3. abc \in Text /\ Len(abc) = Len(ab) + Len(c)
    BY <1>1, Joined
  <1> HIDE DEF abc
  <1>4. Holds(t, p, abc) /\ Holds(t, p + Len(abc), d)
    BY <1>2, <1>3, HoldsConcat
  <1>5. Holds(t, p, ab) /\ Holds(t, p + Len(ab), c)
    BY <1>1, <1>4, HoldsConcat DEF abc
  <1>6. Holds(t, p, a) /\ Holds(t, p + Len(a), b)
    BY <1>5, HoldsConcat DEF ab
  <1>. QED  BY <1>1, <1>3, <1>4, <1>5, <1>6

\* A header up to the address it goes to, and whole.
Addresses(h) ==
    Four(Opening(h), AddressAsString(h.source), <<Space>>, AddressAsString(h.destination))

LEMMA HeaderText ==
    ASSUME NEW h \in Header
    PROVE  /\ Opening(h) \in Text /\ Len(Opening(h)) = 8
           /\ AddressAsString(h.source) \in Text /\ AddressAsString(h.destination) \in Text
           /\ Numbers(h) \in Text
           /\ <<Space>> \in Text /\ Len(<<Space>>) = 1
           /\ <<Space, "(">> \in Text /\ Len(<<Space, "(">>) = 2
           /\ <<")">> \in Text /\ Len(<<")">>) = 1
           /\ Addresses(h) \in Text
           /\ Len(Addresses(h)) =
                  8 + Len(AddressAsString(h.source)) + 1 + Len(AddressAsString(h.destination))
           /\ HeaderAsString(h) = Four(Addresses(h), <<Space, "(">>, Numbers(h), <<")">>)
           /\ HeaderAsString(h) \in Text
           /\ Len(HeaderAsString(h)) = Len(Addresses(h)) + 2 + Len(Numbers(h)) + 1
  <1> DEFINE o == Opening(h)
             s == AddressAsString(h.source)
             b == <<Space>>
             d == AddressAsString(h.destination)
             k == <<Space, "(">>
             n == Numbers(h)
             z == <<")">>
             a == Addresses(h)
  <1>1. o \in Text /\ Len(o) = 8
    BY OpeningText
  <1>2. s \in Text /\ d \in Text
    BY HeaderTypes, WrittenAddress
  <1>3. n \in Text
    BY HeaderTypes, AcksText DEF Numbers
  <1>4. b \in Text /\ Len(b) = 1 /\ z \in Text /\ Len(z) = 1 /\ k \in Text /\ Len(k) = 2
    BY Tokens, OneToken, TwoTokens DEF Text, Token
  <1>5. a = Four(o, s, b, d)
    BY DEF Addresses
  <1>6. HeaderAsString(h) = Four(a, k, n, z)
    BY Zenon DEF HeaderAsString, Four, Addresses, Opening, Numbers, AckTexts, Space
  <1> HIDE DEF o, s, b, d, k, n, z, a
  <1>7. a \in Text /\ Len(a) = Len(o) + Len(s) + Len(b) + Len(d)
    <2>1. o \in Text /\ s \in Text /\ b \in Text /\ d \in Text
      BY <1>1, <1>2, <1>4
    <2>. QED  BY <1>5, <2>1, FourText
  <1>8. /\ HeaderAsString(h) \in Text
        /\ Len(HeaderAsString(h)) = Len(a) + Len(k) + Len(n) + Len(z)
    <2>1. a \in Text /\ k \in Text /\ n \in Text /\ z \in Text
      BY <1>3, <1>4, <1>7
    <2>. QED  BY <1>6, <2>1, FourText
  <1>9. Len(a) = 8 + Len(s) + 1 + Len(d) /\ Len(HeaderAsString(h)) = Len(a) + 2 + Len(n) + 1
    BY <1>1, <1>4, <1>7, <1>8
  <1>. QED  BY <1>1, <1>2, <1>3, <1>4, <1>6, <1>7, <1>8, <1>9 DEF o, s, b, d, k, n, z, a

LEMMA BracketBegins ==
    ASSUME NEW t \in Text, NEW a \in Address, NEW p \in Nat, Holds(t, p, AddressAsString(a))
    PROVE  p \in 1..Len(t) /\ t[p] = "("
  <1> DEFINE w == FlattenSeq([i \in DOMAIN a |-> ElementAsString(a[i])])
             u == <<"(">>
             v == <<")">>
  <1>1. w \in Text /\ u \in Text /\ v \in Text
    BY ElementsText, OneToken, SomeTokens
  <1>2. AddressAsString(a) = (u \o w) \o v
    BY DEF AddressAsString
  <1>3. u = <<"(">>
    OBVIOUS
  <1> HIDE DEF w, u, v
  <1>4. u \o w \in Text
    BY <1>1, Joined
  <1>5. Holds(t, p, u \o w)
    BY <1>1, <1>2, <1>4, HoldsConcat
  <1>6. Holds(t, p, u)
    BY <1>1, <1>5, HoldsConcat
  <1>. QED  BY <1>3, <1>6, HoldsOne

\* A header as its readers take it: with the time it was written at, and the
\* elements of its addresses in order.
HeaderAsRead(h) ==
    [type |-> h.type, sequence_no |-> h.sequence_no, timestamp |-> Clock,
     source |-> Sorted(h.source), destination |-> Sorted(h.destination), acks |-> h.acks]

\* One blank, and the token behind it.
LEMMA OneBlank ==
    ASSUME NEW t \in Text, NEW p \in Nat, p \in 1..Len(t), t[p] = Space,
           p + 1 \in 1..Len(t), t[p + 1] = "("
    PROVE  CutWhitespaces(t, p) = p + 1
  <1>1. t[p] \in Blank /\ t[p + 1] \notin Blank
    BY Tokens
  <1>. QED  BY <1>1, BeyondOne DEF CutWhitespaces

LEMMA HeaderPlaces ==
    ASSUME NEW t \in Text, NEW h \in Header, Holds(t, 1, HeaderAsString(h))
    PROVE  \E p, d, k \in Nat :
               /\ Holds(t, 1, Opening(h)) /\ Len(t) >= 9 /\ t[8] = Space
               /\ Holds(t, 9, AddressAsString(h.source))
               /\ p = 9 + Len(AddressAsString(h.source)) /\ t[p] = Space
               /\ p \in 1..Len(t) /\ d = p + 1
               /\ Holds(t, d, AddressAsString(h.destination))
               /\ k = d + Len(AddressAsString(h.destination))
               /\ k \in 1..Len(t) /\ t[k] = Space /\ k + 1 \in 1..Len(t) /\ t[k + 1] = "("
               /\ Holds(t, k + 2, Numbers(h))
               /\ Len(HeaderAsString(h)) = (k + 2) + Len(Numbers(h))
               /\ Len(HeaderAsString(h)) \in 1..Len(t)
               /\ t[Len(HeaderAsString(h))] = ")"
  <1> DEFINE o == Opening(h)
             s == AddressAsString(h.source)
             b == <<Space>>
             e == AddressAsString(h.destination)
             c == <<Space, "(">>
             n == Numbers(h)
             z == <<")">>
             a == Addresses(h)
             p == 9 + Len(s)
             d == p + 1
             k == d + Len(e)
             l == Len(HeaderAsString(h))
  <1>1. /\ o \in Text /\ s \in Text /\ b \in Text /\ e \in Text
        /\ c \in Text /\ n \in Text /\ z \in Text /\ a \in Text
    BY HeaderText
  <1>2. /\ Len(o) = 8 /\ Len(b) = 1 /\ Len(c) = 2 /\ Len(z) = 1
        /\ Len(s) \in Nat /\ Len(e) \in Nat /\ Len(n) \in Nat /\ Len(t) \in Nat
        /\ Len(a) = 8 + Len(s) + 1 + Len(e)
        /\ l = Len(a) + 2 + Len(n) + 1
    BY <1>1, HeaderText, TextLength
  <1>3. a = Four(o, s, b, e)
    BY DEF Addresses
  <1>4. Holds(t, 1, Four(a, c, n, z))
    BY HeaderText
  <1>5. b = <<Space>> /\ c = <<Space, "(">> /\ z = <<")">> /\ o = Opening(h)
    OBVIOUS
  <1> HIDE DEF o, s, b, e, c, n, z, a, l
  <1>6. /\ Holds(t, 1, a) /\ Holds(t, 1 + Len(a), c)
        /\ Holds(t, 1 + (Len(a) + Len(c)), n)
        /\ Holds(t, 1 + (Len(a) + Len(c) + Len(n)), z)
    BY <1>1, <1>4, FourHold
  <1>7. /\ Holds(t, 1, o) /\ Holds(t, 1 + Len(o), s)
        /\ Holds(t, 1 + (Len(o) + Len(s)), b)
        /\ Holds(t, 1 + (Len(o) + Len(s) + Len(b)), e)
    BY <1>1, <1>3, <1>6, FourHold
  <1>8. /\ 1 + Len(o) = 9 /\ 1 + (Len(o) + Len(s)) = p
        /\ 1 + (Len(o) + Len(s) + Len(b)) = d /\ 1 + Len(a) = k
        /\ 1 + (Len(a) + Len(c)) = k + 2
        /\ 1 + (Len(a) + Len(c) + Len(n)) = l /\ l = (k + 2) + Len(n)
        /\ p \in Nat /\ d \in Nat /\ k \in Nat /\ l \in Nat /\ p >= 9
    BY <1>2
  <1>9. /\ Holds(t, 9, s) /\ Holds(t, p, b) /\ Holds(t, d, e)
        /\ Holds(t, k, c) /\ Holds(t, k + 2, n) /\ Holds(t, l, z)
    BY <1>6, <1>7, <1>8
  <1> HIDE DEF p, d, k
  <1>10. p \in 1..Len(t) /\ t[p] = Space
    BY <1>5, <1>8, <1>9, HoldsOne
  <1>11. l \in 1..Len(t) /\ t[l] = ")"
    BY <1>5, <1>8, <1>9, HoldsOne
  <1>12. k \in 1..Len(t) /\ t[k] = Space /\ k + 1 \in 1..Len(t) /\ t[k + 1] = "("
    <2>1. Space \in Token /\ "(" \in Token
      BY Tokens
    <2>. QED  BY <1>5, <1>8, <1>9, <2>1, HoldsTwo
  <1>13. Len(t) >= 9
    BY <1>2, <1>8, <1>10
  <1>14. t[8] = Space
    BY <1>5, <1>7, EightPlaces DEF Opening
  <1>. QED  BY <1>7, <1>8, <1>9, <1>10, <1>11, <1>12, <1>13, <1>14 DEF o, s, e, n, l, p, d, k

LEMMA HeaderRead ==
    ASSUME NEW t \in Text, NEW h \in Header, Holds(t, 1, HeaderAsString(h)),
           h.source \in Seq(SafeElement), h.destination \in Seq(SafeElement)
    PROVE  ReadHeader(t) = [ok |-> TRUE, past |-> FALSE, next |-> Len(HeaderAsString(h)),
                            header |-> HeaderAsRead(h)]
  <1> DEFINE s == AddressAsString(h.source)
             e == AddressAsString(h.destination)
             n == Numbers(h)
             l == Len(HeaderAsString(h))
             first == ReadNumbers(t)
             source == ReadAddress(t, 8)
  <1>1. PICK p, d, k \in Nat :
            /\ Holds(t, 1, Opening(h)) /\ Len(t) >= 9 /\ t[8] = Space
            /\ Holds(t, 9, s) /\ p = 9 + Len(s) /\ t[p] = Space
            /\ p \in 1..Len(t) /\ d = p + 1 /\ Holds(t, d, e) /\ k = d + Len(e)
            /\ k \in 1..Len(t) /\ t[k] = Space /\ k + 1 \in 1..Len(t) /\ t[k + 1] = "("
            /\ Holds(t, k + 2, n) /\ l = (k + 2) + Len(n)
            /\ l \in 1..Len(t) /\ t[l] = ")"
    BY HeaderPlaces
  <1>2. /\ first = [ok |-> TRUE, type |-> h.type, sequence_no |-> h.sequence_no,
                    timestamp |-> Clock, next |-> 8]
    BY <1>1, OpeningRead
  <1>3. /\ first.ok /\ first.next = 8 /\ first.type = h.type
        /\ first.sequence_no = h.sequence_no /\ first.timestamp = Clock
    BY <1>2
  <1>4. h.acks \in Seq(Digits) /\ Len(t) \in Nat /\ Len(s) \in Nat /\ Len(e) \in Nat
    BY HeaderText, HeaderTypes, TextLength
  <1>5. 9 \in 1..Len(t) /\ t[9] = "(" /\ d \in 1..Len(t) /\ t[d] = "("
    <2>1. h.source \in Address /\ h.destination \in Address
      BY HeaderTypes
    <2>. QED  BY <1>1, <2>1, BracketBegins
  <1>6. CutWhitespaces(t, 8) = 9
    <2>1. PICK j \in Nat : j = 8
      OBVIOUS
    <2>2. j \in 1..Len(t) /\ t[j] = Space /\ j + 1 = 9
      BY <1>1, <1>4, <2>1
    <2>3. CutWhitespaces(t, j) = j + 1
      BY <1>5, <2>2, OneBlank
    <2>. QED  BY <2>1, <2>2, <2>3
  <1>7. CutWhitespaces(t, p) = d
    BY <1>1, <1>5, OneBlank
  <1>8. CutWhitespaces(t, k) = k + 1
    BY <1>1, OneBlank
  <1>9. source = [elements |-> Sorted(h.source), ok |-> TRUE, past |-> FALSE, next |-> p]
    <2>1. 8 \in 1..Len(t) + 1 /\ 9 \in Nat
      BY <1>1, <1>4
    <2>2. source = [elements |-> Sorted(h.source), ok |-> TRUE, past |-> FALSE,
                    next |-> 9 + Len(s)]
      BY <1>1, <1>6, <2>1, AddressRoundTrip
    <2>. QED  BY <1>1, <2>2
  <1> DEFINE dest == ReadAddress(t, p)
  <1>10. dest = [elements |-> Sorted(h.destination), ok |-> TRUE, past |-> FALSE, next |-> k]
    <2>1. p \in 1..Len(t) + 1
      BY <1>1, <1>4
    <2>2. dest = [elements |-> Sorted(h.destination), ok |-> TRUE, past |-> FALSE,
                  next |-> d + Len(e)]
      BY <1>1, <1>7, <2>1, AddressRoundTrip
    <2>. QED  BY <1>1, <2>2
  <1> DEFINE acks == ReadAcks(t, k + 2)
  <1>11. acks = [acks |-> h.acks, ok |-> TRUE, past |-> FALSE, next |-> l]
    <2>1. PICK j \in Nat : j = k + 2
      OBVIOUS
    <2>2. Holds(t, j, FlattenSeq(AckTexts(h.acks))) /\ l = j + Len(FlattenSeq(AckTexts(h.acks)))
      BY <1>1, <2>1 DEF Numbers
    <2>3. l \in 1..Len(t) /\ t[l] = ")"
      BY <1>1
    <2> HIDE DEF l
    <2> DEFINE acknowledged == h.acks
    <2>4. acknowledged \in Seq(Digits)
      BY <1>4
    <2>5. /\ Holds(t, j, FlattenSeq(AckTexts(acknowledged)))
          /\ l = j + Len(FlattenSeq(AckTexts(acknowledged)))
      BY <2>2
    <2> HIDE DEF acknowledged
    <2>6. ReadAcks(t, j) = [acks |-> acknowledged, ok |-> TRUE, past |-> FALSE, next |-> l]
      BY <2>3, <2>4, <2>5, AcksRead
    <2>7. ReadAcks(t, j) = [acks |-> h.acks, ok |-> TRUE, past |-> FALSE, next |-> l]
      BY <2>6 DEF acknowledged
    <2>. QED  BY <2>1, <2>7
  <1> HIDE DEF first, source, dest, acks, l
  <1>12. /\ source.ok /\ source.next = p /\ source.elements = Sorted(h.source)
         /\ dest.ok /\ dest.next = k /\ dest.elements = Sorted(h.destination)
         /\ acks.ok /\ acks.next = l /\ acks.acks = h.acks
    BY <1>9, <1>10, <1>11
  <1>13. Within(t, k + 1) /\ (k + 1) + 1 = k + 2
    BY <1>1 DEF Within
  <1>14. ReadHeader(t) = ReadFromSource(t, first, source)
    BY <1>3, Zenon DEF ReadHeader, first, source
  <1>15. ReadFromSource(t, first, source) = ReadFromDestination(t, first, source, dest)
    BY <1>12, Zenon DEF ReadFromSource, dest
  <1>16. ReadFromDestination(t, first, source, dest) = CompleteHeader(t, first, source, dest, acks)
    <2>1. CutWhitespaces(t, dest.next) = k + 1
      BY <1>8, <1>12
    <2>2. ReadFromDestination(t, first, source, dest) =
              CompleteHeader(t, first, source, dest, ReadAcks(t, (k + 1) + 1))
      BY <1>1, <1>12, <1>13, <2>1, Zenon DEF ReadFromDestination
    <2>. QED  BY <1>13, <2>2 DEF acks
  <1>17. CompleteHeader(t, first, source, dest, acks) =
            [ok |-> TRUE, past |-> FALSE, next |-> l, header |-> HeaderAsRead(h)]
    <2>1. CompleteHeader(t, first, source, dest, acks) =
            [ok |-> TRUE, past |-> FALSE, next |-> acks.next,
             header |-> [type |-> first.type, sequence_no |-> first.sequence_no,
                         timestamp |-> first.timestamp, source |-> source.elements,
                         destination |-> dest.elements, acks |-> acks.acks]]
      BY <1>12, Zenon DEF CompleteHeader
    <2>. QED  BY <1>3, <1>12, <2>1, Zenon DEF HeaderAsRead
  <1>. QED  BY <1>14, <1>15, <1>16, <1>17 DEF l


(***************************************************************************)
(* Messages.                                                               *)
(***************************************************************************)
LEMMA HoldsWhole ==
    ASSUME NEW t \in Text
    PROVE  Holds(t, 1, t)
  <1>1. Len(t) \in Nat /\ \A i \in 1..Len(t) : 1 + i - 1 = i
    BY TextLength
  <1>. QED  BY <1>1 DEF Holds

\* The text of a message: the header, a newline, the lines.
LEMMA MessageText ==
    ASSUME NEW m \in Message
    PROVE  /\ m.header \in Header /\ m.payload \in Seq(Command)
           /\ m = [header |-> m.header, payload |-> m.payload]
           /\ MessageAsString(m) =
                  (HeaderAsString(m.header) \o <<"\n">>) \o FlattenSeq(CommandLines(m.payload))
           /\ HeaderAsString(m.header) \in Text /\ <<"\n">> \in Text /\ Len(<<"\n">>) = 1
           /\ FlattenSeq(CommandLines(m.payload)) \in Text
           /\ MessageAsString(m) \in Text
           /\ Len(MessageAsString(m)) = (Len(HeaderAsString(m.header)) + 1)
                                          + Len(FlattenSeq(CommandLines(m.payload)))
  <1> DEFINE h == HeaderAsString(m.header)
             n == <<"\n">>
             p == FlattenSeq(CommandLines(m.payload))
  <1>1. /\ m.header \in Header /\ m.payload \in Seq(Command)
        /\ m = [header |-> m.header, payload |-> m.payload]
    BY DEF Message
  <1>2. h \in Text /\ p \in Text /\ n \in Text /\ Len(n) = 1
    BY <1>1, HeaderText, LinesText, OneToken, SomeTokens
  <1>3. MessageAsString(m) = (h \o n) \o p
    BY Zenon DEF MessageAsString, CommandLines, Line
  <1> HIDE DEF h, n, p
  <1>4. h \o n \in Text /\ Len(h \o n) = Len(h) + Len(n)
    BY <1>2, Joined
  <1> DEFINE hn == h \o n
  <1> HIDE DEF hn
  <1>5. hn \o p \in Text /\ Len(hn \o p) = Len(hn) + Len(p)
    BY <1>2, <1>4, Joined DEF hn
  <1>6. MessageAsString(m) = hn \o p /\ Len(hn) = Len(h) + 1
    BY <1>2, <1>3, <1>4 DEF hn
  <1>7. MessageAsString(m) \in Text /\ Len(MessageAsString(m)) = (Len(h) + 1) + Len(p)
    BY <1>5, <1>6
  <1>. QED  BY <1>1, <1>2, <1>3, <1>7 DEF h, n, p

LEMMA MessagePlaces ==
    ASSUME NEW m \in Message, NEW t, t = MessageAsString(m)
    PROVE  LET l == Len(HeaderAsString(m.header))
               p == FlattenSeq(CommandLines(m.payload))
           IN  /\ Holds(t, 1, HeaderAsString(m.header))
               /\ l \in Nat /\ l + 1 \in 1..Len(t) /\ t[l + 1] = "\n"
               /\ Holds(t, l + 2, p) /\ (l + 2) + Len(p) = Len(t) + 1
  <1> DEFINE h == HeaderAsString(m.header)
             n == <<"\n">>
             p == FlattenSeq(CommandLines(m.payload))
             l == Len(h)
  <1>1. /\ t \in Text /\ h \in Text /\ n \in Text /\ Len(n) = 1 /\ p \in Text
        /\ t = (h \o n) \o p /\ Len(t) = (l + 1) + Len(p)
    BY MessageText
  <1>2. Holds(t, 1, (h \o n) \o p)
    BY <1>1, HoldsWhole
  <1>3. l \in Nat /\ Len(p) \in Nat
    BY <1>1, TextLength
  <1>4. n = <<"\n">>
    OBVIOUS
  <1> HIDE DEF h, n, p, l
  <1>5. h \o n \in Text /\ Len(h \o n) = Len(h) + Len(n)
    BY <1>1, Joined
  <1>6. Holds(t, 1, h \o n) /\ Holds(t, 1 + Len(h \o n), p)
    BY <1>1, <1>2, <1>5, HoldsConcat
  <1>7. Holds(t, 1, h) /\ Holds(t, 1 + Len(h), n)
    BY <1>1, <1>6, HoldsConcat
  <1>8. 1 + Len(h) = l + 1 /\ 1 + Len(h \o n) = l + 2 /\ l + 1 \in Nat
    BY <1>1, <1>3, <1>5 DEF l
  <1>9. Holds(t, l + 1, n) /\ Holds(t, l + 2, p)
    BY <1>6, <1>7, <1>8
  <1>10. l + 1 \in 1..Len(t) /\ t[l + 1] = "\n"
    BY <1>1, <1>4, <1>8, <1>9, HoldsOne
  <1>11. (l + 2) + Len(p) = Len(t) + 1
    BY <1>1, <1>3
  <1>. QED  BY <1>3, <1>7, <1>9, <1>10, <1>11 DEF h, p, l

\* Whatever the payload is, the header is read.  A payload that is safe is read
\* with it.
LEMMA MessageRead ==
    ASSUME NEW m \in Message, m.header.source \in Seq(SafeElement),
           m.header.destination \in Seq(SafeElement)
    PROVE  LET r == ReadMessage(MessageAsString(m))
           IN  /\ \/ r.how = "broken"
                  \/ r.how = "ok" /\ r.message.header = HeaderAsRead(m.header)
               /\ PayloadIsSafe(m.payload) =>
                      r = [how |-> "ok",
                           message |-> [header |-> HeaderAsRead(m.header), payload |-> m.payload]]
  <1> DEFINE t == MessageAsString(m)
             l == Len(HeaderAsString(m.header))
             h == ReadHeader(t)
             q == l + 2
             p == ReadPayload(t, q)
             r == ReadMessage(t)
  <1>1. /\ t \in Text /\ m.header \in Header /\ m.payload \in Seq(Command)
        /\ HeaderAsString(m.header) \in Text
    BY MessageText
  <1>2. /\ Holds(t, 1, HeaderAsString(m.header))
        /\ l \in Nat /\ l + 1 \in 1..Len(t) /\ t[l + 1] = "\n"
        /\ Holds(t, q, FlattenSeq(CommandLines(m.payload)))
        /\ q + Len(FlattenSeq(CommandLines(m.payload))) = Len(t) + 1
    BY MessagePlaces
  <1>3. h = [ok |-> TRUE, past |-> FALSE, next |-> l, header |-> HeaderAsRead(m.header)]
    BY <1>1, <1>2, HeaderRead
  <1>4. l \in 1..Len(t) /\ t[l] = ")"
    BY <1>1, <1>2, HeaderPlaces
  <1> HIDE DEF t, l, h, q, p
  <1>5. h.ok /\ ~h.past /\ h.next = l /\ h.header = HeaderAsRead(m.header)
    BY <1>3
  <1>6. FindChar(t, l, "\n") = l + 1
    <2>1. PICK j \in Nat : j = l + 1
      BY <1>2
    <2>2. j \in 1..Len(t) /\ t[j] = "\n" /\ l \in 1..Len(t) + 1 /\ j \in l..Len(t) + 1
      BY <1>1, <1>2, <1>4, <2>1, TextLength
    <2>3. \A i \in l..j - 1 : t[i] \notin {"\n"}
      <3>1. \A i \in l..j - 1 : i = l
        BY <1>2, <2>1
      <3>. QED  BY <1>4, <3>1
    <2>4. FirstIn(t, l, {"\n"}) = j
      BY <1>1, <2>2, <2>3, FirstInUnique
    <2>. QED  BY <2>1, <2>4 DEF FindChar
  <1>7. Within(t, l + 1) /\ (l + 1) + 1 = q
    BY <1>2 DEF Within, q
  <1>8. r = IF p.broken THEN [how |-> "broken"]
            ELSE [how |-> "ok", message |-> [header |-> h.header, payload |-> p.payload]]
    <2>1. ReadPayload(t, FindChar(t, h.next, "\n") + 1) = p
      BY <1>5, <1>6, <1>7 DEF p
    <2>2. Within(t, FindChar(t, h.next, "\n"))
      BY <1>5, <1>6, <1>7
    <2>. QED  BY <1>5, <2>1, <2>2, Zenon DEF ReadMessage, MakeMessage, h
  <1>9. \/ r.how = "broken"
        \/ r.how = "ok" /\ r.message.header = HeaderAsRead(m.header)
    <2>1. CASE p.broken
      <3>1. r = [how |-> "broken"]
        BY <1>8, <2>1
      <3>. QED  BY <3>1
    <2>2. CASE ~p.broken
      <3>1. r = [how |-> "ok", message |-> [header |-> h.header, payload |-> p.payload]]
        BY <1>8, <2>2
      <3>. QED  BY <1>5, <3>1
    <2>. QED  BY <2>1, <2>2
  <1>10. ASSUME PayloadIsSafe(m.payload)
         PROVE  r = [how |-> "ok",
                     message |-> [header |-> HeaderAsRead(m.header), payload |-> m.payload]]
    <2>1. q \in Nat
      BY <1>2 DEF q
    <2>2. p = [payload |-> m.payload, broken |-> FALSE]
      BY <1>1, <1>2, <1>10, <2>1, PayloadRoundTrip DEF p
    <2>3. ~p.broken /\ p.payload = m.payload
      BY <2>2
    <2>. QED  BY <1>5, <1>8, <2>3
  <1>. QED  BY <1>9, <1>10 DEF t

LEMMA SafeAddress ==
    ASSUME NEW a \in Address, AddressIsSafe(a)
    PROVE  a \in Seq(SafeElement) /\ Sorted(a) = a
  <1>1. ASSUME NEW i \in 1..Len(a) PROVE a[i] \in SafeElement
    BY <1>1 DEF AddressIsSafe, SafeElement, Address
  <1>2. a \in Seq(SafeElement)
    BY <1>1, SeqDef DEF Address
  <1>. QED  BY <1>2, SortedKeepsOrder DEF AddressIsSafe

\* What one process writes into a datagram another one reads from it: a message
\* whose arguments and addresses are safe, and whose time is that of its writing,
\* comes out of mbus_message_read as it went into mbus_message_as_string.
THEOREM MessageRoundTrip ==
    ASSUME NEW m \in Message, MessageIsSafe(m), m.header.timestamp = Clock
    PROVE  ReadMessage(MessageAsString(m)) = [how |-> "ok", message |-> m]
  <1> DEFINE h == m.header
  <1>1. h \in Header /\ m = [header |-> h, payload |-> m.payload]
    BY MessageText
  <1>2. /\ h.source \in Seq(SafeElement) /\ Sorted(h.source) = h.source
        /\ h.destination \in Seq(SafeElement) /\ Sorted(h.destination) = h.destination
    BY <1>1, HeaderTypes, SafeAddress DEF MessageIsSafe
  <1>3. HeaderAsRead(h) = h
    BY <1>1, <1>2, HeaderTypes DEF HeaderAsRead
  <1>4. ReadMessage(MessageAsString(m)) =
            [how |-> "ok", message |-> [header |-> HeaderAsRead(h), payload |-> m.payload]]
    BY <1>2, MessageRead DEF MessageIsSafe
  <1>. QED  BY <1>1, <1>3, <1>4


=============================================================================
