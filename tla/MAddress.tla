------------------------------ MODULE MAddress ------------------------------
(***************************************************************************)
(* Addresses of src/gmbus/maddress.c: sequences of elements key:value.      *)
(* Entities are found in hash tables by their address, and a message is for *)
(* an entity when the entity's address is a subset of its destination.      *)
(* Equality goes element by element, so it relies on the order in which the *)
(* elements are kept.                                                       *)
(***************************************************************************)
EXTENDS MText, SequencesExt

CONSTANT Rank    \* the order of keys by strcmp: a number for each key

NoKey == ""
Key   == Alnum \union {NoKey}

ASSUME AddressAssumption ==
    /\ Rank \in [Key -> Nat]
    /\ \A k, l \in Key : Rank[k] = Rank[l] => k = l
    /\ "id" \in Alnum

Element == [key : Key, value : Text]
Address == Seq(Element)

IsWild(value) == value # <<>> /\ Head(value) = "*"

ElementIsEqual(e, f) ==
    e.key = f.key /\ (IsWild(e.value) \/ IsWild(f.value) \/ e.value = f.value)

IsEqual(a, b) ==
    Len(a) = Len(b) /\ \A i \in DOMAIN a : ElementIsEqual(a[i], b[i])

\* Every element of the other address, which names but a few, is one of a's.
IsSubsetOf(a, b) ==
    \A j \in DOMAIN b : \E i \in DOMAIN a : ElementIsEqual(a[i], b[j])

\* The element that mbus_address_find returns is the first with that key.
Positions(a, key) == {i \in DOMAIN a : a[i].key = key}
IsUnique(a)       == Positions(a, "id") # {}

\* The string that is hashed; an address with no id has the hash of nothing.
HashedBy(a) ==
    IF IsUnique(a) THEN a[Min(Positions(a, "id"))].value ELSE <<>>

\* g_ptr_array_sort keeps the order of elements with the same key.
Precedes(a, i, j) ==
    \/ Rank[a[i].key] < Rank[a[j].key]
    \/ a[i].key = a[j].key /\ i < j

Sorted(a) ==
    [n \in DOMAIN a |->
        a[CHOOSE j \in DOMAIN a :
             Cardinality({i \in DOMAIN a : Precedes(a, i, j)}) = n - 1]]

InOrder(a) ==
    \A i, j \in DOMAIN a : i < j => Rank[a[i].key] <= Rank[a[j].key]

\* Mutant: the elements are not sorted after the id was added.
DisambiguateMutant(a, id) ==
    IF IsUnique(a) THEN a ELSE Append(a, [key |-> "id", value |-> <<id>>])

\* The id of an address that has one is kept.
Disambiguate(a, id) ==
    Sorted(IF IsUnique(a) THEN a ELSE Append(a, [key |-> "id", value |-> <<id>>]))

(***************************************************************************)
(* Text.                                                                   *)
(***************************************************************************)
ElementAsString(e) ==
    (IF e.key = NoKey THEN <<>> ELSE <<e.key>>) \o <<":">> \o e.value \o <<" ">>

AddressAsString(a) ==
    <<"(">> \o FlattenSeq([i \in DOMAIN a |-> ElementAsString(a[i])]) \o <<")">>

\* mbus_address_element_read, which has cut the blanks before k: the element, or
\* where it gave up.  A value goes on to the next blank or bracket.
ReadElement(t, k) ==
    LET c == Beyond(t, k, Alnum)
        e == FirstIn(t, c + 1, Blank \union {")"})
    IN  IF Within(t, c) /\ c <= k + 1 /\ t[c] = ":"
        THEN [ok |-> TRUE, next |-> e,
              element |-> [key   |-> IF c = k THEN NoKey ELSE t[k],
                           value |-> SubSeq(t, c + 1, e - 1)]]
        ELSE [ok |-> FALSE, next |-> k]

\* mbus_address_read at p, into an address that has no elements.  An element
\* that can not be read ends the address; the elements before it are kept, but
\* they are sorted only when the closing bracket follows.  "past" tells that
\* the reader went behind the end of the text.
Elements(t, From, q) ==
    LET r    == ReadElement(t, CutWhitespaces(t, q))
        rest == From[r.next]
    IN  IF ~r.ok THEN [elements |-> <<>>, next |-> CutWhitespaces(t, r.next)]
        ELSE IF Within(t, r.next) /\ t[r.next] = ")"
             THEN [elements |-> <<r.element>>, next |-> r.next]
             ELSE [elements |-> <<r.element>> \o rest.elements, next |-> rest.next]

ReadElements(t, p) ==
    LET From[q \in 1..Len(t) + 1] == Elements(t, From, q)
    IN  From[p]

CloseAddress(t, body) ==
    IF ~Within(t, body.next) \/ t[body.next] # ")"
    THEN [elements |-> body.elements, ok |-> FALSE,
          past |-> ~Within(t, body.next), next |-> body.next]
    ELSE [elements |-> Sorted(body.elements), ok |-> TRUE, past |-> FALSE,
          next |-> body.next + 1]

ReadAddress(t, p) ==
    LET open == CutWhitespaces(t, p)
    IN  IF ~Within(t, open) \/ t[open] # "("
        THEN [elements |-> <<>>, ok |-> FALSE, past |-> ~Within(t, open), next |-> open]
        ELSE CloseAddress(t, ReadElements(t, open + 1))

=============================================================================
