------------------------------- MODULE MTypes -------------------------------
(***************************************************************************)
(* The arguments of a command: the objects of src/gmbus/mtypes.c and the    *)
(* lists of them, with their text.  A list is the sequence of what its text *)
(* shows, so that a list within it is there as its two brackets.            *)
(*                                                                          *)
(* The reader of lists checks little.  What it does with text that breaks   *)
(* its expectations is one of:                                              *)
(*   "failed"  it gives up (and says so, to a caller that does not look);   *)
(*   "broken"  it goes on with a pointer that was not set, or set for the   *)
(*             element before, or goes back and never ends.                 *)
(* It also writes a zero behind each string, symbol, number or data it has  *)
(* read, into the text: these positions are "zeros".                        *)
(***************************************************************************)
EXTENDS MText, SequencesExt

CONSTANTS
    Fixed,         \* what "%f" makes of a number with a decimal point
    Whole,         \* the digits before the point
    CommaLocale    \* is the decimal point of the process's locale a comma?

Integer == Digits \union Negative

ASSUME TypesAssumption ==
    /\ Fixed \in [Number -> Decimal]
    /\ Whole \in [Number -> Integer]
    /\ CommaLocale \in BOOLEAN

\* MType; the words of a symbol or a string and the bytes of data are tokens.
\* A base64 text is modelled by the bytes it stands for; what is no base64 text
\* is read as well.  A number is the word that is written for it.
Object ==
    [type : {"MINTEGER"}, content : {<<n>> : n \in Integer}]
      \union [type : {"MFLOAT"}, content : {<<n>> : n \in Number}]
      \union [type : {"MSTRING", "MSYMBOL", "MDATA"}, content : Text]
      \union [type : {"[", "]"}, content : {<<>>}]
MakeObject(type, content) == [type |-> type, content |-> content]

\* The brackets of a list are those of the lists within it.
Brackets(list, b, i) == {j \in 1..i : list[j].type = b}
Depth(list, i) ==
    Cardinality(Brackets(list, "[", i)) - Cardinality(Brackets(list, "]", i))
IsBalanced(list) ==
    Depth(list, Len(list)) = 0 /\ \A i \in DOMAIN list : Depth(list, i) >= 0

List == {list \in Seq(Object) : IsBalanced(list)}

\* __is_valid_symbol; mbus_symbol_new makes no object of other words.
IsValidSymbol(words) == \A i \in DOMAIN words : words[i] \in Word

\* Mutant: the group that the division drops is not added.
EncodedMutant(n) == IF n < 3 * (n \div 4) THEN n ELSE 3 * (n \div 4)

\* base64encode reserves room for 4 characters more than the bytes, rounded
\* down to a multiple of 4, and what it writes behind that is cut off.  With
\* more than 12 bytes it writes behind the array's memory, and with none it
\* leaves 4 characters of what was in the memory before.
Encoded(n)    == IF n < 3 * (n \div 4 + 1) THEN n ELSE 3 * (n \div 4 + 1)
InBounds(n)   == n \in 1..12

\* The lengths that come through are said here without the writer, so that what
\* it does of them can be told from what it should.
SafeLengths   == (1..6) \union {8, 9, 12}
IsPlain(data) == Len(data) \in SafeLengths /\ data \in Seq(Word)

(***************************************************************************)
(* Writing.                                                                *)
(***************************************************************************)
\* The "%f" of a locale with a comma is two words to the reader.
ObjectAsString(o) ==
    CASE o.type = "MFLOAT"  -> IF CommaLocale THEN <<Whole[o.content[1]], ",">>
                                              ELSE <<Fixed[o.content[1]]>>
      [] o.type = "MSTRING" -> <<Quote>> \o o.content \o <<Quote>>
      [] o.type = "MDATA"   -> <<"<">> \o SubSeq(o.content, 1, Encoded(Len(o.content))) \o <<">">>
      [] o.type = "["       -> <<"(">>
      [] o.type = "]"       -> <<")">>
      [] OTHER              -> o.content

\* Each element is followed by a blank, a list behind its closing bracket.
Separator(o) == IF o.type = "[" THEN <<>> ELSE <<" ">>

ListAsString(list) ==
    <<"(">> \o FlattenSeq([i \in DOMAIN list |->
                              ObjectAsString(list[i]) \o Separator(list[i])])
            \o <<")">>

\* Text that can not be written within the bounds of memory.
Overruns(list) ==
    \E i \in DOMAIN list : list[i].type = "MDATA" /\ ~InBounds(Len(list[i].content))

(***************************************************************************)
(* Reading.  An element is read at its first character q, which is no blank.*)
(* The element's "next" is where the list goes on.                          *)
(***************************************************************************)
Outcome(how, items, next, zeros) ==
    [how |-> how, items |-> items, next |-> next, zeros |-> zeros]

ReadString(t, q) ==
    LET e == FindChar(t, q + 1, Quote)
    IN  IF Within(t, e)
        THEN Outcome("read", <<MakeObject("MSTRING", SubSeq(t, q + 1, e - 1))>>, e + 1, {e})
        ELSE Outcome("failed", <<>>, q, {})

ReadData(t, q) ==
    LET e == FindChar(t, q + 1, ">")
    IN  IF ~Within(t, e) THEN Outcome("failed", <<>>, q, {})
        ELSE IF e = q + 1 THEN Outcome("broken", <<>>, q, {})
        ELSE Outcome("read", <<MakeObject("MDATA", SubSeq(t, q + 1, e - 1))>>, e + 1, {e})

\* Mutant: the decimal point is not looked for.
ReadNumberMutant(t, q) ==
    LET e == FirstIn(t, q + 1, Blank)
    IN  IF Within(t, e)
        THEN Outcome("read", <<MakeObject("MINTEGER", <<t[q]>>)>>, e + 1, {e})
        ELSE Outcome("broken", <<>>, q, {})

\* A number goes on to the next blank, whatever is before it, and is a float
\* when there is a decimal point anywhere up to there.
ReadNumber(t, q) ==
    LET e == FirstIn(t, q + 1, Blank)
        isFloat == \E i \in q..e - 1 : t[i] \in Decimal
    IN  IF Within(t, e)
        THEN Outcome("read", <<MakeObject(IF isFloat THEN "MFLOAT" ELSE "MINTEGER", <<t[q]>>)>>,
                     e + 1, {e})
        ELSE Outcome("broken", <<>>, q, {})

ReadSymbol(t, q) ==
    LET e == FindChar(t, q, " ")
        words == SubSeq(t, q, e - 1)
    IN  IF Within(t, e) /\ IsValidSymbol(words)
        THEN Outcome("read", <<MakeObject("MSYMBOL", words)>>, e + 1, {e})
        ELSE Outcome("failed", <<>>, q, IF Within(t, e) THEN {e} ELSE {})

\* Mutant: an empty list within the list is taken for one that failed.
NestedListMutant(t, q, inner) ==
    IF inner.how = "closed" /\ Within(t, inner.next) /\ inner.items # <<>>
    THEN Outcome("read",
                 <<MakeObject("[", <<>>)>> \o inner.items \o <<MakeObject("]", <<>>)>>,
                 inner.next + 1, inner.zeros)
    ELSE Outcome("broken", <<>>, q, {})

\* A list within the list, of which "inner" is what was read behind its
\* bracket.  The position of its end comes from the number of characters it
\* took, which is -1 when it failed, and one too many when the text ended.
NestedList(t, q, inner) ==
    IF inner.how = "closed" /\ Within(t, inner.next)
    THEN Outcome("read",
                 <<MakeObject("[", <<>>)>> \o inner.items \o <<MakeObject("]", <<>>)>>,
                 inner.next + 1, inner.zeros)
    ELSE Outcome("broken", <<>>, q, {})

ReadListElement(t, q, inner) ==
    CASE t[q] = Quote      -> ReadString(t, q)
      [] t[q] = "<"        -> ReadData(t, q)
      [] t[q] = "("        -> NestedList(t, q, inner)
      [] t[q] \in Number   -> ReadNumber(t, q)
      [] t[q] \in Upper    -> ReadSymbol(t, q)
      [] OTHER             -> Outcome("broken", <<>>, q, {})

\* mbus_list_read behind the bracket at p: "closed" by a bracket or by the end
\* of the text.  A list that fails keeps the elements before.
Items(t, From, q) ==
    LET s    == FirstNonWhitespace(t, q)
        one  == ReadListElement(t, s, From[s + 1])
        rest == From[one.next]
    IN  IF ~Within(t, s) \/ t[s] = ")" THEN Outcome("closed", <<>>, s, {})
        ELSE IF one.how # "read" THEN one
        ELSE Outcome(rest.how, one.items \o rest.items, rest.next,
                     one.zeros \union rest.zeros)

ReadList(t, p) ==
    LET From[q \in 1..Len(t) + 1] == Items(t, From, q)
    IN  From[p]

(***************************************************************************)
(* What arrives as it was sent.                                            *)
(***************************************************************************)
\* A symbol that begins with a small letter is no symbol to the reader, and a
\* quote ends a string wherever it is.
ObjectIsSafe(o) ==
    CASE o.type = "MSYMBOL" -> /\ o.content # <<>>
                               /\ IsValidSymbol(o.content)
                               /\ o.content[1] \in Upper
      [] o.type = "MSTRING" -> \A i \in DOMAIN o.content : o.content[i] # Quote
      [] o.type = "MDATA"   -> IsPlain(o.content)
      [] o.type = "MFLOAT"  -> ~CommaLocale /\ Fixed[o.content[1]] = o.content[1]
      [] OTHER              -> TRUE

ListIsSafe(list) == \A i \in DOMAIN list : ObjectIsSafe(list[i])

=============================================================================
