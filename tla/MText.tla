-------------------------------- MODULE MText --------------------------------
(***************************************************************************)
(* The text of a message as its reader takes it: a sequence of tokens.  The *)
(* characters with a meaning of their own are tokens, and each maximal run  *)
(* of the characters a symbol may have is one.  The functions of            *)
(* src/gmbus/mutil.c that walk along a text are positions here: a position  *)
(* behind the last token is the terminating zero, or beyond it.             *)
(***************************************************************************)
EXTENDS Integers, Sequences

CONSTANTS
    Digits,      \* runs of digits
    Negative,    \* the same after a minus sign
    Decimal,     \* numbers with a decimal point
    Upper,       \* other words that begin with a capital letter
    Lower,       \* the words that begin with anything else
    Alnum        \* the words that have letters and digits only

Quote   == "\""
Version == "mbus/1.0"
Blank   == {" ", "\n"}
Mark    == Blank \union {"(", ")", "<", ">", ":", ",", "*", Quote, Version}
Number  == Digits \union Negative \union Decimal
Word    == Number \union Upper \union Lower

ASSUME TextAssumption ==
    /\ Alnum \subseteq Word
    /\ Mark \cap Word = {}
    /\ Decimal \cap (Digits \union Negative) = {}
    /\ Number \cap (Upper \union Lower) = {}
    /\ Upper \cap Lower = {}

Text == Seq(Mark \union Word)

\* The first position of t, not before p, that holds one of the tokens S (or,
\* for Beyond, that holds none of them); the position behind t when there is
\* none.
FirstIn(t, p, S) ==
    CHOOSE q \in p..Len(t) + 1 : /\ q = Len(t) + 1 \/ t[q] \in S
                                 /\ \A i \in p..q - 1 : t[i] \notin S
Beyond(t, p, S) ==
    CHOOSE q \in p..Len(t) + 1 : /\ q = Len(t) + 1 \/ t[q] \notin S
                                 /\ \A i \in p..q - 1 : t[i] \in S

FindChar(t, p, c)      == FirstIn(t, p, {c})
FirstNonWhitespace(t, p) == Beyond(t, p, {" "})

\* This one does not stop at the terminating zero: when nothing but blanks is
\* left it reads on behind the text (see Within).
CutWhitespaces(t, p) == Beyond(t, p, Blank)
Within(t, p) == p \in 1..Len(t)

=============================================================================
