------------------------------ MODULE MMessage ------------------------------
(***************************************************************************)
(* Messages: a header (src/gmbus/mheader.c) and a payload                   *)
(* (src/gmbus/mpayload.c) of commands (src/gmbus/mcommand.c), one on each   *)
(* line, put together by src/gmbus/mmessage.c.  A message is written by its *)
(* sender, as a text, and read by the receivers.                            *)
(***************************************************************************)
EXTENDS MAddress, MTypes

CONSTANT Clock    \* what a sender reads from its clock, a run of digits

ASSUME MessageAssumption == Clock \in Digits /\ {"U", "R"} \subseteq Upper

Header ==
    [type : {"U", "R"}, sequence_no : Digits, timestamp : Digits,
     source : Address, destination : Address, acks : Seq(Digits)]

Command == [cmd : Seq(Word), arguments : List]
Message == [header : Header, payload : Seq(Command)]

(***************************************************************************)
(* Writing.                                                                *)
(***************************************************************************)
\* Mutant: the blank behind an acknowledgement is left out.
AckAsStringMutant(ack) == <<ack>>

AckAsString(ack) == <<ack, " ">>

\* The time that is written is that of the writing, not the header's.
HeaderAsString(h) ==
    <<Version, " ", h.sequence_no, " ", Clock, " ", h.type, " ">>
      \o AddressAsString(h.source) \o <<" ">>
      \o AddressAsString(h.destination) \o <<" ", "(">>
      \o FlattenSeq([i \in DOMAIN h.acks |-> AckAsString(h.acks[i])]) \o <<")">>

CommandAsString(c) == c.cmd \o ListAsString(c.arguments)

MessageAsString(m) ==
    HeaderAsString(m.header) \o <<"\n">>
      \o FlattenSeq([i \in DOMAIN m.payload |-> CommandAsString(m.payload[i]) \o <<"\n">>])

(***************************************************************************)
(* Reading.                                                                *)
(***************************************************************************)
\* A run of digits that a blank follows.
IsNumberAt(t, p) ==
    Within(t, p) /\ t[p] \in Digits /\ Within(t, p + 1) /\ t[p + 1] \in Blank

\* The acknowledgements at p: each is a run of digits before a blank.
Acks(t, From, q) ==
    LET s == CutWhitespaces(t, q)
        rest == From[s + 1]
        End(ok, past) == [acks |-> <<>>, ok |-> ok, past |-> past, next |-> s]
    IN  IF ~Within(t, s) THEN End(FALSE, TRUE)
        ELSE IF t[s] = ")" THEN End(TRUE, FALSE)
        ELSE IF ~IsNumberAt(t, s) THEN End(FALSE, FALSE)
        ELSE [rest EXCEPT !.acks = <<t[s]>> \o @]

ReadAcks(t, p) ==
    LET From[q \in 1..Len(t) + 1] == Acks(t, From, q)
    IN  From[p]

\* mbus_header_read.  Each step is taken only when those before went well; the
\* blanks behind the timestamp and the type are one each, those elsewhere are
\* as many as there are.  "next" is the bracket that ends the acknowledgements.
NoHeader(past) == [ok |-> FALSE, past |-> past]

\* The steps up to the type; "next" is behind it.
ReadNumbers(t) ==
    LET v == CutWhitespaces(t, 1)
        n == CutWhitespaces(t, v + 1)
        s == CutWhitespaces(t, n + 2)
        y == s + 2
    IN  IF ~Within(t, v) THEN NoHeader(TRUE)
        ELSE IF t[v] # Version THEN NoHeader(FALSE)
        ELSE IF ~Within(t, n) THEN NoHeader(TRUE)
        ELSE IF ~IsNumberAt(t, n) THEN NoHeader(FALSE)
        ELSE IF ~Within(t, s) THEN NoHeader(TRUE)
        ELSE IF ~IsNumberAt(t, s) \/ ~Within(t, y) THEN NoHeader(FALSE)
        ELSE IF t[y] \notin {"U", "R"} THEN NoHeader(FALSE)
        ELSE [ok |-> TRUE, type |-> t[y], sequence_no |-> t[n], timestamp |-> t[s],
              next |-> y + 1]

\* The step that reads the acknowledgements, and the header made of all.
CompleteHeader(t, first, source, destination, acks) ==
    IF ~acks.ok THEN NoHeader(acks.past)
    ELSE [ok |-> TRUE, past |-> FALSE, next |-> acks.next,
          header |-> [type |-> first.type, sequence_no |-> first.sequence_no,
                      timestamp |-> first.timestamp, source |-> source.elements,
                      destination |-> destination.elements, acks |-> acks.acks]]

\* The steps behind the source address.
ReadFromDestination(t, first, source, destination) ==
    LET open == CutWhitespaces(t, destination.next)
    IN  IF ~destination.ok THEN NoHeader(destination.past)
        ELSE IF ~Within(t, open) THEN NoHeader(TRUE)
        ELSE IF t[open] # "(" THEN NoHeader(FALSE)
        ELSE CompleteHeader(t, first, source, destination, ReadAcks(t, open + 1))

ReadFromSource(t, first, source) ==
    IF ~source.ok THEN NoHeader(source.past)
    ELSE ReadFromDestination(t, first, source, ReadAddress(t, source.next))

ReadHeader(t) ==
    LET first == ReadNumbers(t)
    IN  IF ~first.ok THEN first
        ELSE ReadFromSource(t, first, ReadAddress(t, first.next))

\* mbus_command_read at p.  The characters of the list are erased from the text
\* behind the name, but not counted with them are the blanks before the list:
\* as many characters of the list stay.  A list that failed stays whole, and so
\* does one that the end of the text closed, when no blank is before it.
MakeCommand(t, p, n, s, list) ==
    LET taken == n + (list.next - s + 1)
    IN  [command |-> [cmd |-> SubSeq(t, p, n - 1), arguments |-> list.items],
         broken  |-> list.how = "broken",
         zeros   |-> list.zeros,
         next    |-> IF list.how = "closed" /\ taken <= Len(t) + 1 THEN taken ELSE n]

ReadCommand(t, p) ==
    LET n == Beyond(t, p, Word)
        s == FirstNonWhitespace(t, n)
    IN  MakeCommand(t, p, n, s,
                    IF Within(t, s) /\ t[s] = "(" THEN ReadList(t, s + 1)
                                                  ELSE Outcome("failed", <<>>, s, {}))

\* mbus_command_new with a text.
CommandNew(t) == ReadCommand(t, 1)

\* mbus_payload_read at p: the rest of a line is skipped up to the newline, or
\* up to one of the zeros, where the payload ends, whatever follows.  A zero
\* that stays ahead would end a later line early: nothing is said of that.
\* A text of one character is taken for an empty one.
Lines(t, From, q) ==
    LET one == ReadCommand(t, q)
        nl  == FindChar(t, one.next, "\n")
        rest == From[nl + 1]
    IN  IF \/ ~Within(t, q)
           \/ t[q] = "\n"
           \/ q = Len(t) /\ t[q] \in Mark
        THEN [payload |-> <<>>, broken |-> FALSE]
        ELSE IF one.broken THEN [payload |-> <<>>, broken |-> TRUE]
        ELSE IF ~Within(t, nl) \/ one.zeros \cap (one.next..nl) # {}
             THEN [payload |-> <<one.command>>, broken |-> FALSE]
        ELSE [payload |-> <<one.command>> \o rest.payload,
              broken  |-> rest.broken \/ \E z \in one.zeros : z > nl]

ReadPayload(t, p) ==
    LET From[q \in 1..Len(t) + 1] == Lines(t, From, q)
    IN  From[p]

\* mbus_message_read: "ok", "refused" or "broken".
MakeMessage(t, h) ==
    LET nl == FindChar(t, h.next, "\n")
        p  == ReadPayload(t, nl + 1)
    IN  IF h.past THEN [how |-> "broken"]
        ELSE IF ~h.ok \/ ~Within(t, nl) THEN [how |-> "refused"]
        ELSE IF p.broken THEN [how |-> "broken"]
        ELSE [how |-> "ok", message |-> [header |-> h.header, payload |-> p.payload]]

ReadMessage(t) == MakeMessage(t, ReadHeader(t))

(***************************************************************************)
(* What arrives as it was sent.                                            *)
(***************************************************************************)
\* An address has the elements in order, as the ones that were read and the
\* ones that were made unique have, and no element is without a key.
AddressIsSafe(a) ==
    /\ InOrder(a)
    /\ \A i \in DOMAIN a :
           LET v == a[i].value
           IN  \A j \in DOMAIN v : v[j] \notin Blank \union {")"}

PayloadIsSafe(payload) == \A i \in DOMAIN payload : ListIsSafe(payload[i].arguments)

MessageIsSafe(m) ==
    /\ AddressIsSafe(m.header.source)
    /\ AddressIsSafe(m.header.destination)
    /\ PayloadIsSafe(m.payload)

=============================================================================
