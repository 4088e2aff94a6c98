------------------------------- MODULE MCLink -------------------------------
(* Instances of MLink for TLC. *)
EXTENDS MLink

CONSTANTS p1, p2, k1, k2, h4, h6

TwoProcesses == {p1, p2}
OnlyTwo == {p2}
TwoKeys      == {k1, k2}
Hosts        == {h4, h6}

\* Words, with "0.0000001" for a number that "%f" has no digits for.
DigitWords    == {"0", "7", "47000"}
NegativeWords == {"-5"}
DecimalWords  == {"1.5", "0.0000001", "0.0", "7.0", "47000.0", "-5.0"}
UpperWords    == {"U", "R", "OK"}
LowerWords    == {"id", "app", "module", "1-0@h", "1-1@h", "mbus.hello", "mbus.test", "bla"}
AlnumWords    == {"id", "app", "module", "bla", "0", "7"}

PrintedAs == [n \in Number |->
    CASE n = "0.0000001" -> "0.0" [] n = "0" -> "0.0" [] n = "7" -> "7.0"
      [] n = "47000" -> "47000.0" [] n = "-5" -> "-5.0" [] OTHER -> n]
WholeOf == [n \in Number |->
    CASE n \in Digits \union Negative -> n [] n = "1.5" -> "7" [] n = "7.0" -> "7"
      [] n = "47000.0" -> "47000" [] n = "-5.0" -> "-5" [] OTHER -> "0"]
Ranks == [k \in Alnum \union {""} |->
    CASE k = "" -> 0 [] k = "0" -> 1 [] k = "7" -> 2 [] k = "app" -> 3
      [] k = "bla" -> 4 [] k = "id" -> 5 [] k = "module" -> 6]
Ids == (p1 :> "1-0@h") @@ (p2 :> "1-1@h")

IP(d, v, h) == [dots |-> d, valid |-> v, host |-> h]
Plain == [HASHKEY |-> k1, ADDRESS |-> Missing, PORT |-> 47000, SCOPE |-> Missing,
          INTERFACE |-> Missing, SEND_UNICAST |-> Missing]
ManyFiles ==
    {Plain,
     [Plain EXCEPT !.HASHKEY = k2],
     [Plain EXCEPT !.SCOPE = "LINKLOCAL", !.INTERFACE = IP(TRUE, TRUE, h4)],
     [Plain EXCEPT !.ADDRESS = IP(FALSE, TRUE, h6)],
     [Plain EXCEPT !.INTERFACE = IP(FALSE, FALSE, h6)],      \* "eth0"
     [Plain EXCEPT !.PORT = Missing],
     [Plain EXCEPT !.ADDRESS = IP(TRUE, FALSE, h4)],
     [Plain EXCEPT !.HASHKEY = Missing]}
FilesOf == (p1 :> ManyFiles) @@
           (p2 :> {Plain, [Plain EXCEPT !.ADDRESS = IP(FALSE, TRUE, h6)]})
Ports == {47000}

\* "(module:bla app:7)", not in order, and "(app:7 bla)", which has an element
\* without a value.
Addresses ==
    (p1 :> <<"(", "module", ":", "bla", " ", "app", ":", "7", ")">>) @@
    (p2 :> <<"(", "app", ":", "7", " ", "bla", ")">>)

Msg(type, destination, acks, payload) ==
    [type |-> type, sequence_no |-> "7", destination |-> destination,
     acks |-> acks, payload |-> payload]
Cmd(arguments) == [cmd |-> <<"mbus.test">>, arguments |-> arguments]
Obj(type, content) == MakeObject(type, content)
Everyone == <<"(", ")">>
Somebody == <<"(", "id", ":", "1-0@h", " ", "app", ":", "*", " ", ")">>

\* Drafts: arguments of every type in two lists, two commands; strings and
\* symbols that are not safe; data that are cut; texts of commands.
Mixed == <<Obj("MINTEGER", <<"-5">>), Obj("[", <<>>), Obj("MSTRING", <<"bla", ")", "\n">>),
           Obj("[", <<>>), Obj("]", <<>>), Obj("MFLOAT", <<"1.5">>), Obj("]", <<>>),
           Obj("MSYMBOL", <<"OK">>), Obj("MDATA", <<"7", "0", "7", "0", "7">>)>>
Seven == <<"0", "7", "0", "7", "0", "7", "0">>
JustWritten(m) == [message |-> m, spoken |-> <<>>]
Said(text)     == [message |-> Msg("U", Everyone, <<>>, <<>>), spoken |-> <<text>>]
Drafts ==
    {[message |-> Msg("R", Somebody, <<"0", "7">>, <<Cmd(Mixed), Cmd(<<>>)>>),
      spoken |-> <<<<"mbus.hello", " ", "(", ")">>>>],
     JustWritten(Msg("U", Everyone, <<>>,
         <<Cmd(<<Obj("MINTEGER", <<"0">>), Obj("MSTRING", <<"bla", Quote, "OK">>)>>), Cmd(<<>>)>>)),
     JustWritten(Msg("U", Everyone, <<>>, <<Cmd(<<Obj("MSYMBOL", <<"bla">>)>>)>>)),
     JustWritten(Msg("U", Everyone, <<>>, <<Cmd(<<Obj("MDATA", Seven)>>), Cmd(Mixed)>>)),
     JustWritten(Msg("U", Everyone, <<>>, <<Cmd(<<Obj("MDATA", <<>>)>>)>>)),
     Said(<<"mbus.test", "(", "bla", ")">>)}

\* The text of src/tests/mtest.c, and one of another version.
Meaning(type, cmds) ==
    [header |-> [type |-> type, sequence_no |-> "0", timestamp |-> "7", source |-> <<>>,
                 destination |-> <<>>, acks |-> <<>>], payload |-> cmds]
TestText == <<Version, " ", "0", " ", "7", " ", "U", " ", "(", ")", " ", "(", ")", " ", "(", ")",
              "\n", "mbus.test", "(", Quote, "bla", Quote, ")">>
ForeignTexts ==
    {[key |-> k1, text |-> TestText, message |-> Meaning("U", <<Cmd(<<Obj("MSTRING", <<"bla">>)>>)>>)],
     [key |-> k2, text |-> <<"U", " ", "7", "\n">>, message |-> Meaning("U", <<>>)]}

\* The theorems about HeardAsSent and OnlyUnsafeIsUndefined take this for granted.
ASSUME ForeignersAreUnderstood == OthersAreUnderstood

Longest == 78
=============================================================================
