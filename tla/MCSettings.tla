----------------------------- MODULE MCSettings ------------------------------
(* Instances of Settings for TLC.  The strings and the addresses are model   *)
(* values.                                                                   *)
EXTENDS Settings

CONSTANTS word, bad, ip, dotted   \* the members of Words, BadStrings, Addrs

MCDotted == [a \in Addrs |-> dotted]

Typed(t, v) == [type |-> t, val |-> v]

TextBin == <<"text", "bin">>
BinText == <<"bin", "text">>
TextOnly == <<"text">>

TwoInts == {Typed("INT", 1), Typed("INT", 2)}

\* Values of every type which load_text takes for what save_text wrote, and a
\* string that set_string rejects.
TextSafe == {Typed("INT", 1), Typed("BOOL", 2), Typed("BOOL", 0),
             Typed("FLOAT", -FloatUnit - TextUnit), Typed("STRING", word),
             Typed("STRING", bad), Typed("IP", ip)}
=============================================================================
