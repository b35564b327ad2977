--------------------------- MODULE MCRtmpCommands ---------------------------
(* An instance of RtmpCommands with bytes below 24: a string is a long one   *)
(* from 576 bytes on, which the url of the longest stream just reaches.      *)
EXTENDS RtmpCommands

MCAppNames == {<<7>>, <<7, 8>>}

MCStreamNames == {<<9>>, Word(9, 552), Word(9, 553)}

MCPropertyNames == {<<7>>, <<7, 8>>}

\* A string may look like the end of an object.
MCPropertyValues ==
    {Value(NUMBER, Double(3)), Value(BOOLEANTYPE, <<0>>), Value(BOOLEANTYPE, <<1>>),
     Value(STRINGTYPE, <<>>), Value(STRINGTYPE, <<0, 0, 9>>)}
=============================================================================
