---------------------------- MODULE MCRenderCsv ----------------------------
(* Model-checking instance of RenderCsv: names and values whose texts hold *)
(* quotes, commas and newlines; a null whose text is longer than the       *)
(* initial buffer.                                                          *)
EXTENDS RenderCsv, TLC

CONSTANT ESrc   \* a model value: the stream's failure code

MCNames == { <<"a">>, <<DQ, "a">>, <<"a", ",", DQ>> }

MCValues ==
    { [type |-> "string", text |-> <<>>],
      [type |-> "string", text |-> <<DQ, ",", "\n">>],
      [type |-> "null",   text |-> <<"n", "u", "l", "l">>],
      [type |-> "int",    text |-> <<"1">>],
      [type |-> "list",   text |-> <<"[", DQ, "]">>] }
=============================================================================
