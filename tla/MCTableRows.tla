---------------------------- MODULE MCTableRows ----------------------------
(* Model-checking instance of TableRows: two fields, two rows, a few      *)
(* texts that wrap, take two columns or fail to decode.                    *)
EXTENDS TableRows, TLC

CONSTANT ESrc   \* a model value: the stream's failure code

A   == 97       \* 'a'
Wd  == 19968    \* U+4E00, two columns
Bad == -1       \* a byte sequence neo4j_u8codepoint rejects

MCCpWidth == (A :> 1) @@ (Wd :> 2)

MCTexts == { <<>>, <<A, A, A>>, <<Wd>>, <<A, Bad>> }
=============================================================================
