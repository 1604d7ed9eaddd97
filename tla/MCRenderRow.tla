---------------------------- MODULE MCRenderRow ----------------------------
(* Model-checking instance of RenderRow: two columns, a handful of texts   *)
(* mixing one-byte, two-byte, wide, zero-width, control, astral and        *)
(* undecodable codepoints.                                                  *)
EXTENDS RenderRow, TLC

A   == 97       \* 'a'
E   == 233      \* 'é', two bytes, one column
Cmb == 769      \* U+0301 combining acute, zero columns
Wd  == 19968    \* U+4E00, two columns
Ctl == 1        \* U+0001, escaped as \u0001
Tab == 9        \* escaped as \t
Tag == 917505   \* U+E0001, unprintable, escaped as \U000E0001
Bad == -1       \* a byte sequence neo4j_u8codepoint rejects

(* neo4j_u8cpwidth on the codepoints used here. *)
MCCpWidth ==
    (A :> 1) @@ (E :> 1) @@ (Cmb :> 0) @@ (Wd :> 2) @@ (Ctl :> -1)
        @@ (Tab :> -1) @@ (Tag :> -1)

MCTexts ==
    { <<>>, <<A>>, <<A, A, A, A>>, <<A, Wd>>, <<Wd, A>>, <<A, Ctl>>,
      <<Tab, A, A>>, <<E, Cmb, Tag>>, <<A, Bad>> }

MCWidthSet == {0, 2, 3, 5}
=============================================================================
