---------------------------- MODULE RenderField ----------------------------
(***************************************************************************)
(* The field renderer of src/lib/render.c: render_field writes one field's *)
(* text into a cell of a fixed number of display columns and reports how  *)
(* much of the text it consumed; write_unprintable writes the escape for  *)
(* a codepoint that cannot be shown.                                      *)
(*                                                                         *)
(* A field's text is a sequence of codepoints (integers); a negative      *)
(* entry stands for a byte sequence the UTF-8 decoder rejects.  The byte  *)
(* offsets of the C code always fall on codepoint boundaries, so the      *)
(* model counts consumed text in codepoints.  The renderer's output is    *)
(* abstracted to the number of display columns it occupies.               *)
(***************************************************************************)
EXTENDS Integers, Sequences

CONSTANT CpWidth  \* neo4j_u8cpwidth: display width of a codepoint, -1 if unprintable

ASSUME CpWidth \in [DOMAIN CpWidth -> -1..2]

(* The NEO4J_RENDER_ASCII flag is the only flag render_field consults.    *)

(***************************************************************************)
(* neo4j_u8codepoint: length in bytes of the UTF-8 encoding of cp.        *)
(***************************************************************************)
Utf8Len(cp) ==
    CASE cp < 128   -> 1
      [] cp < 2048  -> 2
      [] cp < 65536 -> 3
      [] OTHER      -> 4

(* The control characters write_unprintable spells with a letter escape:  *)
(* \a \b \t \n \v \f \r.                                                   *)
NamedControls == 7..13

(* The length of the escape write_unprintable produces for cp.            *)
EscapeLen(cp) ==
    CASE cp \in NamedControls -> 2
      [] cp <= 65535          -> 6
      [] OTHER                -> 10

(* The number of bytes write_unprintable writes: the escape is cut at the  *)
(* cell width it is given, but EscapeLen is what it returns.               *)
EscapeWritten(cp, width) ==
    IF EscapeLen(cp) < width THEN EscapeLen(cp) ELSE width

(* render_field escapes a codepoint that is multi-byte under the ASCII     *)
(* flag, or that the width function calls unprintable.                     *)
Escaped(cp, ascii) == (Utf8Len(cp) > 1 /\ ascii) \/ CpWidth[cp] < 0

(***************************************************************************)
(* The loop of render_field.  k codepoints are consumed, used is the       *)
(* display budget charged so far and cols the columns actually written.   *)
(***************************************************************************)
RECURSIVE FieldLoop(_, _, _, _, _, _)
FieldLoop(text, width, ascii, k, used, cols) ==
    LET cp   == text[k + 1]
        Stop == [ok |-> TRUE, consumed |-> k, used |-> used, cols |-> cols]
    IN  IF used >= width \/ k >= Len(text) THEN Stop
        ELSE IF cp < 0 THEN [Stop EXCEPT !.ok = FALSE]
        ELSE IF Escaped(cp, ascii)
             THEN FieldLoop(text, width, ascii, k + 1, used + EscapeLen(cp),
                            cols + EscapeWritten(cp, width))
        ELSE IF used + CpWidth[cp] > width THEN Stop
        ELSE FieldLoop(text, width, ascii, k + 1, used + CpWidth[cp],
                       cols + CpWidth[cp])

(***************************************************************************)
(* render_field(stream, s, n, width, flags): the loop, then padding with  *)
(* spaces while used < width.  ok is FALSE when the decoder failed (the   *)
(* C function returns -1).                                                 *)
(***************************************************************************)
RenderFieldResult(text, width, ascii) ==
    LET r == FieldLoop(text, width, ascii, 0, 0, 0)
    IN  [r EXCEPT !.cols = @ + (IF r.used < width THEN width - r.used ELSE 0)]

=============================================================================
