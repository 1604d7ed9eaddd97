---------------------------- MODULE RenderRule ----------------------------
(***************************************************************************)
(* The border renderers of src/lib/render.c: render_hrule, which writes   *)
(* one horizontal rule glyph by glyph, and render_border_line, which       *)
(* writes one glyph, together with the choice of glyph set the caller      *)
(* makes once per render (normalize_render_flags, glifs_for_encoding).    *)
(*                                                                         *)
(* A glyph is its codepoint; fputs of a glyph is one step that writes it   *)
(* or fails.  All glyphs of both sets are one display column wide.         *)
(***************************************************************************)
EXTENDS Integers, Sequences, SequencesExt, TableLayout

CONSTANTS
    NCols,           \* largest ncolumns of a call
    WidthSet,        \* the column widths a call may pass (0 = elided)
    Codesets,        \* what nl_langinfo(CODESET) may return
    HaveLangInfo     \* the build's HAVE_LANGINFO_CODESET

ASSUME "UTF-8" \in Codesets /\ HaveLangInfo \in BOOLEAN
ASSUME \A w \in WidthSet : w = 0 \/ w >= 2

Cols == 1..NCols
Positions == {"top", "head", "middle", "bottom"}
LineTypes == {"HORIZONTAL_LINE", "HEAD_LINE", "VERTICAL_LINE",
              "TOP_LEFT_CORNER", "TOP_MIDDLE_CORNER", "TOP_RIGHT_CORNER",
              "HEAD_LEFT_CORNER", "HEAD_MIDDLE_CORNER", "HEAD_RIGHT_CORNER",
              "MIDDLE_LEFT_CORNER", "MIDDLE_MIDDLE_CORNER", "MIDDLE_RIGHT_CORNER",
              "BOTTOM_LEFT_CORNER", "BOTTOM_MIDDLE_CORNER", "BOTTOM_RIGHT_CORNER"}
Newline == 10

(* The two static glyph sets, as codepoints.                               *)
AsciiGlifs ==
    [horizontal_line |-> 45, head_line |-> 45, vertical_line |-> 124,
     top_corners |-> <<43, 43, 43>>, head_corners |-> <<43, 43, 43>>,
     middle_corners |-> <<43, 43, 43>>, bottom_corners |-> <<43, 43, 43>>,
     overflow |-> 61]
U8Glifs ==
    [horizontal_line |-> 9472, head_line |-> 9552, vertical_line |-> 9474,
     top_corners |-> <<9484, 9516, 9488>>, head_corners |-> <<9566, 9578, 9569>>,
     middle_corners |-> <<9500, 9532, 9508>>,
     bottom_corners |-> <<9492, 9524, 9496>>, overflow |-> 8230]

(* Mutant of NormalizeRenderFlags: the caller's ASCII flag is not turned  *)
(* into ASCII_ART; only the codeset decides.                               *)
NormalizeIgnoringAscii(flags, codeset) ==
    IF HaveLangInfo /\ codeset = "UTF-8" THEN flags
    ELSE flags \cup {"ASCII_ART"}

(* ASCII forces ASCII-art borders, and so does a codeset other than UTF-8 *)
(* or a build without nl_langinfo.                                         *)
NormalizeRenderFlags(flags, codeset) ==
    IF HaveLangInfo /\ "ASCII" \notin flags /\ codeset = "UTF-8" THEN flags
    ELSE flags \cup {"ASCII_ART"}

GlifsForEncoding(flags) ==
    IF HaveLangInfo /\ "ASCII_ART" \notin flags THEN U8Glifs ELSE AsciiGlifs

(* render_border_line's switch from a line type to its glyph.              *)
BorderGlif(g, t) ==
    [HORIZONTAL_LINE |-> g.horizontal_line, HEAD_LINE |-> g.head_line,
     VERTICAL_LINE |-> g.vertical_line,
     TOP_LEFT_CORNER |-> g.top_corners[1], TOP_MIDDLE_CORNER |-> g.top_corners[2],
     TOP_RIGHT_CORNER |-> g.top_corners[3],
     HEAD_LEFT_CORNER |-> g.head_corners[1], HEAD_MIDDLE_CORNER |-> g.head_corners[2],
     HEAD_RIGHT_CORNER |-> g.head_corners[3],
     MIDDLE_LEFT_CORNER |-> g.middle_corners[1],
     MIDDLE_MIDDLE_CORNER |-> g.middle_corners[2],
     MIDDLE_RIGHT_CORNER |-> g.middle_corners[3],
     BOTTOM_LEFT_CORNER |-> g.bottom_corners[1],
     BOTTOM_MIDDLE_CORNER |-> g.bottom_corners[2],
     BOTTOM_RIGHT_CORNER |-> g.bottom_corners[3]][t]

(* render_hrule's switch: the corners and the line glyph of a position.    *)
Corners(g, pos) ==
    CASE pos = "top"    -> g.top_corners
      [] pos = "head"   -> g.head_corners
      [] pos = "bottom" -> g.bottom_corners
      [] OTHER          -> g.middle_corners
LineGlif(g, pos) == IF pos = "head" THEN g.head_line ELSE g.horizontal_line

VARIABLES
    callerFlags,   \* the flags the caller of neo4j_render_table passes
    codeset,       \* the locale's codeset
    op,            \* the function called: "hrule" or "border"
    ncols, widths, pos, undersize, lineType,   \* the call's arguments
    pc,            \* "col", "line", "over", "nl", "border" or "done"
    i, corner, w,  \* render_hrule's loop variables (corner is 0 or 1)
    out,           \* the glyphs written to the stream
    ret

vars == <<callerFlags, codeset, op, ncols, widths, pos, undersize, lineType, pc,
          i, corner, w, out, ret>>
inputs == <<callerFlags, codeset, op, ncols, widths, pos, undersize, lineType>>

(* The flags render_hrule and render_border_line get: normalised once by   *)
(* neo4j_render_table before anything is written.                          *)
flags == NormalizeRenderFlags(callerFlags, codeset)
glifs == GlifsForEncoding(flags)
corners == Corners(glifs, pos)
line == LineGlif(glifs, pos)

Init ==
    /\ op \in {"hrule", "border"}
    /\ callerFlags \in SUBSET {"ASCII", "ASCII_ART"}
    /\ codeset \in Codesets
    /\ ncols \in IF op = "hrule" THEN 0..NCols ELSE {0}
    /\ widths \in {f \in [Cols -> WidthSet] : \A c \in Cols : c > ncols => f[c] = 0}
    /\ pos \in IF op = "hrule" THEN Positions ELSE {"top"}
    /\ undersize \in IF op = "hrule" THEN BOOLEAN ELSE {FALSE}
    /\ lineType \in IF op = "border" THEN LineTypes ELSE {"HORIZONTAL_LINE"}
    /\ pc = IF op = "hrule" THEN "col" ELSE "border"
    /\ i = 1 /\ corner = 0 /\ w = 0 /\ out = <<>> /\ ret = 0

Write(g) == out' = Append(out, g)

(* A glyph is about to be written: at a kept column's corner, at the      *)
(* closing corner, inside a column's run of line glyphs, or after it.     *)
AtWrite ==
    \/ pc = "col" /\ IF i > ncols THEN TRUE ELSE widths[i] # 0
    \/ pc = "line" /\ w > 0
    \/ pc \in {"over", "nl", "border"}

(* An elided column (width 0) is skipped.                                  *)
SkipColumn ==
    /\ pc = "col" /\ i <= ncols /\ widths[i] = 0
    /\ i' = i + 1
    /\ UNCHANGED <<inputs, pc, corner, w, out, ret>>

(* Mutant of ColumnCorner: corner is never set to 1, so every column gets *)
(* the left corner.                                                        *)
ColumnCornerAlwaysLeft ==
    /\ pc = "col" /\ i <= ncols /\ widths[i] # 0
    /\ Write(corners[corner + 1])
    /\ w' = widths[i] /\ pc' = "line"
    /\ UNCHANGED <<inputs, i, corner, ret>>

(* A kept column starts with corners[corner]: the left corner for the     *)
(* first kept column, the middle corner after it.                          *)
ColumnCorner ==
    /\ pc = "col" /\ i <= ncols /\ widths[i] # 0
    /\ Write(corners[corner + 1])
    /\ corner' = 1 /\ w' = widths[i] /\ pc' = "line"
    /\ UNCHANGED <<inputs, i, ret>>

(* Mutant of LineStep: the inner loop runs for w = widths[i] down to 0,   *)
(* one line glyph too many.                                                *)
LineStepInclusive ==
    /\ pc = "line"
    /\ \/ w >= 0 /\ Write(line) /\ w' = w - 1 /\ UNCHANGED <<i, pc>>
       \/ w < 0 /\ i' = i + 1 /\ pc' = "col" /\ UNCHANGED <<w, out>>
    /\ UNCHANGED <<inputs, corner, ret>>

(* for (w = widths[i]; w > 0; --w) fputs(line); then the next column.     *)
LineStep ==
    /\ pc = "line"
    /\ \/ w > 0 /\ Write(line) /\ w' = w - 1 /\ UNCHANGED <<i, pc>>
       \/ w = 0 /\ i' = i + 1 /\ pc' = "col" /\ UNCHANGED <<w, out>>
    /\ UNCHANGED <<inputs, corner, ret>>

(* Mutant of EndCorner: the extra line glyph of an undersize rule is      *)
(* forgotten.                                                              *)
EndCornerNoOverflow ==
    /\ pc = "col" /\ i > ncols
    /\ Write(corners[IF undersize THEN 2 ELSE 3])
    /\ pc' = "nl"
    /\ UNCHANGED <<inputs, i, corner, w, ret>>

(* After the columns: corners[1] when undersize, else corners[2].         *)
EndCorner ==
    /\ pc = "col" /\ i > ncols
    /\ Write(corners[IF undersize THEN 2 ELSE 3])
    /\ pc' = IF undersize THEN "over" ELSE "nl"
    /\ UNCHANGED <<inputs, i, corner, w, ret>>

(* When undersize, one more line glyph past the last corner.               *)
OverflowLine ==
    /\ pc = "over"
    /\ Write(line) /\ pc' = "nl"
    /\ UNCHANGED <<inputs, i, corner, w, ret>>

(* fputc('\n') and return 0.                                               *)
EndLine ==
    /\ pc = "nl"
    /\ Write(Newline) /\ pc' = "done" /\ ret' = 0
    /\ UNCHANGED <<inputs, i, corner, w>>

(* render_border_line: fputs of the line type's glyph, return 0.           *)
BorderLine ==
    /\ pc = "border"
    /\ Write(BorderGlif(glifs, lineType)) /\ pc' = "done" /\ ret' = 0
    /\ UNCHANGED <<inputs, i, corner, w>>

(* Any fputs or fputc returns EOF: the function returns -1 at once.       *)
WriteFails ==
    /\ AtWrite
    /\ pc' = "done" /\ ret' = -1
    /\ UNCHANGED <<inputs, i, corner, w, out>>

Progress ==
    SkipColumn \/ ColumnCorner \/ LineStep \/ EndCorner \/ OverflowLine
    \/ EndLine \/ BorderLine

Next == Progress \/ WriteFails

Spec == Init /\ [][Next]_vars

-----------------------------------------------------------------------------
TypeOK ==
    /\ callerFlags \subseteq {"ASCII", "ASCII_ART"} /\ codeset \in Codesets
    /\ ncols \in 0..NCols /\ widths \in [Cols -> WidthSet]
    /\ pc \in {"col", "line", "over", "nl", "border", "done"}
    /\ i \in 1..(NCols + 1) /\ corner \in {0, 1} /\ w \in 0..Max(WidthSet)
    /\ out \in Seq(Nat) /\ ret \in {0, -1}

(* The widths of the columns a line shows, in order.                       *)
KeptWidths == SelectSeq([c \in 1..ncols |-> widths[c]], LAMBDA x : x > 0)

(* The rule render_hrule promises (spec, Border/Rule Renderer): per kept  *)
(* column a corner, the left one first and the middle one after, then     *)
(* width line glyphs; the right corner, or when undersize the middle      *)
(* corner and one more line glyph; a newline.                              *)
ReferenceRule ==
    LET kw == KeptWidths
        Segment(k) == <<corners[IF k = 1 THEN 1 ELSE 2]>>
                      \o [j \in 1..kw[k] |-> line]
    IN  FlattenSeq([k \in 1..Len(kw) |-> Segment(k)])
        \o <<corners[IF undersize THEN 2 ELSE 3]>>
        \o (IF undersize THEN <<line>> ELSE <<>>) \o <<Newline>>

(* The frame of every line render_row writes for the same widths: per kept *)
(* column a vertical line, then widths[i] columns (a space or overflow     *)
(* glyph, the field padded to widths[i] - 2, a space or overflow glyph);   *)
(* the closing vertical line, and the overflow glyph when undersize.       *)
RowFrame ==
    FlattenSeq([k \in 1..Len(KeptWidths) |->
                   <<"bar">> \o [j \in 1..KeptWidths[k] |-> "cell"]])
    \o <<"bar">> \o (IF undersize THEN <<"mark">> ELSE <<>>)

Returned == pc = "done" /\ ret = 0

(* A rule render_hrule completes is the rule its contract describes: the  *)
(* left corner goes on the first column that is not elided, whichever     *)
(* columns before it are.                                                  *)
RuleIsReference == (Returned /\ op = "hrule") => out = ReferenceRule

(* A completed rule lines up with the rows between which it is drawn: its *)
(* corners are exactly where render_row puts its vertical lines, it is as *)
(* wide as a row line, undersize marker included, and for the equal       *)
(* widths neo4j_render_table passes it is LineWidth wide, the width       *)
(* RenderTable attributes to every line.                                   *)
RuleAlignsWithRows ==
    (Returned /\ op = "hrule") =>
        LET rule == Front(out)
            kw == KeptWidths
        IN  /\ Last(out) = Newline
            /\ {k \in DOMAIN rule : rule[k] \in Range(corners)}
                 = {k \in DOMAIN RowFrame : RowFrame[k] = "bar"}
            /\ Len(rule) = Len(RowFrame)
            /\ (\A a, b \in DOMAIN kw : kw[a] = kw[b]) =>
                 Len(rule) = LineWidth([ncols |-> Len(kw),
                                        colWidth |-> IF kw = <<>> THEN 0 ELSE kw[1],
                                        undersize |-> undersize])

(* When the caller asks for ASCII output (NEO4J_RENDER_ASCII or           *)
(* ASCII_ART), or the locale cannot show UTF-8, no border glyph written   *)
(* is outside ASCII: the flags are normalised before the glyph set is     *)
(* chosen.                                                                 *)
AsciiGlyphsOnly ==
    (callerFlags # {} \/ codeset # "UTF-8" \/ ~HaveLangInfo) =>
        \A k \in DOMAIN out : out[k] < 128

=============================================================================
