---------------------------- MODULE TableLayout ----------------------------
(***************************************************************************)
(* The column layout of neo4j_render_table (src/lib/render_results.c) and *)
(* the display width of the lines drawn for it.  RenderTable uses the      *)
(* layout; RenderRule checks the width against the rules render_hrule     *)
(* actually writes.                                                        *)
(***************************************************************************)
EXTENDS Integers

(***************************************************************************)
(* The column layout: the width every column gets for n fields, and the   *)
(* loop that elides trailing fields until the columns are 2 wide.         *)
(***************************************************************************)
(* Mutant of ColWidthFor: the closing border is not subtracted.            *)
ColWidthForNoBorder(w, n) == IF n = 0 \/ w <= n THEN 0 ELSE (w - n) \div n

ColWidthFor(w, n) == IF n = 0 \/ w <= n + 1 THEN 0 ELSE (w - n - 1) \div n

(* Mutant of Elide: columns are elided only while narrower than 1.       *)
RECURSIVE ElideBelowOne(_, _, _)
ElideBelowOne(w, n, under) ==
    IF ColWidthFor(w, n) < 1 /\ n > 0
    THEN ElideBelowOne(w, n - 1, TRUE)
    ELSE [ncols |-> n, colWidth |-> ColWidthFor(w, n), undersize |-> under]

RECURSIVE Elide(_, _, _)
Elide(w, n, under) ==
    IF ColWidthFor(w, n) < 2 /\ n > 0
    THEN Elide(w, n - 1, TRUE)
    ELSE [ncols |-> n, colWidth |-> ColWidthFor(w, n), undersize |-> under]

ColumnLayout(w, n) == Elide(w, n, FALSE)

(* Display width of a rule (render_hrule) and of a row line (render_row)  *)
(* for a layout: one corner or vertical per column plus the closing one,  *)
(* the columns, and the overflow glyph when undersize.                    *)
LineWidth(l) ==
    l.ncols * (l.colWidth + 1) + 1 + (IF l.undersize THEN 1 ELSE 0)

=============================================================================
