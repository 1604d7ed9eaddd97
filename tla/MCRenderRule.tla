--------------------------- MODULE MCRenderRule ---------------------------
EXTENDS RenderRule

(* Widths: elided, the narrowest column, and a wider one.                  *)
MCWidthSet == {0, 2, 3}
=============================================================================
