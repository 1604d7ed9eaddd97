--------------------------- MODULE MCRenderTable ---------------------------
(* Model-checking instance of RenderTable. *)
EXTENDS RenderTable, TLC

CONSTANT ESrc   \* a model value: the stream's failure code

=============================================================================
