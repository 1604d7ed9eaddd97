----------------------------- MODULE RenderRow -----------------------------
(***************************************************************************)
(* render_row of src/lib/render.c: one logical row of a table, across all  *)
(* columns, followed by continuation lines while wrapped values have      *)
(* content left.  Each column's text comes from the row callback:         *)
(* obtain_fieldname and the unquoted-string branch of obtain_result_field *)
(* hand out stable memory (duplicate = FALSE); every other value is       *)
(* stringified into the staging buffer shared by the whole table          *)
(* (render_field_value) and handed out with duplicate = TRUE.             *)
(*                                                                         *)
(* The inputs of one call (the number of columns, widths, texts, flags,   *)
(* the staging buffer's capacity) are chosen in Init and never change;    *)
(* Cols bounds the columns, those beyond ncolumns are unused.  Any write *)
(* to the stream may fail; the C code then jumps to cleanup.              *)
(***************************************************************************)
EXTENDS RenderField, FiniteSets, Functions

CONSTANTS
    NCols,      \* ncolumns
    WidthSet,   \* candidate column widths (0 = elided column)
    Texts,      \* candidate field texts (sequences of codepoints)
    BufCaps,    \* candidate capacities of the staging buffer on entry
    Calloc0Null \* the C library's calloc returns NULL for zero elements

ASSUME NCols \in Nat \ {0}
ASSUME Calloc0Null \in BOOLEAN
ASSUME <<>> \in Texts
ASSUME WidthSet \subseteq ({0} \cup (2..20))      \* assert(widths[i] >= 2)

Cols == 1..NCols
MaxLen == CHOOSE m \in {Len(t) : t \in Texts} : \A t \in Texts : Len(t) <= m

(* The byte length of a text: what value_tostring returns.                 *)
RECURSIVE ByteLen(_)
ByteLen(t) == IF t = <<>> THEN 0 ELSE Utf8Len(Head(t)) + ByteLen(Tail(t))

VARIABLES
    ncols,           \* ncolumns: 0..NCols, the columns beyond it do not exist
    widths, value, duplicate, flags,   \* inputs of the call
    bufcap, buf,     \* the table's staging buffer: capacity, current text
    pc, i,           \* control point and column index of the loops
    fields,          \* the calloc'ed struct fields: per column s, n (as base/off/n)
    copies, dups,    \* memdup'ed remainders and the columns owning one
    fieldsAlloc,     \* fields != NULL
    wrap, err,
    errno,           \* "none" until a failing call sets it
    cause,           \* history: the error of the operation that failed
    disp,            \* history: how often each codepoint was put on a line (0..2)
    lineCols         \* history: display columns of the cells of the current line

inputs == <<ncols, widths, value, duplicate, flags>>
vars == <<ncols, widths, value, duplicate, flags, bufcap, buf, pc, i, fields,
          copies, dups, fieldsAlloc, wrap, err, errno, cause, disp, lineCols>>

NoField == [base |-> "value", off |-> 0, n |-> 0]

(* The text a remainder points at: the column's own value, its private    *)
(* copy, or whatever the shared staging buffer holds now.  Bytes past the *)
(* end of that memory are read as an undecodable codepoint.               *)
Mem(c) ==
    CASE fields[c].base = "value" -> value[c]
      [] fields[c].base = "dup"   -> copies[c]
      [] OTHER                    -> buf
Read(c) ==
    LET m == Mem(c) IN
    [k \in 1..fields[c].n |->
        IF fields[c].off + k <= Len(m) THEN m[fields[c].off + k] ELSE -1]

(* Record that codepoints from..to of column c's value reached a line.    *)
Shown(c, from, to) ==
    disp' = [disp EXCEPT ![c] =
                [k \in DOMAIN @ |-> IF k \in from..to /\ @[k] < 2
                                    THEN @[k] + 1 ELSE @[k]]]

(* Leave a loop body: to the next column, or to the end of the line.       *)
NextColumn(p) ==
    IF i < ncols THEN i' = i + 1 /\ pc' = p ELSE i' = i /\ pc' = "eol"

Init ==
    /\ ncols \in 0..NCols
    /\ widths \in [Cols -> WidthSet]
    /\ value \in [Cols -> Texts]
    /\ duplicate \in [Cols -> BOOLEAN]
    /\ \A c \in Cols \ 1..ncols : widths[c] = 0 /\ value[c] = <<>> /\ ~duplicate[c]
    /\ flags \in [wrap : BOOLEAN, ascii : BOOLEAN]
    /\ bufcap \in BufCaps
    /\ buf = <<>>
    /\ pc = "start" /\ i = 1
    /\ fields = [c \in Cols |-> NoField]
    /\ copies = [c \in Cols |-> <<>>]
    /\ dups = {} /\ fieldsAlloc = FALSE /\ wrap = FALSE /\ err = -1
    /\ errno = "none" /\ cause = "none"
    /\ disp = [c \in Cols |-> [k \in 1..MaxLen |-> 0]]
    /\ lineCols = 0

(* calloc of the per-column remainders, only under NEO4J_RENDER_WRAP_VALUES.*)
(* calloc(0, ...) may return NULL, and render_row then returns -1 without  *)
(* any failure having set errno.  With no columns the loop is skipped.      *)
Start ==
    /\ pc = "start"
    /\ IF flags.wrap /\ ncols = 0 /\ Calloc0Null
       THEN pc' = "done" /\ UNCHANGED fieldsAlloc
       ELSE /\ fieldsAlloc' = flags.wrap
            /\ pc' = IF ncols = 0 THEN "eol" ELSE "col"
    /\ UNCHANGED <<inputs, bufcap, buf, i, fields, copies, dups, wrap, err,
                   errno, cause, disp, lineCols>>

(* First line: an elided column is skipped; otherwise the vertical line   *)
(* and a space are written and the callback asked for the text.            *)
ColumnBegin ==
    /\ pc = "col"
    /\ IF widths[i] = 0
       THEN NextColumn("col") /\ UNCHANGED lineCols
       ELSE /\ pc' = IF duplicate[i] THEN "stage" ELSE "field"
            /\ lineCols' = lineCols + 2
            /\ UNCHANGED i
    /\ UNCHANGED <<inputs, bufcap, buf, fields, copies, dups, fieldsAlloc,
                   wrap, err, errno, cause, disp>>

(* Mutant of StageValue: the buffer is grown to the length without room  *)
(* for the terminating NUL, as write_value in render_results.c does.       *)
StageValueGrowExact ==
    /\ pc = "stage"
    /\ LET length == ByteLen(value[i]) IN
       IF length < bufcap
       THEN buf' = value[i] /\ pc' = "field" /\ UNCHANGED bufcap
       ELSE bufcap' = length /\ UNCHANGED <<buf, pc>>
    /\ UNCHANGED <<inputs, i, fields, copies, dups, fieldsAlloc, wrap, err,
                   errno, cause, disp, lineCols>>

(* render_field_value: stringify into the staging buffer, growing it to    *)
(* length + 1 and retrying while the text does not fit.                    *)
StageValue ==
    /\ pc = "stage"
    /\ LET length == ByteLen(value[i]) IN
       IF length < bufcap
       THEN buf' = value[i] /\ pc' = "field" /\ UNCHANGED bufcap
       ELSE bufcap' = length + 1 /\ UNCHANGED <<buf, pc>>
    /\ UNCHANGED <<inputs, i, fields, copies, dups, fieldsAlloc, wrap, err,
                   errno, cause, disp, lineCols>>

(* Mutant of KeepRemainder: the remainder is kept as a pointer into the   *)
(* staging buffer even when the callback asked for duplication.            *)
KeepRemainderNoCopy(text, k) ==
    /\ wrap' = TRUE
    /\ NextColumn("col")
    /\ fields' = [fields EXCEPT ![i] =
                    [base |-> IF duplicate[i] THEN "buf" ELSE "value",
                     off |-> k, n |-> Len(text) - k]]
    /\ UNCHANGED <<copies, dups>>

(* The rest of column i on the first line after render_field consumed k of *)
(* the text's codepoints: under NEO4J_RENDER_WRAP_VALUES the remainder is  *)
(* kept, copied with memdup when the callback asked for duplication.       *)
KeepRemainder(text, k) ==
    /\ wrap' = TRUE
    /\ NextColumn("col")
    /\ IF duplicate[i]
       THEN /\ copies' = [copies EXCEPT ![i] = SubSeq(text, k + 1, Len(text))]
            /\ dups' = dups \cup {i}
            /\ fields' = [fields EXCEPT ![i] =
                            [base |-> "dup", off |-> 0, n |-> Len(text) - k]]
       ELSE /\ fields' = [fields EXCEPT ![i] =
                            [base |-> "value", off |-> k, n |-> Len(text) - k]]
            /\ UNCHANGED <<copies, dups>>

(* The text column i's callback handed out on the first line, and what   *)
(* render_field makes of it.                                               *)
FirstText == IF duplicate[i] THEN buf ELSE value[i]
FirstResult == RenderFieldResult(FirstText, widths[i] - 2, flags.ascii)

(* render_field on the column's text, then a space if it was all consumed, *)
(* else the overflow glyph and, when wrapping, the remainder kept.         *)
FieldStep ==
    /\ pc = "field"
    /\ LET r == FirstResult IN
       IF ~r.ok
       THEN pc' = "cleanup" /\ errno' = "EILSEQ" /\ cause' = "EILSEQ"
            /\ UNCHANGED <<i, fields, copies, dups, wrap, disp, lineCols>>
       ELSE /\ UNCHANGED <<errno, cause>>
            /\ Shown(i, 1, r.consumed)
            /\ lineCols' = lineCols + r.cols + 1
            /\ IF r.consumed >= Len(FirstText) \/ ~flags.wrap
               THEN NextColumn("col") /\ UNCHANGED <<fields, copies, dups, wrap>>
               ELSE KeepRemainder(FirstText, r.consumed)
    /\ UNCHANGED <<inputs, bufcap, buf, fieldsAlloc, err>>

(* The end of a line: vertical line, overflow glyph if undersize, newline. *)
(* Another continuation line follows while some column wrapped.            *)
EndOfLine ==
    /\ pc = "eol"
    /\ lineCols' = 0
    /\ IF wrap
       THEN pc' = "wcol" /\ i' = 1 /\ wrap' = FALSE /\ UNCHANGED err
       ELSE pc' = "cleanup" /\ err' = 0 /\ UNCHANGED <<i, wrap>>
    /\ UNCHANGED <<inputs, bufcap, buf, fields, copies, dups, fieldsAlloc, errno, cause,
                   disp>>

(* After a continuation cell consumed k of the n codepoints left: a       *)
(* column with text still left advances its remainder and asks for another *)
(* line; one that finished leaves its remainder as it was.                  *)
(* Mutant of ContinueRemainder: the pointer advances but the length is    *)
(* not reduced.                                                            *)
ContinueRemainderKeepsLength(k, n) ==
    IF k >= n
    THEN UNCHANGED <<fields, wrap>>
    ELSE /\ fields' = [fields EXCEPT ![i].off = @ + k]
         /\ wrap' = TRUE

ContinueRemainder(k, n) ==
    IF k >= n
    THEN UNCHANGED <<fields, wrap>>
    ELSE /\ fields' = [fields EXCEPT ![i].off = @ + k, ![i].n = @ - k]
         /\ wrap' = TRUE

(* A continuation line's cell: the overflow glyph as prefix when the      *)
(* column has text left, render_field on the remainder, then a space or   *)
(* the overflow glyph.                                                     *)
WrapColumn ==
    /\ pc = "wcol"
    /\ IF widths[i] = 0
       THEN NextColumn("wcol") /\ UNCHANGED <<fields, wrap, errno, cause, disp, lineCols>>
       ELSE LET n     == fields[i].n
                r     == RenderFieldResult(Read(i), widths[i] - 2, flags.ascii)
                start == Len(value[i]) - n
            IN  IF ~r.ok
                THEN /\ pc' = "cleanup" /\ errno' = "EILSEQ" /\ cause' = "EILSEQ"
                     /\ UNCHANGED <<i, fields, wrap, disp, lineCols>>
                ELSE /\ UNCHANGED <<errno, cause>>
                     /\ Shown(i, start + 1, start + r.consumed)
                     /\ lineCols' = lineCols + 2 + r.cols + 1
                     /\ NextColumn("wcol")
                     /\ ContinueRemainder(r.consumed, n)
    /\ UNCHANGED <<inputs, bufcap, buf, copies, dups, fieldsAlloc, err>>

(* Any fputs/fputc/fwrite of the line being written fails: goto cleanup.   *)
SinkFails ==
    /\ \/ pc \in {"field", "eol"}
       \/ pc \in {"col", "wcol"} /\ widths[i] # 0
    /\ pc' = "cleanup"
    /\ errno' = "EIO" /\ cause' = "EIO"
    /\ UNCHANGED <<inputs, bufcap, buf, i, fields, copies, dups, fieldsAlloc,
                   wrap, err, disp, lineCols>>

(* An allocation fails: the calloc of the remainders (render_row returns  *)
(* -1 at once), the realloc of the staging buffer (the callback returns    *)
(* -1) or the memdup of a remainder.                                       *)
AllocFails ==
    /\ \/ pc = "start" /\ flags.wrap /\ ncols > 0 /\ pc' = "done"
       \/ pc = "stage" /\ ByteLen(value[i]) >= bufcap /\ pc' = "cleanup"
       \/ /\ pc = "field" /\ flags.wrap /\ duplicate[i]
          /\ FirstResult.ok /\ FirstResult.consumed < Len(FirstText)
          /\ pc' = "cleanup"
    /\ errno' = "ENOMEM" /\ cause' = "ENOMEM"
    /\ UNCHANGED <<inputs, bufcap, buf, i, fields, copies, dups, fieldsAlloc,
                   wrap, err, disp, lineCols>>

(* Mutant of Cleanup: the countdown loop stops before the first column.   *)
CleanupSkipsFirst ==
    /\ pc = "cleanup"
    /\ dups' = dups \cap {1}
    /\ fieldsAlloc' = FALSE
    /\ pc' = "done"
    /\ UNCHANGED <<inputs, bufcap, buf, i, fields, copies, wrap, err, errno, cause,
                   disp, lineCols>>

Cleanup ==
    /\ pc = "cleanup"
    /\ dups' = {}
    /\ fieldsAlloc' = FALSE
    /\ pc' = "done"
    /\ UNCHANGED <<inputs, bufcap, buf, i, fields, copies, wrap, err, errno, cause,
                   disp, lineCols>>

(* The steps render_row takes by itself, and the failures its environment *)
(* (the stream, the allocator) may impose at any write or allocation.      *)
Progress ==
    \/ Start \/ ColumnBegin \/ StageValue \/ FieldStep \/ EndOfLine
    \/ WrapColumn \/ Cleanup
Next == Progress \/ SinkFails \/ AllocFails

(* render_row runs on one thread: it keeps taking its own steps.  Failures *)
(* may happen but never have to.                                           *)
Spec == Init /\ [][Next]_vars /\ WF_vars(Progress)

-----------------------------------------------------------------------------
TypeOK ==
    /\ ncols \in 0..NCols
    /\ widths \in [Cols -> WidthSet] /\ value \in [Cols -> Texts]
    /\ pc \in {"start", "col", "stage", "field", "eol", "wcol", "cleanup", "done"}
    /\ i \in Cols
    /\ fields \in [Cols -> [base : {"value", "dup", "buf"}, off : 0..MaxLen,
                            n : 0..MaxLen]]
    /\ \A c \in Cols : fields[c].off + fields[c].n <= MaxLen
    /\ dups \subseteq Cols /\ fieldsAlloc \in BOOLEAN /\ wrap \in BOOLEAN
    /\ err \in {-1, 0} /\ bufcap \in Nat \ {0}
    /\ errno \in {"none", "EIO", "ENOMEM", "EILSEQ"}
    /\ disp \in [Cols -> [1..MaxLen -> 0..2]]

(* Display columns of a line's cells when each is exactly its width.       *)
CellsWidth ==
    SumFunction([c \in 1..ncols |-> IF widths[c] = 0 THEN 0 ELSE widths[c] + 1])

(* Every column can make progress on a continuation line: its cell is at   *)
(* least one column wide and holds any one codepoint of its text.          *)
Fits ==
    \/ ~flags.wrap
    \/ \A c \in 1..ncols :
          \/ widths[c] = 0
          \/ /\ widths[c] >= 3
             /\ \A k \in DOMAIN value[c] :
                   LET cp == value[c][k] IN
                   cp < 0 \/ Escaped(cp, flags.ascii) \/ CpWidth[cp] <= widths[c] - 2

(* When render_row returns, the fields array and every memdup'ed remainder *)
(* have been freed, on the success path and on every goto cleanup.         *)
AllFreedOnReturn == pc = "done" => dups = {} /\ ~fieldsAlloc

(* A kept remainder still designates the unconsumed tail of its own column *)
(* value, even after later columns restaged the shared buffer (the memdup  *)
(* for duplicate = TRUE in render_row).                                    *)
RemainderIsOwnTail ==
    \A c \in Cols :
        fields[c].n > 0 =>
            Read(c) = SubSeq(value[c], Len(value[c]) - fields[c].n + 1, Len(value[c]))

(* Under NEO4J_RENDER_WRAP_VALUES every codepoint of every shown column  *)
(* has been put on one of the row's lines; without it a cell shows what   *)
(* fits and the rest is cut off by design.                                 *)
Complete ==
    flags.wrap =>
        \A c \in 1..ncols : widths[c] > 0 =>
            \A k \in 1..Len(value[c]) : disp[c][k] >= 1

(* The caller's view of the call: running until pc = "done", then the     *)
(* returned err and the errno left behind.                                 *)
Contract == INSTANCE RowCall WITH
    RowErrors <- {"EIO", "ENOMEM", "EILSEQ"},
    phase     <- IF pc = "done" THEN "returned" ELSE "running",
    ret       <- IF pc = "done" THEN err ELSE -1,
    errno     <- IF pc = "done" THEN errno ELSE "none",
    complete  <- Complete,
    failed    <- cause

ShownAtMostOnce == \A c \in Cols : \A k \in 1..MaxLen : disp[c][k] <= 1

(* Every cell of every line is exactly its column's width (render_field    *)
(* pads to width and never writes past it), so the lines stay aligned.     *)
CellsExactWidth == pc = "eol" => lineCols = CellsWidth

(* A row whose cells can each take a codepoint is finished in finitely    *)
(* many lines: render_row returns.                                         *)
RowTerminates == Fits => <>(pc = "done")

(* render_row returns for every row the table assembler can hand it.       *)
RowAlwaysTerminates == <>(pc = "done")

=============================================================================
