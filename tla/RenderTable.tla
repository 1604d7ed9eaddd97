---------------------------- MODULE RenderTable ----------------------------
(***************************************************************************)
(* neo4j_render_table of src/lib/render_results.c: checks the result      *)
(* stream, computes the column layout, allocates the widths array and the *)
(* staging buffer, then writes top rule, header row, head rule, one row   *)
(* (preceded by a middle rule under NEO4J_RENDER_ROW_LINES from the second *)
(* row on) per fetched result, checks the stream again, writes the bottom *)
(* rule and flushes.  render_hrule and render_row are single steps here    *)
(* that either write their lines or fail (RenderRow models render_row).   *)
(*                                                                         *)
(* The output is abstracted to the sequence of kinds of lines written.    *)
(***************************************************************************)
EXTENDS Integers, Sequences, FiniteSets, TableLayout

CONSTANTS
    MaxWidth,    \* NEO4J_RENDER_MAX_WIDTH (reduced)
    MaxFields,   \* largest neo4j_nfields of a result stream
    MaxRows,     \* largest number of rows a result stream yields
    SrcErr       \* the error code neo4j_check_failure reports

ASSUME MaxWidth \in Nat /\ MaxWidth > 2
ASSUME MaxFields \in Nat /\ MaxRows \in Nat

VARIABLES
    width, nfields, rowLines, totalRows,   \* inputs of the call
    layout,      \* ncols (nfields after elision), colWidth, undersize
    srcErr,      \* the result stream's failure state ("none" or SrcErr)
    fetched,     \* rows neo4j_fetch_next has returned
    first,       \* the loop's first flag
    allocs,      \* live allocations of the call: "widths", "buffer"
    errno,       \* "none" until a call sets it
    ret,         \* the value returned, meaningful once pc = "done"
    pc,
    out,         \* kinds of lines written to the stream
    unflushed    \* something was written after the last fflush

vars == <<width, nfields, rowLines, totalRows, layout, srcErr, fetched, first,
          allocs, errno,       \* "none" until a call sets it
    ret,         \* the value returned, meaningful once pc = "done"
    pc, out, unflushed>>

NoLayout == [ncols |-> 0, colWidth |-> 0, undersize |-> FALSE]

Init ==
    /\ width \in 2..(MaxWidth - 1)           \* REQUIRE(width > 1 && width < MAX)
    /\ nfields \in 0..MaxFields
    /\ rowLines \in BOOLEAN
    /\ totalRows \in 0..MaxRows
    /\ srcErr \in {"none", SrcErr}
    /\ layout = NoLayout
    /\ fetched = 0 /\ first = TRUE /\ allocs = {}
    /\ errno = "none" /\ ret = 0 /\ pc = "check"
    /\ out = <<>> /\ unflushed = FALSE

inputs == <<width, nfields, rowLines, totalRows>>

(* Write one line of the given kind and go on to control point p.          *)
Emit(kind, p) ==
    /\ out' = Append(out, kind)
    /\ unflushed' = TRUE
    /\ pc' = p
    /\ UNCHANGED <<inputs, layout, srcErr, fetched, allocs, errno, ret>>

(* neo4j_check_failure, then neo4j_nfields: a zero-field stream succeeds  *)
(* with no output; otherwise the layout is computed.                       *)
CheckStream ==
    /\ pc = "check"
    /\ CASE srcErr # "none" ->
              errno' = srcErr /\ ret' = -1 /\ pc' = "done" /\ UNCHANGED layout
         [] nfields = 0 ->
              ret' = 0 /\ pc' = "done" /\ UNCHANGED <<layout, errno>>
         [] OTHER ->
              layout' = ColumnLayout(width, nfields) /\ pc' = "allocWidths"
              /\ UNCHANGED <<errno, ret>>
    /\ UNCHANGED <<inputs, srcErr, fetched, first, allocs, out, unflushed>>

(* malloc of the widths array, when some column is left; on failure the    *)
(* function returns -1 at once.                                            *)
AllocWidths ==
    /\ pc = "allocWidths"
    /\ IF layout.ncols > 0
       THEN \/ allocs' = allocs \cup {"widths"} /\ pc' = "allocBuffer"
               /\ UNCHANGED <<errno, ret>>
            \/ errno' = "ENOMEM" /\ ret' = -1 /\ pc' = "done"
               /\ UNCHANGED allocs
       ELSE pc' = "allocBuffer" /\ UNCHANGED <<allocs, errno, ret>>
    /\ UNCHANGED <<inputs, layout, srcErr, fetched, first, out, unflushed>>

(* malloc of the staging buffer of column_width bytes; failure goes to the *)
(* failure label.                                                          *)
AllocBuffer ==
    /\ pc = "allocBuffer"
    /\ IF layout.colWidth > 0
       THEN \/ allocs' = allocs \cup {"buffer"} /\ pc' = "top"
               /\ UNCHANGED errno
            \/ errno' = "ENOMEM" /\ pc' = "failure" /\ UNCHANGED allocs
       ELSE pc' = "top" /\ UNCHANGED <<allocs, errno>>
    /\ UNCHANGED <<inputs, layout, srcErr, fetched, first, ret, out, unflushed>>

(* The rules and rows, in the order the function writes them.  A middle   *)
(* rule is written before every row but the first under ROW_LINES (Fetch   *)
(* decides); the first flag is cleared after each row.                     *)
TopRule    == pc = "top"    /\ Emit("top", "header")    /\ UNCHANGED first
HeaderRow  == pc = "header" /\ Emit("header", "head")   /\ UNCHANGED first
HeadRule   == pc = "head"   /\ Emit("head", "fetch")    /\ UNCHANGED first
MiddleRule == pc = "middle" /\ Emit("middle", "row")    /\ UNCHANGED first
BodyRow    == pc = "row"    /\ Emit("row", "fetch")     /\ first' = FALSE
BottomRule == pc = "bottom" /\ Emit("bottom", "flush")  /\ UNCHANGED first

(* Mutant of Fetch: the middle rule is written before the first row too.   *)
FetchMiddleFirst ==
    /\ pc = "fetch"
    /\ \/ /\ fetched < totalRows /\ srcErr = "none"
          /\ fetched' = fetched + 1
          /\ pc' = IF rowLines THEN "middle" ELSE "row"
          /\ UNCHANGED srcErr
       \/ /\ fetched = totalRows
          /\ pc' = "recheck"
          /\ UNCHANGED <<fetched, srcErr>>
       \/ /\ srcErr' = SrcErr
          /\ pc' = "recheck"
          /\ UNCHANGED fetched
    /\ UNCHANGED <<inputs, layout, first, allocs, errno, ret, out, unflushed>>

(* neo4j_fetch_next: a row (then a middle rule unless it is the first row *)
(* or row lines are off), or NULL at the end of the stream or because the *)
(* stream failed.                                                          *)
Fetch ==
    /\ pc = "fetch"
    /\ \/ /\ fetched < totalRows /\ srcErr = "none"
          /\ fetched' = fetched + 1
          /\ pc' = IF ~first /\ rowLines THEN "middle" ELSE "row"
          /\ UNCHANGED srcErr
       \/ /\ fetched = totalRows
          /\ pc' = "recheck"
          /\ UNCHANGED <<fetched, srcErr>>
       \/ /\ srcErr' = SrcErr
          /\ pc' = "recheck"
          /\ UNCHANGED fetched
    /\ UNCHANGED <<inputs, layout, first, allocs, errno, ret, out, unflushed>>

(* neo4j_check_failure after the last row.                                 *)
Recheck ==
    /\ pc = "recheck"
    /\ IF srcErr # "none"
       THEN errno' = srcErr /\ pc' = "failure"
       ELSE pc' = "bottom" /\ UNCHANGED errno
    /\ UNCHANGED <<inputs, layout, srcErr, fetched, first, allocs, ret, out,
                   unflushed>>

(* The errno a failing render_row leaves (RowCall, implemented by         *)
(* RenderRow): a write, an allocation or the UTF-8 decoder failed.         *)
RowErrors == {"EIO", "ENOMEM", "EILSEQ"}

(* A rule or row fails to write: render_hrule fails with the stream's      *)
(* error, render_row with any of the row errors.                           *)
WriteFails ==
    /\ pc \in {"top", "header", "head", "middle", "row", "bottom"}
    /\ errno' \in IF pc \in {"header", "row"} THEN RowErrors ELSE {"EIO"}
    /\ pc' = "failure"
    /\ UNCHANGED <<inputs, layout, srcErr, fetched, first, allocs, ret, out,
                   unflushed>>

(* The success path: fflush, then free both allocations and return 0.  A  *)
(* failing fflush returns -1 straight away.                                *)
Flush ==
    /\ pc = "flush"
    /\ unflushed' = FALSE
    /\ pc' = "done"
    /\ \/ allocs' = {} /\ ret' = 0 /\ UNCHANGED errno
       \/ errno' = "EIO" /\ ret' = -1 /\ UNCHANGED allocs
    /\ UNCHANGED <<inputs, layout, srcErr, fetched, first, out>>

(* Mutant of Failure: errno is not saved around the fflush, which may     *)
(* overwrite it.                                                           *)
FailureNoErrsv ==
    /\ pc = "failure"
    /\ unflushed' = FALSE
    /\ allocs' = {}
    /\ ret' = -1
    /\ pc' = "done"
    /\ errno' \in {errno, "EIO"}
    /\ UNCHANGED <<inputs, layout, srcErr, fetched, first, out>>

(* Mutant of Failure: the failure path returns without fflush.             *)
FailureNoFlush ==
    /\ pc = "failure"
    /\ allocs' = {}
    /\ ret' = -1
    /\ pc' = "done"
    /\ UNCHANGED <<inputs, layout, srcErr, fetched, first, errno, out, unflushed>>

(* The failure label: save errno, fflush (which may fail and set errno),  *)
(* free both allocations, restore errno and return -1.                    *)
Failure ==
    /\ pc = "failure"
    /\ unflushed' = FALSE
    /\ allocs' = {}
    /\ ret' = -1
    /\ pc' = "done"
    /\ UNCHANGED <<inputs, layout, srcErr, fetched, first, errno, out>>

Next ==
    \/ CheckStream \/ AllocWidths \/ AllocBuffer \/ Fetch \/ Recheck
    \/ TopRule \/ HeaderRow \/ HeadRule \/ MiddleRule \/ BodyRow \/ BottomRule
    \/ WriteFails \/ Flush \/ Failure

Spec == Init /\ [][Next]_vars

-----------------------------------------------------------------------------
TypeOK ==
    /\ width \in 2..(MaxWidth - 1) /\ nfields \in 0..MaxFields
    /\ layout \in [ncols : 0..MaxFields, colWidth : {0} \cup 2..MaxWidth,
                   undersize : BOOLEAN]
    /\ srcErr \in {"none", SrcErr} /\ fetched \in 0..MaxRows
    /\ allocs \subseteq {"widths", "buffer"}
    /\ errno \in {"none", SrcErr} \cup RowErrors
    /\ ret \in {0, -1}
    /\ out \in Seq({"top", "header", "head", "middle", "row", "bottom"})

(* Reference for the layout: the most fields, up to nfields, whose columns *)
(* are each at least 2 wide with a border before each and one at the end.  *)
MostFittingColumns(w, n) ==
    CHOOSE k \in 0..n : 3 * k + 1 <= w /\ \A j \in (k + 1)..n : 3 * j + 1 > w

(* The body the table promises for n rows: the rows, separated by middle   *)
(* rules under NEO4J_RENDER_ROW_LINES.                                     *)
Body(n) ==
    IF rowLines
    THEN [k \in 1..(2 * n - 1) |-> IF k % 2 = 1 THEN "row" ELSE "middle"]
    ELSE [k \in 1..n |-> "row"]

(* The elision loop keeps as many columns as fit at width 2 and gives them *)
(* the whole width: it stops at the first count that fits, counting down.  *)
ShownColumnsMaximal ==
    layout # NoLayout =>
        /\ layout.ncols = MostFittingColumns(width, nfields)
        /\ layout.undersize = (layout.ncols < nfields)

(* A render that returns 0 wrote exactly: nothing for a zero-field stream; *)
(* else top rule, header, head rule, every row of the stream (middle rules *)
(* between them under ROW_LINES) and the bottom rule.                      *)
TableShape ==
    (pc = "done" /\ ret = 0) =>
        IF nfields = 0 THEN out = <<>>
        ELSE /\ fetched = totalRows
             /\ out = <<"top", "header", "head">> \o Body(fetched) \o <<"bottom">>

(* A failure of the result stream, before or after the rows, makes the     *)
(* render return -1 with errno set to the stream's error code, even when   *)
(* the fflush on the failure path fails too.                               *)
SourceFailureSurfaced ==
    (pc = "done" /\ srcErr # "none") => ret = -1 /\ errno = srcErr

(* Whatever was written has been handed to fflush when the function        *)
(* returns, on success and on every failure.                               *)
FlushedOnReturn == pc = "done" => ~unflushed

(* Both allocations are freed when the function returns.                   *)
NoLeakOnReturn == pc = "done" => allocs = {}

(* No rule or row line is wider than the width the caller gave.           *)
LinesFitWidth == layout # NoLayout => LineWidth(layout) <= width

=============================================================================
