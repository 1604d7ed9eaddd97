----------------------------- MODULE TableRows -----------------------------
(***************************************************************************)
(* neo4j_render_table with every render_row call expanded into the steps   *)
(* of RenderRow: the header row through obtain_fieldname, each body row    *)
(* through obtain_result_field, all sharing the table's staging buffer.    *)
(* RenderTable takes a row as one step that succeeds or fails with a row   *)
(* error; this module is checked to implement RenderTable, which is what   *)
(* justifies that abstraction.                                             *)
(***************************************************************************)
EXTENDS Integers, Sequences

CONSTANTS
    MaxWidth, MaxFields, MaxRows, SrcErr,   \* as in RenderTable
    CpWidth, Texts, Calloc0Null             \* as in RenderRow

VARIABLES
    width, nfields, rowLines, totalRows, layout, srcErr, fetched, first,
    allocs, errno, ret, pc, out, unflushed,   \* RenderTable's state
    tflags,        \* the call's WRAP_VALUES, ASCII and QUOTE_STRINGS flags
    inRow,         \* a render_row call is in progress
    rncols, rwidths, rvalue, rdup, rflags,    \* the current call's inputs
    bufcap, buf,   \* the table's staging buffer, shared by all rows
    rpc, ri, rfields, rcopies, rdups, rfieldsAlloc, rwrap, rerr, rerrno,
    rcause, rdisp, rlineCols                          \* render_row's own state

T == INSTANCE RenderTable

R == INSTANCE RenderRow WITH
    NCols <- MaxFields, WidthSet <- {0} \cup 2..MaxWidth, BufCaps <- Nat,
    ncols <- rncols, widths <- rwidths, value <- rvalue, duplicate <- rdup,
    flags <- rflags, pc <- rpc, i <- ri, fields <- rfields, copies <- rcopies,
    dups <- rdups, fieldsAlloc <- rfieldsAlloc, wrap <- rwrap, err <- rerr,
    errno <- rerrno, cause <- rcause, disp <- rdisp, lineCols <- rlineCols

tableVars == <<width, nfields, rowLines, totalRows, layout, srcErr, fetched,
               first, allocs, errno, ret, pc, out, unflushed, tflags>>
rowVars == <<rncols, rwidths, rvalue, rdup, rflags, bufcap, buf, rpc, ri,
             rfields, rcopies, rdups, rfieldsAlloc, rwrap, rerr, rerrno, rcause,
             rdisp, rlineCols>>
vars == <<tableVars, inRow, rowVars>>

(* obtain_result_field: a string is handed out in place unless            *)
(* QUOTE_STRINGS is set; any other value is staged and must be duplicated. *)
ObtainDuplicate(isString, quote) == ~isString \/ quote

(* obtain_fieldname: field names are handed out in place.                *)
NameDuplicate == [c \in 1..MaxFields |-> FALSE]

(* The ncolumns argument of render_row: nfields after the elision loop.   *)
KeptColumns == layout.ncols

(* The row flags render_row consults.                                      *)
RowFlags == [wrap |-> tflags.wrap, ascii |-> tflags.ascii]

Init ==
    /\ T!Init
    /\ tflags \in [wrap : BOOLEAN, ascii : BOOLEAN, quote : BOOLEAN]
    /\ inRow = FALSE
    /\ bufcap = 0 /\ rncols = 0 /\ rflags = RowFlags
    /\ R!Init

(* The table's own steps between row calls; a rule may fail to write.     *)
TableStep ==
    /\ ~inRow
    /\ \/ T!CheckStream \/ T!AllocWidths \/ T!TopRule \/ T!HeadRule
       \/ T!MiddleRule \/ T!BottomRule \/ T!Fetch \/ T!Recheck \/ T!Flush
       \/ T!Failure
       \/ T!WriteFails /\ pc \in {"top", "head", "middle", "bottom"}
    /\ UNCHANGED <<tflags, inRow, rowVars>>

(* malloc of the staging buffer: bufcap = column_width.                     *)
AllocBuffer ==
    /\ ~inRow
    /\ T!AllocBuffer
    /\ bufcap' = layout.colWidth
    /\ UNCHANGED <<tflags, inRow, rncols, rwidths, rvalue, rdup, rflags, buf,
                   rpc, ri, rfields, rcopies, rdups, rfieldsAlloc, rwrap, rerr,
                   rerrno, rcause, rdisp, rlineCols>>

(* render_row(stream, nfields, widths, undersize, flags, callback, data):  *)
(* every kept column has column_width; the header's callback hands out     *)
(* field names in place, a body row's callback follows the value's type.   *)
(* render_row starts as RenderRow's Init, with errno as the table left it  *)
(* and the staging buffer as the previous rows left it.                    *)
CallRow ==
    /\ ~inRow /\ pc \in {"header", "row"}
    /\ inRow' = TRUE
    /\ rncols' = KeptColumns
    /\ rwidths' = [c \in 1..MaxFields |->
                     IF c <= KeptColumns THEN layout.colWidth ELSE 0]
    /\ rflags' = RowFlags
    /\ bufcap' = bufcap
    /\ rdup' \in
         IF pc = "header"
         THEN {NameDuplicate}
         ELSE {[c \in 1..MaxFields |->
                  c <= KeptColumns /\ ObtainDuplicate(isString[c], tflags.quote)] :
               isString \in [1..MaxFields -> BOOLEAN]}
    /\ rvalue' \in {v \in [1..MaxFields -> Texts] :
                      \A c \in 1..MaxFields : c > KeptColumns => v[c] = <<>>}
    /\ rpc' = "start" /\ ri' = 1
    /\ rfields' = [c \in 1..MaxFields |-> R!NoField]
    /\ rcopies' = [c \in 1..MaxFields |-> <<>>]
    /\ rdups' = {} /\ rfieldsAlloc' = FALSE /\ rwrap' = FALSE
    /\ rerr' = -1 /\ rerrno' = errno /\ rcause' = "none"
    /\ rdisp' = [c \in 1..MaxFields |-> [k \in 1..R!MaxLen |-> 0]]
    /\ rlineCols' = 0
    /\ UNCHANGED <<buf, tableVars>>

(* One step of the running call, or a write or allocation failing in it.   *)
RowStep ==
    /\ inRow
    /\ R!Next
    /\ UNCHANGED <<tableVars, inRow>>

(* Mutant of RowReturns: the loop's first flag is not cleared after a row. *)
RowReturnsKeepsFirst ==
    /\ inRow /\ rpc = "done"
    /\ inRow' = FALSE
    /\ IF rerr = 0
       THEN \/ T!HeaderRow
            \/ pc = "row" /\ T!Emit("row", "fetch") /\ UNCHANGED first
       ELSE /\ pc' = "failure" /\ errno' = rerrno
            /\ UNCHANGED <<width, nfields, rowLines, totalRows, layout, srcErr,
                           fetched, first, allocs, ret, out, unflushed>>
    /\ UNCHANGED <<tflags, rowVars>>

(* render_row returned: on 0 the row is on the stream and the table goes  *)
(* on (clearing first after a body row); on -1 it goes to failure with the *)
(* errno render_row left.                                                  *)
RowReturns ==
    /\ inRow /\ rpc = "done"
    /\ inRow' = FALSE
    /\ IF rerr = 0
       THEN T!HeaderRow \/ T!BodyRow
       ELSE /\ pc' = "failure" /\ errno' = rerrno
            /\ UNCHANGED <<width, nfields, rowLines, totalRows, layout, srcErr,
                           fetched, first, allocs, ret, out, unflushed>>
    /\ UNCHANGED <<tflags, rowVars>>

Next == TableStep \/ AllocBuffer \/ CallRow \/ RowStep \/ RowReturns

Spec == Init /\ [][Next]_vars

-----------------------------------------------------------------------------
(* A write, allocation or decode that fails inside a row surfaces as the  *)
(* table's result: neo4j_render_table returns -1 with errno naming that   *)
(* failure, carried across render_row's cleanup (errsv), its return and   *)
(* the table's failure label, whose fflush may fail too.                   *)
RowErrorSurfaced ==
    (pc = "done" /\ rcause # "none") => ret = -1 /\ errno = rcause

(* The table with render_row's steps expanded implements the table whose  *)
(* rows are single steps: every row the code writes is a complete success *)
(* or a failure with one of the row errors, and row steps change nothing  *)
(* the table's properties are about.                                       *)
ImplementsAtomicRows == T!Spec
=============================================================================
