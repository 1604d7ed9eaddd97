----------------------------- MODULE RenderCsv -----------------------------
(***************************************************************************)
(* neo4j_render_csv of src/lib/render_results.c, with write_value and     *)
(* write_csv_quoted_string.  The output is the exact sequence of           *)
(* characters written; a character is a one-character string.  Values are *)
(* records of their neo4j type and the text neo4j_ntostring gives them.   *)
(* NEO4J_FIELD_BUFFER_INITIAL_CAPACITY is scaled down to InitialCap.       *)
(***************************************************************************)
EXTENDS Integers, Sequences, FiniteSets

CONSTANTS
    Names,        \* candidate field names (sequences of characters)
    Values,       \* candidate values: [type, text]
    MaxFields,    \* largest neo4j_nfields
    MaxRows,      \* largest number of rows of a stream
    InitialCap,   \* NEO4J_FIELD_BUFFER_INITIAL_CAPACITY
    SrcErr        \* the error code neo4j_check_failure reports

ASSUME InitialCap \in Nat /\ InitialCap >= 2        \* assert(*bufcap >= 2)

DQ == "\""

(***************************************************************************)
(* write_csv_quoted_string(stream, s, n): an opening quote, then, while    *)
(* the n bytes from s hold a quote (memchr), the bytes before it and a    *)
(* doubled quote, then the rest and a closing quote.  Bytes read past the *)
(* end of s come out as "?".                                               *)
(***************************************************************************)
At(s, k) == IF k \in DOMAIN s THEN s[k] ELSE "?"

FirstQuote(s, from, n) ==
    LET hits == {k \in from..(from + n - 1) : At(s, k) = DQ}
    IN  IF hits = {} THEN 0 ELSE CHOOSE k \in hits : \A j \in hits : k <= j

Bytes(s, from, n) == [k \in 1..n |-> At(s, from + k - 1)]

(* Mutant of QuoteLoop: the remaining length is not reduced by the quote   *)
(* itself, so the final write runs one byte past the end.                  *)
RECURSIVE QuoteLoopShortStep(_, _, _)
QuoteLoopShortStep(s, from, n) ==
    IF from > Len(s) THEN <<>>
    ELSE LET c == FirstQuote(s, from, n)
             l == c - from
         IN  IF c = 0 THEN Bytes(s, from, n)
             ELSE Bytes(s, from, l) \o <<DQ, DQ>> \o QuoteLoopShortStep(s, c + 1, n - l)

RECURSIVE QuoteLoop(_, _, _)
QuoteLoop(s, from, n) ==
    IF from > Len(s) THEN <<>>
    ELSE LET c == FirstQuote(s, from, n)
             l == c - from
         IN  IF c = 0 THEN Bytes(s, from, n)
             ELSE Bytes(s, from, l) \o <<DQ, DQ>> \o QuoteLoop(s, c + 1, n - (l + 1))

Quoted(s) == <<DQ>> \o QuoteLoop(s, 1, Len(s)) \o <<DQ>>

(* The types write_value prints without quotes.                            *)
ScalarTypes == {"null", "bool", "int", "float"}

(* The comma after field f of nfields, if it is not the last.              *)
Sep(f, n) == IF f < n THEN <<",">> ELSE <<>>

VARIABLES
    nfields, names, rows, showNulls,   \* inputs of the call
    srcErr,        \* the stream's failure state ("none" or SrcErr)
    fetched, f,    \* rows fetched; field index of the current record
    allocated,     \* buffer != NULL
    bufcap,
    errno,         \* "none" until a call sets it
    ret,           \* the value returned, meaningful once pc = "done"
    pc,
    out,           \* the characters written to the stream
    unflushed      \* something was written after the last fflush

vars == <<nfields, names, rows, showNulls, srcErr, fetched, f, allocated,
          bufcap, errno, ret, pc, out, unflushed>>
inputs == <<nfields, names, rows, showNulls>>

Init ==
    /\ nfields \in 0..MaxFields
    /\ names \in [1..nfields -> Names]
    /\ rows \in UNION {[1..r -> [1..nfields -> Values]] : r \in 0..MaxRows}
    /\ showNulls \in BOOLEAN
    /\ srcErr \in {"none", SrcErr}
    /\ fetched = 0 /\ f = 1
    /\ allocated = FALSE /\ bufcap = InitialCap
    /\ errno = "none" /\ ret = 0 /\ pc = "alloc"
    /\ out = <<>> /\ unflushed = FALSE

(* The current field's value. *)
Cur == rows[fetched][f]

(* Append text to the output and go on to control point p.                 *)
Put(text, p) ==
    /\ out' = out \o text
    /\ unflushed' = TRUE
    /\ pc' = p

(* Mutant of NextField: the loop bound is off by one.                     *)
NextFieldPastEnd(p) == IF f <= nfields THEN f' = f + 1 /\ pc' = p ELSE pc' = "eol" /\ UNCHANGED f

(* After field f: the next field, or the record's newline.                 *)
NextField(p) == IF f < nfields THEN f' = f + 1 /\ pc' = p ELSE pc' = "eol" /\ UNCHANGED f

(* malloc of the staging buffer.                                           *)
Alloc ==
    /\ pc = "alloc"
    /\ allocated' = TRUE
    /\ pc' = "check"
    /\ UNCHANGED <<inputs, srcErr, fetched, f, bufcap, errno, ret, out, unflushed>>

(* Mutant of Check: the zero-field return forgets to free the buffer.      *)
CheckZeroFieldsKeepsBuffer ==
    /\ pc = "check"
    /\ CASE srcErr # "none" ->
              errno' = srcErr /\ pc' = "failure" /\ UNCHANGED <<allocated, ret>>
         [] nfields = 0 ->
              ret' = 0 /\ pc' = "done" /\ UNCHANGED <<allocated, errno>>
         [] OTHER ->
              pc' = "names" /\ UNCHANGED <<allocated, errno, ret>>
    /\ UNCHANGED <<inputs, srcErr, fetched, f, bufcap, out, unflushed>>

(* neo4j_check_failure, then neo4j_nfields: zero fields frees the buffer  *)
(* and returns 0 with nothing written.                                     *)
Check ==
    /\ pc = "check"
    /\ CASE srcErr # "none" ->
              errno' = srcErr /\ pc' = "failure" /\ UNCHANGED <<allocated, ret>>
         [] nfields = 0 ->
              allocated' = FALSE /\ ret' = 0 /\ pc' = "done" /\ UNCHANGED errno
         [] OTHER ->
              pc' = "names" /\ UNCHANGED <<allocated, errno, ret>>
    /\ UNCHANGED <<inputs, srcErr, fetched, f, bufcap, out, unflushed>>

(* One field name, quoted, and the comma after it.                         *)
WriteName ==
    /\ pc = "names"
    /\ out' = out \o Quoted(names[f]) \o Sep(f, nfields)
    /\ unflushed' = TRUE
    /\ NextField("names")
    /\ UNCHANGED <<inputs, srcErr, fetched, allocated, bufcap, errno, ret>>

(* The newline that ends the header or a row.                              *)
EndRecord ==
    /\ pc = "eol"
    /\ Put(<<"\n">>, "fetch")
    /\ UNCHANGED <<inputs, srcErr, fetched, f, allocated, bufcap, errno, ret>>

(* neo4j_fetch_next: the next row, or NULL at the end or on failure.       *)
Fetch ==
    /\ pc = "fetch"
    /\ \/ /\ fetched < Len(rows) /\ srcErr = "none"
          /\ fetched' = fetched + 1 /\ f' = 1 /\ pc' = "value"
          /\ UNCHANGED srcErr
       \/ /\ fetched = Len(rows)
          /\ pc' = "recheck" /\ UNCHANGED <<fetched, f, srcErr>>
       \/ /\ srcErr' = SrcErr
          /\ pc' = "recheck" /\ UNCHANGED <<fetched, f>>
    /\ UNCHANGED <<inputs, allocated, bufcap, errno, ret, out, unflushed>>

(* write_value: a string is quoted as it is; a null is skipped unless     *)
(* NEO4J_RENDER_SHOW_NULLS; anything else is stringified into the buffer.  *)
WriteValue ==
    /\ pc = "value"
    /\ CASE Cur.type = "string" ->
              out' = out \o Quoted(Cur.text) \o Sep(f, nfields)
              /\ unflushed' = TRUE /\ NextField("value")
         [] Cur.type = "null" /\ ~showNulls ->
              out' = out \o Sep(f, nfields)
              /\ unflushed' = TRUE /\ NextField("value")
         [] OTHER ->
              pc' = "stringify" /\ UNCHANGED <<f, out, unflushed>>
    /\ UNCHANGED <<inputs, srcErr, fetched, allocated, bufcap, errno, ret>>

(* The loop of write_value: neo4j_ntostring returns the length required;  *)
(* while it does not fit, the buffer is realloc'ed to that length.  Once  *)
(* it fits a scalar is written as it is, anything else quoted.            *)
Stringify ==
    /\ pc = "stringify"
    /\ LET required == Len(Cur.text) IN
       IF required < bufcap
       THEN /\ out' = out \o (IF Cur.type \in ScalarTypes THEN Cur.text
                              ELSE Quoted(Cur.text)) \o Sep(f, nfields)
            /\ unflushed' = TRUE
            /\ NextField("value")
            /\ UNCHANGED bufcap
       ELSE bufcap' = required /\ UNCHANGED <<f, pc, out, unflushed>>
    /\ UNCHANGED <<inputs, srcErr, fetched, allocated, errno, ret>>

(* Mutant of Recheck: the stream is not checked again after the rows.      *)
RecheckSkipped ==
    /\ pc = "recheck"
    /\ pc' = "flush"
    /\ UNCHANGED <<inputs, srcErr, fetched, f, allocated, bufcap, errno, ret, out,
                   unflushed>>

(* neo4j_check_failure after the last row.                                 *)
Recheck ==
    /\ pc = "recheck"
    /\ IF srcErr # "none"
       THEN errno' = srcErr /\ pc' = "failure"
       ELSE pc' = "flush" /\ UNCHANGED errno
    /\ UNCHANGED <<inputs, srcErr, fetched, f, allocated, bufcap, ret, out,
                   unflushed>>

(* fflush on the success path; if it fails the failure label runs.         *)
Flush ==
    /\ pc = "flush"
    /\ unflushed' = FALSE
    /\ \/ allocated' = FALSE /\ ret' = 0 /\ pc' = "done" /\ UNCHANGED errno
       \/ errno' = "EIO" /\ pc' = "failure" /\ UNCHANGED <<allocated, ret>>
    /\ UNCHANGED <<inputs, srcErr, fetched, f, bufcap, out>>

(* The failure label: save errno, free the buffer, fflush, restore errno.  *)
Failure ==
    /\ pc = "failure"
    /\ allocated' = FALSE /\ unflushed' = FALSE
    /\ ret' = -1 /\ pc' = "done"
    /\ UNCHANGED <<inputs, srcErr, fetched, f, bufcap, errno, out>>

(* A write to the stream fails: goto failure with the stream's error.      *)
WriteFails ==
    /\ \/ pc \in {"names", "eol"}
       \/ /\ pc = "value"
          /\ \/ Cur.type = "string"
             \/ Cur.type = "null" /\ ~showNulls /\ f < nfields
       \/ pc = "stringify" /\ Len(Cur.text) < bufcap
    /\ errno' = "EIO" /\ pc' = "failure"
    /\ UNCHANGED <<inputs, srcErr, fetched, f, allocated, bufcap, ret, out,
                   unflushed>>

(* malloc of the buffer fails (return -1 at once), or its realloc in       *)
(* write_value does (goto failure).                                        *)
AllocFails ==
    /\ \/ pc = "alloc" /\ pc' = "done" /\ ret' = -1
       \/ pc = "stringify" /\ Len(Cur.text) >= bufcap
          /\ pc' = "failure" /\ UNCHANGED ret
    /\ errno' = "ENOMEM"
    /\ UNCHANGED <<inputs, srcErr, fetched, f, allocated, bufcap, out, unflushed>>

Progress ==
    \/ Alloc \/ Check \/ WriteName \/ EndRecord \/ Fetch \/ WriteValue
    \/ Stringify \/ Recheck \/ Flush \/ Failure
Next == Progress \/ WriteFails \/ AllocFails

(* One thread; the stream and the allocator may fail but never must.       *)
Spec == Init /\ [][Next]_vars /\ WF_vars(Progress)

-----------------------------------------------------------------------------
TypeOK ==
    /\ nfields \in 0..MaxFields /\ f \in 1..MaxFields
    /\ nfields > 0 => f <= nfields
    /\ srcErr \in {"none", SrcErr} /\ fetched \in 0..MaxRows
    /\ allocated \in BOOLEAN /\ bufcap \in Nat
    /\ errno \in {"none", "EIO", "ENOMEM", SrcErr}
    /\ ret \in {0, -1} /\ unflushed \in BOOLEAN

(***************************************************************************)
(* Reference reader of RFC 4180 CSV: cells start unquoted or quoted; in a  *)
(* quoted cell a doubled quote is one quote; records end with a newline.   *)
(* The result is the sequence of records, or "malformed".                  *)
(***************************************************************************)
RECURSIVE ReadCsv(_, _, _, _, _)
ReadCsv(s, mode, cell, rec, recs) ==
    IF s = <<>>
    THEN IF mode = "start" /\ cell = <<>> /\ rec = <<>> THEN recs ELSE "malformed"
    ELSE LET c   == Head(s)
             EndCell == ReadCsv(Tail(s), "start", <<>>, Append(rec, cell), recs)
             EndRec  == ReadCsv(Tail(s), "start", <<>>, <<>>,
                                Append(recs, Append(rec, cell)))
             Keep(m) == ReadCsv(Tail(s), m, Append(cell, c), rec, recs)
         IN  CASE mode = "start" /\ c = DQ -> ReadCsv(Tail(s), "quoted", cell, rec, recs)
               [] mode \in {"start", "plain", "closed"} /\ c = "," -> EndCell
               [] mode \in {"start", "plain", "closed"} /\ c = "\n" -> EndRec
               [] mode \in {"start", "plain"} /\ c # DQ -> Keep("plain")
               [] mode = "quoted" /\ c = DQ -> ReadCsv(Tail(s), "closed", cell, rec, recs)
               [] mode = "quoted" -> Keep("quoted")
               [] mode = "closed" /\ c = DQ -> Keep("quoted")
               [] OTHER -> "malformed"

(* The text a reader should get back for a value.                          *)
CellText(v) == IF v.type = "null" /\ ~showNulls THEN <<>> ELSE v.text

(* A render that returns 0 wrote CSV that reads back as the field names    *)
(* followed by the texts of every row's values, whatever quotes, commas    *)
(* and newlines they hold.                                                 *)
CsvRoundTrip ==
    (pc = "done" /\ ret = 0 /\ nfields > 0) =>
        ReadCsv(out, "start", <<>>, <<>>, <<>>) =
            <<names>> \o [r \in 1..Len(rows) |-> [k \in 1..nfields |-> CellText(rows[r][k])]]

(* The staging buffer is freed when the function returns.                  *)
BufferFreedOnReturn == pc = "done" => ~allocated

(* A failure of the result stream, before or after the rows, makes the     *)
(* render return -1 with errno set to the stream's error code; only a      *)
(* malloc failing before the stream is first checked reports ENOMEM.       *)
SourceFailureSurfaced ==
    (pc = "done" /\ srcErr # "none") =>
        /\ ret = -1
        /\ \/ errno = srcErr
           \/ errno = "ENOMEM" /\ out = <<>>

(* neo4j_render_csv returns for every stream it can be given.               *)
CsvTerminates == <>(pc = "done")

=============================================================================
