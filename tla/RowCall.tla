------------------------------ MODULE RowCall ------------------------------
(***************************************************************************)
(* What neo4j_render_table relies on when it calls render_row: one call    *)
(* that returns once, either 0 after every cell's text has been put on     *)
(* the row's lines, or -1 with errno naming one of the errors a row can    *)
(* meet (the stream's, the allocator's, the UTF-8 decoder's).  RenderTable *)
(* takes such a call as a single step; RenderRow is shown to implement it. *)
(***************************************************************************)
EXTENDS Integers

CONSTANT RowErrors   \* the errno values a failing row call may leave

VARIABLES
    phase,      \* "running" until the call returns, then "returned"
    ret,        \* the value returned; -1 until then
    errno,      \* the caller's errno as seen after the call
    complete,   \* every text the row must show has been shown
    failed      \* "none", or the error of the operation that failed

vars == <<phase, ret, errno, complete, failed>>

Init ==
    /\ phase = "running" /\ ret = -1 /\ errno = "none"
    /\ complete \in BOOLEAN
    /\ failed = "none"

(* The row puts the last missing piece of its texts on a line.             *)
ShowRest ==
    /\ phase = "running" /\ ~complete
    /\ complete' = TRUE
    /\ UNCHANGED <<phase, ret, errno, failed>>

(* A write, an allocation or the decoder fails inside the call.            *)
Meet ==
    /\ phase = "running" /\ failed = "none"
    /\ failed' \in RowErrors
    /\ UNCHANGED <<phase, ret, errno, complete>>

(* The call returns 0, only once everything is shown and nothing failed,   *)
(* leaving errno alone.                                                    *)
Succeed ==
    /\ phase = "running" /\ complete /\ failed = "none"
    /\ phase' = "returned" /\ ret' = 0
    /\ UNCHANGED <<errno, complete, failed>>

(* The call returns -1 with errno set to the error of the operation that  *)
(* failed (which may fail in the same step).                               *)
Fail ==
    /\ phase = "running"
    /\ phase' = "returned" /\ ret' = -1
    /\ failed' \in IF failed = "none" THEN RowErrors ELSE {failed}
    /\ errno' = failed'
    /\ UNCHANGED complete

Next == ShowRest \/ Meet \/ Succeed \/ Fail

Spec == Init /\ [][Next]_vars
=============================================================================
