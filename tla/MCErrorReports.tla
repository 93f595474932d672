--------------------------- MODULE MCErrorReports ---------------------------
(***************************************************************************)
(* Instances of ErrorReports for TLC.                                      *)
(***************************************************************************)
EXTENDS ErrorReports

CONSTANTS p1, p2

\* A scanner and an operator share one report that retention never deletes.
SharedLoad ==
    [reports |-> {1}, senders |-> {p1, p2}, failures |-> {"rate_limited"},
     maxRows |-> 1, maxAge |-> 9, records |-> 2, byteEvictions |-> 0,
     faults |-> 0, resets |-> 0]

\* A scanner sends two reports while a limit of one row, an age of one unit
\* and the byte limit delete them.
RetentionLoad ==
    [reports |-> {1, 2}, senders |-> {p1}, failures |-> {"transport"},
     maxRows |-> 1, maxAge |-> 1, records |-> 3, byteEvictions |-> 1,
     faults |-> 0, resets |-> 0]

\* Every failure of the backend, a crash or a database error in between, and
\* the operator who resets what they block.
FaultyLoad ==
    [reports |-> {1}, senders |-> {p1}, failures |-> AllFailures,
     maxRows |-> 1, maxAge |-> 9, records |-> 2, byteEvictions |-> 0,
     faults |-> 1, resets |-> 1]

MCWorkloads == {SharedLoad, RetentionLoad, FaultyLoad}
=============================================================================
