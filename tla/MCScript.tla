------------------------------ MODULE MCScript ------------------------------
(***************************************************************************)
(* A script with one timer, two callback functions, two requests and one   *)
(* file: enough for a callback given to two requests, for a request that   *)
(* outlives the heap, and for every way a stream is closed.                *)
(***************************************************************************)
EXTENDS Script

CONSTANTS t1, f1, f2, x1

MCTimers == {t1}
MCFuncs == {f1, f2}
MCRequests == 1..2
MCFiles == {x1}
=============================================================================
