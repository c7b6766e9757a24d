------------------------------- MODULE Script -------------------------------
(***************************************************************************)
(* A JavaScript plugin between its loading and its end, seen from the      *)
(* objects that own something outside of the heap: timers, HTTP requests   *)
(* and files.  The script calls the API in any order, the event loop fires *)
(* timers and watchers, the collector runs when it likes, and the plugin   *)
(* may be unloaded at any time (finish of irccd/js-plugin.c).              *)
(***************************************************************************)
EXTENDS Timer, Http, File

vars == <<heapVars, timerVars, httpVars, fileVars>>

Init == HeapInit /\ TimerInit /\ HttpInit /\ FileInit

UseTimers(t) ==
    /\ \/ \E type \in {"Repeat", "Single"} : Timer_constructor(t, type)
       \/ Timer_prototype_start(t)
       \/ Timer_prototype_restart(t)
       \/ Timer_prototype_stop(t)
       \/ stimer_cb(t)
    /\ UNCHANGED <<httpVars, fileVars>>

UseHttp ==
    /\ \/ \E f \in Funcs : Define(f)
       \/ \E f \in Funcs, r \in Requests, now \in Reports : Http_request(f, r, now)
       \/ \E r \in Requests, now \in Reports : request_io_perform(r, now)
       \/ \E r \in Requests : request_io_end(r) \/ request_io_again(r)
    /\ UNCHANGED <<timerVars, fileVars>>

UseFiles(x) ==
    /\ \/ File_constructor(x)
       \/ System_popen(x)
       \/ \E flushed \in BOOLEAN : File_prototype_write(x, flushed)
       \/ File_prototype_close(x)
    /\ UNCHANGED <<timerVars, httpVars>>

forget(o) ==
    /\ Forget(o) /\ Abandon({o})
    /\ UNCHANGED <<timer, started, httpVars, fileVars>>

\* The finalizers of the objects os run.
Finalize(os) ==
    /\ timer' = Timer_destructor(os \cap Timers)
    /\ Http_destructor(os)
    /\ File_destructor(os)

collect(o) ==
    /\ Free(o) /\ Finalize({o})
    /\ UNCHANGED <<started, misused>>

\* finish: the heap is destroyed.
finish ==
    /\ Destroy /\ Finalize(live) /\ Abandon(live)
    /\ UNCHANGED started

Next ==
    \/ \E t \in Timers : UseTimers(t)
    \/ UseHttp
    \/ \E x \in Files : UseFiles(x)
    \/ \E o \in Objects : forget(o) \/ collect(o)
    \/ finish

\* A server that holds a connection answers on it or closes it in the end, and
\* the event loop reports it if it watches that connection.
Spec ==
    /\ Init /\ [][Next]_vars
    /\ \A r \in Requests :
        WF_vars(Watched(r) /\ request_io_end(r) /\ UNCHANGED <<timerVars, fileVars>>)
=============================================================================
