-------------------------------- MODULE Heap --------------------------------
(***************************************************************************)
(* The duktape heap of one JavaScript plugin, as far as the objects of the *)
(* Irccd API that own something outside of it need: which objects exist,   *)
(* which the script still refers to, and which are kept in the heap stash. *)
(* duktape itself is modelled from how the plugin uses it.                 *)
(***************************************************************************)
EXTENDS Naturals, FiniteSets

CONSTANTS
    Timers,     \* Irccd.Timer objects the script may create
    Funcs,      \* functions it may hand to Irccd.Http.request
    Files       \* Irccd.File objects

ASSUME ObjectsAssumption ==
    /\ Timers \cap Funcs = {} /\ Timers \cap Files = {} /\ Funcs \cap Files = {}
    /\ IsFiniteSet(Timers \cup Funcs \cup Files)

VARIABLES
    heap,       \* the heap exists: the plugin is not finished
    used,       \* objects that were ever created
    live,       \* objects in the heap
    held,       \* those that the script refers to
    stash,      \* those that the heap stash refers to
    crash       \* how the daemon crashed, "" while it runs

heapVars == <<heap, used, live, held, stash, crash>>

Objects == Timers \cup Funcs \cup Files

HeapInit ==
    /\ heap = TRUE /\ crash = ""
    /\ used = {} /\ live = {} /\ held = {} /\ stash = {}

\* The script can run, and the event loop can.
Scripted == heap /\ crash = ""
Looping == crash = ""

\* An object comes to be, in a variable of the script.
Create(o) ==
    /\ Scripted /\ o \notin used
    /\ used' = used \cup {o} /\ live' = live \cup {o} /\ held' = held \cup {o}
    /\ UNCHANGED <<heap, stash, crash>>

\* The script loses its last reference.
Forget(o) ==
    /\ Scripted /\ o \in held
    /\ held' = held \ {o}
    /\ UNCHANGED <<heap, used, live, stash, crash>>

Garbage == live \ (held \cup stash)

\* The collector frees an object.
Free(o) ==
    /\ Scripted /\ o \in Garbage
    /\ live' = live \ {o}
    /\ UNCHANGED <<heap, used, held, stash, crash>>

\* duk_destroy_heap: every finalizer runs and every object is freed.
Destroy ==
    /\ Scripted
    /\ heap' = FALSE /\ live' = {} /\ held' = {} /\ stash' = {}
    /\ UNCHANGED <<used, crash>>
=============================================================================
