------------------------------- MODULE Timer -------------------------------
(***************************************************************************)
(* Irccd.Timer (irccd/jsapi-timer.c): a libev timer in a structure that a  *)
(* JavaScript object owns.  The timer refers to the object by address, and *)
(* nothing but the script keeps the object.                                *)
(***************************************************************************)
EXTENDS Heap

VARIABLES
    timer,      \* struct stimer of the constructed timers: [type : {"Repeat", "Single"},
                \* active : BOOLEAN]
    started,    \* history: the timers that run as far as the script can tell
    misused     \* history: a timer was abandoned while it ran

timerVars == <<timer, started, misused>>

TimerInit == timer = <<>> /\ started = {} /\ misused = FALSE

stimer_init(type) == [type |-> type, active |-> FALSE]

\* The timer is created stopped.  The finalizer is set on the object.
Timer_constructor(t, type) ==
    /\ Create(t)
    /\ timer' = [u \in DOMAIN timer \cup {t} |-> IF u = t THEN stimer_init(type) ELSE timer[u]]
    /\ UNCHANGED <<started, misused>>

\* A method needs an object that the script can name.
stimer_self(t) == Scripted /\ t \in held \cap Timers

\* ev_timer_start does nothing to an active timer.
Timer_prototype_start(t) ==
    /\ stimer_self(t)
    /\ timer' = [timer EXCEPT ![t].active = TRUE]
    /\ started' = started \cup {t}
    /\ UNCHANGED <<heapVars, misused>>

\* ev_timer_again restarts a repeating timer and stops any other.
Timer_prototype_restart(t) ==
    /\ stimer_self(t)
    /\ timer' = [timer EXCEPT ![t].active = timer[t].type = "Repeat"]
    /\ started' = IF timer[t].type = "Repeat" THEN started \cup {t} ELSE started \ {t}
    /\ UNCHANGED <<heapVars, misused>>

\* A stop that never reaches libev.
StopForgotten(t) ==
    /\ stimer_self(t)
    /\ started' = started \ {t}
    /\ UNCHANGED <<timer, heapVars, misused>>

Timer_prototype_stop(t) ==
    /\ stimer_self(t)
    /\ timer' = [timer EXCEPT ![t].active = FALSE]
    /\ started' = started \ {t}
    /\ UNCHANGED <<heapVars, misused>>

\* The timer expires: libev stops a single one, and the callback is looked up
\* in the object the structure points to.
stimer_cb(t) ==
    /\ Looping /\ t \in DOMAIN timer /\ timer[t].active
    /\ timer' = [timer EXCEPT ![t].active = timer[t].type = "Repeat"]
    /\ started' = IF timer[t].type = "Repeat" THEN started ELSE started \ {t}
    /\ crash' = IF t \in live THEN "" ELSE "timer"
    /\ UNCHANGED <<heap, used, live, held, stash, misused>>

\* The finalizer of the timers ts.  It is called with the object alone on the
\* stack; deleting the property of index -2 raises, and the structure is
\* neither stopped nor freed behind it.
Timer_destructor(ts) == timer

\* The script abandons the objects os.
Abandon(os) == misused' = (misused \/ os \cap started # {})

\* Dropping the only reference to a Timer is the script's own doing: an event
\* loop that calls back into a freed object needs a script that abandoned a
\* timer it had started and not stopped (or was unloaded with one running).
TimersDisciplined == crash = "timer" => misused
=============================================================================
