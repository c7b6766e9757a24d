-------------------------------- MODULE Http --------------------------------
(***************************************************************************)
(* Irccd.Http (irccd/jsapi-http.c): a request is a curl transfer driven by *)
(* a libev watcher, and owned by the callback function: a hidden property  *)
(* of the function points to it, the heap stash keeps the function, and    *)
(* the function's finalizer frees it.                                      *)
(***************************************************************************)
EXTENDS Heap

CONSTANT Requests   \* 1..n: bounds how many requests a script starts

ASSUME RequestsAssumption == Requests = 1..Cardinality(Requests)

VARIABLES
    req,        \* struct request of the started ones: the callback fn, the watcher's
                \* events and active, the output stream fp (open until the answer),
                \* and whether the watcher's fd is the descriptor curl uses
    sig         \* what the hidden property of a callback points to

httpVars == <<req, sig>>

\* What curl_multi_perform and curl_multi_fdset report: the transfer goes on
\* with the events of a descriptor; it has none, so no events, when it resolves a
\* name or has ended.  For another address or a redirection curl goes to another
\* descriptor, which is not the one the watcher has.
Reports ==
    {[events |-> {}, same |-> FALSE]} \cup [events : {{"read"}, {"write"}}, same : BOOLEAN]

HttpInit == req = <<>> /\ sig = <<>>

Define(f) == f \in Funcs /\ Create(f) /\ UNCHANGED httpVars

\* The watcher set again where its events differ, and left stopped.
NeverStarted(q, now) ==
    IF q.events = now.events THEN [q EXCEPT !.same = now.same]
    ELSE [q EXCEPT !.events = now.events, !.same = TRUE]

\* The watcher is set again when the events differ; with the same events it stays
\* on the descriptor it has.  No descriptor gives no event.  Starting a watcher of
\* descriptor -1 is a failed assertion of libev.
request_set_events(q, now) ==
    IF q.events = now.events THEN [q EXCEPT !.same = now.same]
    ELSE [q EXCEPT !.events = now.events, !.same = TRUE, !.active = TRUE]

request_new(f) ==
    [fn |-> f, events |-> {}, active |-> FALSE, fp |-> TRUE, same |-> FALSE]

\* The property of a function that has a request already is overwritten.
request_attach(f, r) ==
    /\ sig' = [g \in DOMAIN sig \cup {f} |-> IF g = f THEN r ELSE sig[g]]
    /\ stash' = stash \cup {f}

\* The first perform is followed by the watcher alone: a transfer that ends in
\* it, or has no descriptor yet, is left without one.
request_start(r, f, now) ==
    req' = [s \in DOMAIN req \cup {r} |->
              IF s = r THEN request_set_events(request_new(f), now)
              ELSE req[s]]

Http_request(f, r, now) ==
    /\ Scripted /\ f \in held \cap Funcs /\ r \in Requests /\ r = Cardinality(DOMAIN req) + 1
    /\ request_attach(f, r)
    /\ request_start(r, f, now)
    /\ UNCHANGED <<heap, used, live, held, crash>>

\* The entry of the function in the stash stays: request_attach names it by the
\* address, and here it is looked for by the function itself.
request_detach(fn) == stash

\* The stream is closed and the function called; what it is told is not
\* followed.
request_complete(q) == [q EXCEPT !.fp = FALSE]

\* The watcher's descriptor is ready while the transfer is under way.
request_io_perform(r, now) ==
    /\ Looping /\ r \in DOMAIN req /\ req[r].active /\ req[r].fp
    /\ req' = [req EXCEPT ![r] = request_set_events(req[r], now)]
    /\ crash' = IF now.events = {} THEN "descriptor" ELSE ""
    /\ UNCHANGED <<heap, used, live, held, stash, sig>>

\* It is ready and the transfer ends: jsapi_plugin_self and the call need the
\* heap and the function.
request_io_end(r) ==
    /\ Looping /\ r \in DOMAIN req /\ req[r].active /\ req[r].fp
    /\ IF heap /\ req[r].fn \in live
       THEN /\ req' = [req EXCEPT ![r] = request_complete(req[r])]
            /\ stash' = request_detach(req[r].fn) /\ crash' = ""
       ELSE req' = req /\ stash' = stash /\ crash' = "request"
    /\ UNCHANGED <<heap, used, live, held, sig>>

\* It is ready once more after the end, as when the server closes: the stream
\* is closed a second time, through a null pointer.
request_io_again(r) ==
    /\ Looping /\ r \in DOMAIN req /\ req[r].active /\ ~req[r].fp
    /\ crash' = "request"
    /\ UNCHANGED <<heap, used, live, held, stash, httpVars>>

\* A request freed with its watcher still started.
FreedStarted(q) == [q EXCEPT !.fp = FALSE]

request_free(q) == [q EXCEPT !.active = FALSE, !.fp = FALSE]

\* The finalizer of the functions fs frees the requests they point to.
Http_destructor(fs) ==
    LET freed == {sig[f] : f \in fs \cap DOMAIN sig} IN
    /\ req' = [r \in DOMAIN req |-> IF r \in freed THEN request_free(req[r]) ELSE req[r]]
    /\ sig' = [f \in DOMAIN sig \ fs |-> sig[f]]

\* Two requests were started with one function.
Shared(r) == \E s \in DOMAIN req \ {r} : req[s].fn = req[r].fn

\* A request whose watcher runs is one that a function in the heap points to,
\* so that unloading the plugin stops it; a callback given to a second request
\* is the exception, whose first request nothing can stop any more.
RequestsOwned ==
    \A r \in DOMAIN req : req[r].active /\ ~Shared(r) =>
        \E f \in live \cap DOMAIN sig : sig[f] = r

\* The watcher of the request was set to the descriptor and the events that
\* curl waits for.
Watched(r) == r \in DOMAIN req /\ req[r].events # {} /\ req[r].same

Over(r) == (r \in DOMAIN req /\ ~req[r].fp) \/ ~heap \/ crash # ""

\* A request is answered, unless the plugin is unloaded or the daemon crashes
\* before, or curl goes on to a descriptor that is not watched
\* (request_set_events).  A watcher that has to be started is started, and one
\* that is wanted is not stopped before the answer.
Answered == \A r \in Requests : Watched(r) ~> (Over(r) \/ ~Watched(r))
=============================================================================
