-------------------------------- MODULE Conn --------------------------------
(***************************************************************************)
(* The connection of one IRC server (lib/irccd/conn.c): three cooperative  *)
(* coroutines over one socket, and the server's consumer coroutine that    *)
(* takes the parsed messages (lib/irccd/server.c).                         *)
(*                                                                         *)
(* Scheduling.  The coroutines never run in parallel.  libev polls, then   *)
(* the scheduler resumes the attached coroutines in the order of their     *)
(* list: io_fd (priority 0, inserted before its equals), timer (0),        *)
(* consumer (1), producer (2).  `turn' is the coroutine the pass is at;    *)
(* one action is one run of a coroutine from a resume to its next yield,   *)
(* except that a run of io_fd through resolve and connect is several       *)
(* actions during which nothing else may move (IoRunning).                 *)
(*                                                                         *)
(* Data.  A line of input is a record: the sessions its bytes came from    *)
(* ("cur", the session of the present io_fd coroutine, or "old"), whether  *)
(* its \r\n arrived, and what it is: an IRC message, a line conn_next does *)
(* not parse (empty or too long), or the internal 000.  A line of output   *)
(* is the session that pushed it and whether it belongs to the handshake.  *)
(* TLS is not modelled: conn.c is the build without IRCCD_WITH_SSL.        *)
(***************************************************************************)
EXTENDS Naturals, Sequences

CONSTANTS
    NEndpoints,     \* length of the list getaddrinfo returns
    NHandshake,     \* lines conn_ident pushes
    OutCap,         \* lines CONN_OUT_SIZE holds
    InCap           \* bound: lines waiting in the input buffer

ASSUME ConnAssumption ==
    /\ NEndpoints \in Nat \ {0}
    /\ NHandshake \in Nat \ {0}
    /\ OutCap \in Nat /\ OutCap >= NHandshake
    /\ InCap \in Nat \ {0}

VARIABLES
    alive,      \* server->coroutine is not NULL
    state,      \* conn->state
    ai,         \* conn->ai: index in the address list, 0 for NULL
    rc,         \* conn_connect's local rc is -1
    fd,         \* conn->fd: "zero" from calloc, "none" is -1, "sock"
    inbuf,      \* conn->in
    outbuf,     \* conn->out
    io,         \* where the io_fd coroutine is
    tco,        \* where the timer coroutine is
    stored,     \* storage of the producer coroutine
    watch,      \* conn->io_fd.io, the ev_io watcher
    tm,         \* conn->timer.timer, the ev_timer watcher
    peer,       \* the remote end of conn->fd
    turn,       \* which coroutine the scheduler resumes next
    proc,       \* how the process is: "run", or how it stopped
    owed,       \* history: a connection loss plugins were not told of yet
    dangling    \* history: conn was freed with a watcher still in libev

bufVars  == <<inbuf, outbuf, stored, owed>>
envVars  == <<peer, proc>>
vars == <<alive, state, ai, rc, fd, inbuf, outbuf, io, tco, stored, watch, tm,
          peer, turn, proc, owed, dangling>>

States   == {"RESOLVE", "CONNECT", "IDENT", "READY"}
IoPoints == {"none", "resolve", "connect", "dialing", "ident", "ready", "idle"}
Turns    == {"poll", "io", "timer", "consumer", "producer"}
Faults   == {"spin", "negfd", "corrupt", "selfkill", "wild"}
Line     == [from : (SUBSET {"old", "cur"}) \ {{}}, end : BOOLEAN,
             kind : {"irc", "bad", "lost", "stale"}]
Watch    == [active : BOOLEAN, events : SUBSET {"R", "W"},
             revents : SUBSET {"R", "W"}, stale : BOOLEAN]
Timer    == [active : BOOLEAN, repeat : BOOLEAN, fired : BOOLEAN]
Output   == [from : {"old", "cur"}, kind : {"hs", "app"}]

IoRunning == io \in {"resolve", "connect"}
Running   == alive /\ proc = "run"

-----------------------------------------------------------------------------
(* Watchers of libev and nce (external: extern/libnce, extern/libev).      *)

nce_io_stop(w) == [w EXCEPT !.active = FALSE, !.revents = {}]

nce_io_reset(w, ev) == [w EXCEPT !.active = TRUE, !.events = ev, !.revents = {}]

\* ev_init on a watcher that is still linked in the list of its descriptor.
ev_init(w) == [w EXCEPT !.active = FALSE, !.stale = w.stale \/ w.active]

\* ev_timer_again: rearms a repeating timer, stops one that does not repeat.
nce_timer_again(t) == [t EXCEPT !.active = t.repeat]

nce_timer_feed(t) == [t EXCEPT !.fired = TRUE]

DelayNotStarted(t) == [active |-> FALSE, repeat |-> FALSE, fired |-> FALSE]
ReconnectTimer(t) == [active |-> TRUE, repeat |-> FALSE, fired |-> FALSE]

nce_timer_stop(t) == [t EXCEPT !.active = FALSE, !.fired = FALSE]

-----------------------------------------------------------------------------
(* Buffers.                                                                *)

Last(s) == s[Len(s)]

ReadyTooSoon == alive /\ state \in {"CONNECT", "IDENT", "READY"}
irc__conn_ready == alive /\ state \in {"IDENT", "READY"}

Push(b, kind) ==
    IF Len(b) < OutCap THEN Append(b, [from |-> "cur", kind |-> kind]) ELSE b

\* The irc_server_send calls of conn_ident; those that do not fit are dropped.
PushHandshake(b) ==
    LET room == OutCap - Len(b)
        n    == IF room < NHandshake THEN room ELSE NHandshake
    IN  b \o [i \in 1..n |-> [from |-> "cur", kind |-> "hs"]]

\* The input conn_ready leaves for conn_next when the connection is lost.
LostInput == <<[from |-> {"cur"}, end |-> TRUE, kind |-> "lost"]>>

Partial(b) == b # <<>> /\ ~Last(b).end

Chunks == {"line", "part", "bad"}

\* Received bytes join the line that has no \r\n yet, whichever session sent it.
InBefore(b, o) ==
    IF o \in Chunks
    THEN <<[from |-> {"cur"}, end |-> o # "part", kind |-> "irc"]>> \o b ELSE b
InAfter(b, o) ==
    LET l == [from |-> {"cur"}, end |-> o # "part", kind |-> IF o = "bad" THEN "bad" ELSE "irc"]
    IN  IF o \notin Chunks THEN b
        ELSE IF Partial(b)
        THEN [b EXCEPT ![Len(b)] = [l EXCEPT !.from = {"cur"} \cup Last(b).from]]
        ELSE Append(b, l)

OldLine(l)   == [l EXCEPT !.from = {"old"}]
OldOutput(o) == [o EXCEPT !.from = "old"]

\* How conn_recv may end: nothing to read, a chunk of data, or failure.  A
\* closed peer may have left unread bytes.  When the lines that wait, complete or
\* not, fill the buffer, recv(2) is called with size 0 and its 0 is taken for a
\* closed peer.  Lines have any length, so any of them may fill it.
conn_recv(o) ==
    \/ o = "skip" /\ "R" \notin watch.revents
    \/ o = "again" /\ "R" \in watch.revents /\ peer = "up"
    \/ /\ o \in Chunks /\ "R" \in watch.revents
       /\ peer \in {"up", "closed"}
       /\ Len(inbuf) < InCap \/ Partial(inbuf)
    \/ /\ o = "fail" /\ "R" \in watch.revents
       /\ peer \in {"closed", "refused"} \/ inbuf # <<>>

RecvOutcomes == {"skip", "again"} \cup Chunks

\* conn_send transmits n of the waiting lines.
conn_send(n) ==
    IF "W" \in watch.revents /\ outbuf # <<>>
    THEN n \in 1..Len(outbuf) /\ peer \in {"up", "closed"}
    ELSE n = 0

\* send(2) fails on a dead connection and conn_tcp_send retries for ever: the
\* loop leaves only on EINTR.
conn_send_spins ==
    "W" \in watch.revents /\ outbuf # <<>> /\ peer \in {"closed", "refused"}

\* Interest after conn_wait: reading, and writing only if this call sent
\* part of the output.
EventsWriteOnly(n) == IF n > 0 /\ n < Len(outbuf) THEN {"W"} ELSE {}
EventsAfter(n) == {"R"} \cup (IF n > 0 /\ n < Len(outbuf) THEN {"W"} ELSE {})

\* conn_wait returning 0 after receiving o and sending n lines.
conn_wait(o, n) ==
    /\ conn_recv(o) /\ conn_send(n)
    /\ inbuf' = InAfter(inbuf, o)
    /\ outbuf' = SubSeq(outbuf, n + 1, Len(outbuf))
    /\ watch' = nce_io_reset(watch, EventsAfter(n))

\* conn_reschedule: stop watching, feed the timer and yield for ever.
RescheduleUnfed(t) ==
    /\ watch' = nce_io_stop(watch)
    /\ tm' = nce_timer_again(t)
    /\ io' = "idle"
conn_reschedule(t) ==
    /\ watch' = nce_io_stop(watch)
    /\ tm' = nce_timer_feed(t)
    /\ io' = "idle"

-----------------------------------------------------------------------------
(* The io_fd coroutine.                                                    *)

\* conn_resolve: getaddrinfo(3) blocks; it fails, or the first endpoint is next.
conn_resolve ==
    /\ Running /\ io = "resolve"
    /\ \/ /\ conn_reschedule(nce_timer_again(tm))
          /\ UNCHANGED <<state, ai, rc>>
       \/ /\ state' = "CONNECT" /\ ai' = 1 /\ rc' = FALSE
          /\ io' = "connect" /\ tm' = nce_timer_again(tm)
          /\ UNCHANGED watch
    /\ UNCHANGED <<alive, fd, tco, turn, bufVars, envVars, dangling>>

\* The end of conn_connect and the beginning of conn_ident.
EnterIdent(w) ==
    /\ state' = "IDENT" /\ io' = "ident"
    /\ tm' = nce_timer_again(tm)
    /\ outbuf' = PushHandshake(outbuf)
    /\ watch' = nce_io_reset(w, IF Len(outbuf) < OutCap THEN {"R", "W"} ELSE {"R"})

\* Go on with the next endpoint of conn_connect's loop, or give up.
NextEndpoint(w) ==
    \/ /\ ai < NEndpoints
       /\ ai' = ai + 1 /\ io' = "connect"
       /\ watch' = w
       /\ UNCHANGED tm
    \/ /\ ai = NEndpoints
       /\ ai' = 0
       /\ conn_reschedule(tm)

\* conn_socket gives conn->fd a new descriptor whatever it held.  A watcher
\* still linked in a list of libev aborts the process when it is linked in the
\* same list again, that is when the new descriptor has the old number.
conn_socket(remote, sameFd) ==
    /\ fd' = "sock" /\ peer' = remote
    /\ proc' = IF watch.stale /\ sameFd THEN "corrupt" ELSE proc

\* conn_socket or connect(2) fails at once.
ConnectFails ==
    /\ fd' = "none" /\ peer' = "none"
    /\ rc' = TRUE
    /\ NextEndpoint(watch)
    /\ UNCHANGED <<state, outbuf, proc>>

\* connect(2) is in progress: wait until the socket is writable.
ConnectInProgress(sameFd) ==
    /\ conn_socket("syn", sameFd)
    /\ watch' = nce_io_reset(watch, {"W"})
    /\ io' = "dialing"
    /\ UNCHANGED <<state, ai, rc, outbuf, tm>>

\* connect(2) succeeds at once; rc still tells of an endpoint that failed before.
ConnectSucceeds(sameFd) ==
    \/ /\ ~rc
       /\ conn_socket("up", sameFd)
       /\ EnterIdent(watch)
       /\ UNCHANGED <<ai, rc>>
    \/ /\ rc
       /\ conn_socket("up", FALSE)
       /\ NextEndpoint(watch)
       /\ UNCHANGED <<state, rc, outbuf>>

conn_connect ==
    /\ Running /\ io = "connect"
    /\ \/ ConnectFails
       \/ \E sameFd \in BOOLEAN : ConnectInProgress(sameFd) \/ ConnectSucceeds(sameFd)
    /\ UNCHANGED <<alive, inbuf, tco, stored, turn, owed, dangling>>

IoTurn == Running /\ turn = "io" /\ ~IoRunning /\ turn' = "timer"

\* conn_dial resumed: SO_ERROR holds a positive errno, which is not below 0, so
\* the endpoint counts as connected; it is used if no endpoint failed before.
conn_dial ==
    /\ IoTurn /\ io = "dialing" /\ watch.revents # {}
    /\ \/ ~rc /\ EnterIdent(nce_io_stop(watch)) /\ UNCHANGED ai
       \/ rc /\ NextEndpoint(nce_io_stop(watch)) /\ UNCHANGED <<state, outbuf>>
    /\ UNCHANGED <<alive, rc, fd, inbuf, tco, stored, owed, envVars, dangling>>

\* The retry loop of conn_tcp_send never ends: no coroutine runs any more.
WaitSpins ==
    /\ IoTurn /\ io \in {"ident", "ready"} /\ watch.revents # {}
    /\ conn_send_spins
    /\ \E o \in RecvOutcomes : conn_recv(o) /\ inbuf' = InAfter(inbuf, o)
    /\ proc' = "spin"
    /\ UNCHANGED <<alive, state, ai, rc, fd, outbuf, io, tco, stored, watch, tm,
                   peer, owed, dangling>>

\* conn_ident: wait until the output is fully sent.
conn_ident ==
    /\ IoTurn /\ io = "ident" /\ watch.revents # {}
    /\ \/ \E o \in RecvOutcomes, n \in 0..Len(outbuf) :
             /\ conn_wait(o, n)
             /\ \/ /\ outbuf' = <<>>
                   /\ state' = "READY" /\ io' = "ready"
                   /\ tm' = nce_timer_again(tm)
                \/ /\ outbuf' # <<>>
                   /\ UNCHANGED <<state, io, tm>>
       \/ /\ conn_recv("fail")
          /\ conn_reschedule(tm)
          /\ UNCHANGED <<state, inbuf, outbuf>>
    /\ UNCHANGED <<alive, ai, rc, fd, tco, stored, owed, envVars, dangling>>

\* conn_ready: exchange; a failure replaces the input by the internal 000.
conn_ready ==
    /\ IoTurn /\ io = "ready" /\ watch.revents # {}
    /\ \/ /\ \E o \in RecvOutcomes, n \in 0..Len(outbuf) : conn_wait(o, n)
          /\ tm' = nce_timer_again(tm)
          /\ UNCHANGED <<io, owed>>
       \/ /\ conn_recv("fail")
          /\ inbuf' = LostInput
          /\ owed' = TRUE
          /\ conn_reschedule(tm)
          /\ UNCHANGED outbuf
    /\ UNCHANGED <<alive, state, ai, rc, fd, tco, stored, envVars, dangling>>

\* Resumed with nothing to do, idle after conn_reschedule, or destroyed.
IoYields ==
    /\ IoTurn
    /\ io \in {"none", "idle"} \/ watch.revents = {}
    /\ UNCHANGED <<alive, state, ai, rc, fd, io, tco, watch, tm, bufVars, envVars, dangling>>

-----------------------------------------------------------------------------
(* The timer coroutine.                                                    *)

TimerTurn == Running /\ turn = "timer" /\ ~IoRunning /\ turn' = "consumer"

\* conn_timer_resurrect up to its wait: destroy io_fd, whose finalizer closes
\* the descriptor.  Nothing stops the ev_io watcher.
conn_timer_resurrect ==
    /\ TimerTurn /\ tco = "watch" /\ tm.fired
    /\ io' = "none" /\ ai' = 0
    /\ fd' = "none" /\ peer' = "none"
    /\ tm' = ReconnectTimer(tm)
    /\ tco' = "delay"
    /\ UNCHANGED <<alive, state, rc, watch, proc, bufVars, dangling>>

\* The delay elapsed: conn_io_spawn, and conn_io_entry is entered at once.
conn_io_spawn ==
    /\ TimerTurn /\ tco = "delay" /\ tm.fired
    /\ tco' = "watch" /\ tm' = nce_timer_stop(tm)
    /\ watch' = ev_init(watch)
    /\ state' = "RESOLVE" /\ io' = "resolve"
    /\ inbuf' = [i \in DOMAIN inbuf |-> OldLine(inbuf[i])]
    /\ stored' = [i \in DOMAIN stored |-> OldLine(stored[i])]
    /\ outbuf' = [i \in DOMAIN outbuf |-> OldOutput(outbuf[i])]
    /\ UNCHANGED <<alive, ai, rc, fd, owed, envVars, dangling>>

TimerYields ==
    /\ TimerTurn /\ ~tm.fired
    /\ UNCHANGED <<alive, state, ai, rc, fd, io, tco, watch, tm, bufVars, envVars, dangling>>

-----------------------------------------------------------------------------
(* The server's consumer coroutine and the producer coroutine.             *)

ConsumerTurn == Running /\ turn = "consumer" /\ ~IoRunning /\ turn' = "producer"

\* irc__conn_pull, then the handler.  A handler may remove the server it runs
\* for; destroying the consumer from itself aborts.  A message that was never
\* parsed is freed memory: handling it may do anything.
irc_server_consumer_entry ==
    /\ ConsumerTurn
    /\ stored' = <<>>
    /\ owed' = (owed /\ (stored = <<>> \/ stored[1].kind # "lost"))
    /\ \/ proc' = "run"
       \/ stored # <<>> /\ proc' = "selfkill"
       \/ stored # <<>> /\ stored[1].kind = "stale" /\ proc' = "wild"
    /\ UNCHANGED <<alive, state, ai, rc, fd, inbuf, outbuf, io, tco, watch, tm, peer, dangling>>

ProducerTurn == Running /\ turn = "producer" /\ ~IoRunning /\ turn' = "poll"

HasTwoLines(b) == Len(b) > 1 /\ b[1].end
HasLine(b) == b # <<>> /\ b[1].end

\* conn_next: a line it does not parse leaves the caller's message as it was,
\* released by the consumer or never initialized.
conn_next(l) == IF l.kind = "bad" THEN [l EXCEPT !.kind = "stale"] ELSE l

\* One round of conn_producer_entry: the previous message was consumed.
conn_producer_entry ==
    /\ ProducerTurn
    /\ \/ /\ stored = <<>> /\ HasLine(inbuf)
          /\ stored' = <<conn_next(inbuf[1])>>
          /\ inbuf' = Tail(inbuf)
       \/ /\ stored # <<>> \/ ~HasLine(inbuf)
          /\ UNCHANGED <<stored, inbuf>>
    /\ UNCHANGED <<alive, state, ai, rc, fd, outbuf, io, tco, watch, tm, owed, envVars, dangling>>

-----------------------------------------------------------------------------
(* Plugins, rules, irccdctl: any other coroutine, between two of ours.     *)

\* irc_server_send: refused when the connection is not ready or the buffer is
\* full; otherwise the watcher is restarted on conn->fd, which libev asserts
\* is a descriptor.
irc__conn_push ==
    /\ Running /\ ~IoRunning
    /\ irc__conn_ready /\ Len(outbuf) < OutCap
    /\ outbuf' = Push(outbuf, "app")
    /\ IF fd = "none"
       THEN proc' = "negfd" /\ UNCHANGED watch
       ELSE watch' = nce_io_reset(watch, {"R", "W"}) /\ UNCHANGED proc
    /\ UNCHANGED <<alive, state, ai, rc, fd, inbuf, io, tco, stored, tm, peer, turn,
                   owed, dangling>>

\* irc_server_connect on a server that is not connected: irc__conn_spawn, with
\* a conn from calloc, enters conn_io_entry at once.
irc_server_connect ==
    /\ ~alive /\ proc = "run"
    /\ alive' = TRUE
    /\ state' = "RESOLVE" /\ io' = "resolve" /\ ai' = 0 /\ rc' = FALSE
    /\ fd' = "zero" /\ peer' = "none"
    /\ inbuf' = <<>> /\ outbuf' = <<>> /\ stored' = <<>>
    /\ watch' = [active |-> FALSE, events |-> {}, revents |-> {}, stale |-> FALSE]
    /\ tm' = [active |-> TRUE, repeat |-> TRUE, fired |-> FALSE]
    /\ tco' = "watch" /\ owed' = FALSE
    /\ UNCHANGED <<turn, proc, dangling>>

\* irc_server_disconnect: every coroutine is destroyed and conn is freed; the
\* watchers are not stopped.
irc_server_disconnect ==
    /\ Running /\ ~IoRunning
    /\ alive' = FALSE
    /\ io' = "none" /\ tco' = "none" /\ ai' = 0
    /\ fd' = "none" /\ peer' = "none"
    /\ stored' = <<>> /\ inbuf' = <<>> /\ outbuf' = <<>> /\ owed' = FALSE
    /\ dangling' = (dangling \/ watch.active \/ watch.stale \/ tm.active)
    /\ UNCHANGED <<state, rc, watch, tm, turn, proc>>

-----------------------------------------------------------------------------
(* The network and the clock, seen when libev polls.                       *)

Polling == Running /\ turn = "poll" /\ ~IoRunning

PeerMoves ==
    /\ Polling
    /\ \/ peer = "syn" /\ peer' \in {"up", "refused"}
       \/ peer = "up" /\ peer' = "closed"
    /\ UNCHANGED <<alive, state, ai, rc, fd, io, tco, watch, tm, turn, proc, bufVars, dangling>>

\* nce_io_cb: a dead connection is readable and writable.
IoEvent ==
    /\ Polling
    /\ watch.active /\ watch.revents = {} /\ fd = "sock" /\ peer # "syn"
    /\ \E ev \in SUBSET watch.events \ {{}} :
          /\ peer \in {"closed", "refused"} => ev = watch.events
          /\ watch' = [watch EXCEPT !.revents = ev]
    /\ UNCHANGED <<alive, state, ai, rc, fd, io, tco, tm, turn, bufVars, envVars, dangling>>

\* nce_timer_cb for the watchdog, and for the reconnection delay.
TimerFires ==
    /\ Polling /\ tm.active /\ ~tm.fired
    /\ tm' = [tm EXCEPT !.fired = TRUE, !.active = tm.repeat]
    /\ UNCHANGED <<alive, state, ai, rc, fd, io, tco, watch, turn, bufVars, envVars, dangling>>

WatchdogFires == tco = "watch" /\ TimerFires
DelayElapses  == tco = "delay" /\ TimerFires

\* The poll ends and the scheduler starts a pass.
PollEnds ==
    /\ Polling /\ turn' = "io"
    /\ UNCHANGED <<alive, state, ai, rc, fd, io, tco, watch, tm, bufVars, envVars, dangling>>

\* libev follows a watcher that was freed with its conn.
FreedWatcherUsed ==
    /\ proc = "run" /\ dangling /\ proc' = "wild"
    /\ UNCHANGED <<alive, state, ai, rc, fd, io, tco, watch, tm, peer, turn, bufVars, dangling>>

\* The process spins or has aborted.
Stopped == proc # "run" /\ UNCHANGED vars

-----------------------------------------------------------------------------
Init ==
    /\ alive = FALSE
    /\ state = "RESOLVE" /\ ai = 0 /\ rc = FALSE /\ fd = "none"
    /\ inbuf = <<>> /\ outbuf = <<>> /\ stored = <<>>
    /\ io = "none" /\ tco = "none"
    /\ watch = [active |-> FALSE, events |-> {}, revents |-> {}, stale |-> FALSE]
    /\ tm = [active |-> FALSE, repeat |-> FALSE, fired |-> FALSE]
    /\ peer = "none" /\ turn = "poll" /\ proc = "run"
    /\ owed = FALSE /\ dangling = FALSE

IoCoroutine ==
    conn_resolve \/ conn_connect \/ conn_dial \/ conn_ident \/ conn_ready
    \/ WaitSpins \/ IoYields

TimerCoroutine == conn_timer_resurrect \/ conn_io_spawn \/ TimerYields

Environment == PeerMoves \/ IoEvent \/ WatchdogFires \/ DelayElapses \/ PollEnds
    \/ FreedWatcherUsed

Users == irc__conn_push \/ irc_server_connect \/ irc_server_disconnect

Next ==
    \/ IoCoroutine \/ TimerCoroutine
    \/ irc_server_consumer_entry \/ conn_producer_entry
    \/ Users \/ Environment \/ Stopped

\* libev keeps polling and a pass resumes every coroutine; the delay, which
\* nothing rearms, elapses.  Nothing is assumed of the network, of the users
\* or of the watchdog.
Fairness ==
    /\ WF_vars(IoCoroutine) /\ WF_vars(TimerCoroutine)
    /\ WF_vars(irc_server_consumer_entry) /\ WF_vars(conn_producer_entry)
    /\ WF_vars(PollEnds) /\ SF_vars(DelayElapses)

Spec == Init /\ [][Next]_vars
FairSpec == Spec /\ Fairness
-----------------------------------------------------------------------------
(* Properties.                                                             *)

TypeOK ==
    /\ alive \in BOOLEAN /\ rc \in BOOLEAN /\ owed \in BOOLEAN /\ dangling \in BOOLEAN
    /\ state \in States /\ ai \in 0..NEndpoints
    /\ fd \in {"zero", "none", "sock"}
    /\ inbuf \in Seq(Line) /\ outbuf \in Seq(Output) /\ stored \in Seq(Line)
    /\ Len(outbuf) <= OutCap /\ Len(stored) <= 1
    /\ io \in IoPoints /\ tco \in {"none", "watch", "delay"}
    /\ watch \in Watch /\ tm \in Timer
    /\ peer \in {"none", "syn", "up", "refused", "closed"}
    /\ turn \in Turns /\ proc \in {"run"} \cup Faults

\* A coroutine suspended in nce_io_wait can be woken: its watcher is active, on
\* an open socket; for writing while connect(2) is in progress, for what the peer
\* sends and for its closing afterwards.  That it is also woken to go on writing is
\* not said: conn_wait forgets that after a wakeup for reading only (EventsAfter).
NoLostWakeup ==
    alive =>
        /\ io = "dialing" => watch.active /\ fd = "sock" /\ "W" \in watch.events
        /\ io \in {"ident", "ready"} => watch.active /\ fd = "sock" /\ "R" \in watch.events

\* An io_fd coroutine that gave up is always about to be replaced, and there is
\* never a second one: conn_reschedule's feed is not lost before the timer
\* coroutine sees it, and while there is no io_fd coroutine the delay runs.
ReaperArmed ==
    alive =>
        /\ io = "idle" => tm.fired
        /\ io = "none" => tm.active \/ tm.fired
        /\ tco = IF io = "none" THEN "delay" ELSE "watch"

Pipe == stored \o inbuf

\* Input keeps the order of the sessions through respawns: once a message has
\* bytes of the present session, everything behind it is of that session.
\* A loss found in conn_ready is handed over exactly once: its 000 waits in the
\* pipe until the consumer takes it; no later loss overwrites or repeats it.
InputOrdered ==
    LET losses == {i \in 1..Len(Pipe) : Pipe[i].kind = "lost"}
    IN  /\ \A i, j \in 1..Len(Pipe) :
              i < j /\ "cur" \in Pipe[i].from => Pipe[j].from = {"cur"}
        /\ owed <=> losses # {}
        /\ \A i, j \in losses : i = j

\* Output keeps the order of the sessions too, and what users push in a session
\* is behind the handshake of that session.
OutputOrdered ==
    \A i, j \in 1..Len(outbuf) :
        i < j /\ outbuf[i].from = "cur" =>
            /\ outbuf[j].from = "cur"
            /\ outbuf[i].kind = "app" => outbuf[j].kind = "app"

\* "A server should be reconnected permanently": whatever made io_fd give up, a
\* new attempt begins, unless the process stopped or the server was disconnected.
Retried == (io = "idle") ~> (io = "resolve" \/ ~alive \/ proc # "run")

\* Every loss found in conn_ready is handed to the consumer, which tells the
\* plugins (unless it is in the loop of a WHOIS: see module Server).
LossTold == owed ~> (~owed \/ ~alive \/ proc # "run")

\* What the server sees of its connection.
LinkOf ==
    IF proc # "run" THEN "dead"
    ELSE IF ~alive THEN "off"
    ELSE IF ~irc__conn_ready THEN "down"
    ELSE IF io \in {"ident", "ready"} THEN "up" ELSE "lost"

Abstract == INSTANCE Link WITH link <- LinkOf

\* The connection implements its abstract specification: it is up only after
\* being down, and passes through the delay before it is tried again.
ImplementsLink == Abstract!Spec

-----------------------------------------------------------------------------
(* What comments and assertions say that does not hold of the code; each is *)
(* the property of a run that ends in its counterexample.                   *)

\* conn.c, above conn_timer_entry: no activity on the socket, before or after
\* the identification, triggers the timer.
WatchdogArmed ==
    Running /\ io \in {"dialing", "ident", "ready"} => tm.active \/ tm.fired

\* conn.c, conn_tcp_send: a call that cannot send for now is accepted, so the
\* loop around send(2) ends.
SendReturns == proc # "spin"
=============================================================================
