-------------------------------- MODULE Peer --------------------------------
(***************************************************************************)
(* The control socket: transport.c and peer.c in the daemon, irccdctl and  *)
(* other programs that speak irccd-ipc(7) on the other side, and the hooks *)
(* of hook.c, during which the daemon waits for a process that may well    *)
(* be irccdctl.                                                            *)
(*                                                                         *)
(* In the daemon one coroutine runs at a time, from a resume to its next   *)
(* yield; `at' says which one is in the middle of that.  What goes through *)
(* the sockets is a sequence of items: a request, or the pieces of a text, *)
(* each line ended by "nl".  A command is abstracted to how it is answered.*)
(* Streams (nce/stream.c) are external: a stream is active while its       *)
(* watcher waits for some event, that is while `ev' is not empty.          *)
(***************************************************************************)
EXTENDS Naturals, Sequences, FiniteSets, FiniteSetsExt

CONSTANTS
    Ctl,        \* runs of irccdctl
    Others,     \* other clients, which send when they like
    Asked,      \* the requests of Others
    Nil,
    InCap,      \* in_cap of a peer
    OutCap,     \* out_cap of a peer
    SockCap,    \* what a socket holds
    CtlCap,     \* size of the buffer of irccdctl
    MaxReq,     \* bound: requests of one of Others
    MaxEvents   \* bound: events of IRC servers

ASSUME PeerAssumption ==
    /\ Ctl \cap Others = {} /\ Nil \notin Ctl \cup Others
    /\ InCap \in Nat /\ OutCap \in Nat /\ SockCap \in Nat /\ CtlCap \in Nat
    /\ InCap >= 1 /\ SockCap >= 2 /\ OutCap >= 5 /\ CtlCap >= 3
    /\ Asked \subseteq {"set", "send", "remove", "edit", "show", "load", "quit", "watch", "part"}
    /\ MaxReq \in Nat /\ MaxEvents \in Nat

Conns == Ctl \cup Others

VARIABLES
    daemon,     \* "up", "stopped" or "crashed"
    at,         \* the coroutine that runs and where it is, or Nil
    hook,       \* what irc_hook_invoke waits for: "other", a run of irccdctl or Nil
    peers,      \* the peers of the list
    peer,       \* struct peer of each connection
    fd,         \* the daemon's end of the socket
    up, down,   \* what the socket holds for the daemon and for the client
    client,     \* the process on the other side
    events,     \* events of servers so far
    result,     \* history: how the daemon ended the command irccdctl waits for
    filled      \* history: connections whose input was full once

daemonVars == <<daemon, at, hook, peers, peer, fd>>
vars == <<daemon, at, hook, peers, peer, fd, up, down, client, events, result, filled>>

-----------------------------------------------------------------------------
(* Streams and lines.                                                      *)

HasLine(s) == \E i \in DOMAIN s : s[i] = "nl"
LineLen(s) == Min({i \in DOMAIN s : s[i] = "nl"}) - 1
Line(s) == SubSeq(s, 1, LineLen(s))
AfterLine(s) == SubSeq(s, LineLen(s) + 2, Len(s))
Least(m, n) == Min({m, n})
Drop(s, n) == SubSeq(s, n + 1, Len(s))

\* nce_stream_io_set: read while there is room, write while there is output.
Needed(p) == (IF Len(p.in) < InCap THEN {"r"} ELSE {}) \cup (IF p.out # <<>> THEN {"w"} ELSE {})
Rearm(p) == IF p.ev = {} THEN p ELSE [p EXCEPT !.ev = Needed(p)]

nce_stream_push(p, s) == Rearm([p EXCEPT !.out = @ \o s])
nce_stream_drain(p) == Rearm([p EXCEPT !.in = AfterLine(@)])
Room(p, n) == p.co # "dead" /\ Len(p.out) + n <= OutCap

NoPeer == [co |-> "dead", ev |-> {}, in |-> <<>>, out |-> <<>>, watch |-> FALSE]

\* peer_push: the text, then its end; each is refused when there is no room.
peer_push(p, text) ==
    IF ~Room(p, Len(text)) THEN p
    ELSE LET q == nce_stream_push(p, text)
         IN  IF Room(q, 1) THEN nce_stream_push(q, <<"nl">>) ELSE q

-----------------------------------------------------------------------------
(* transport.c                                                             *)

\* peer_new: the coroutine runs at once, pushes its hello and waits to send it.
peer_new == [co |-> "hello", ev |-> {"r", "w"}, in |-> <<>>, out |-> <<"hello", "nl">>,
             watch |-> FALSE]

\* Mutant: a peer that has nothing to write is taken for a zombie.
ZombieIdle(p) == "w" \notin p.ev

Zombie(p) == p.ev = {}

\* peer_free of those with an inactive stream.  Its descriptor was closed when the
\* coroutine stopped it; nce_stream_stop does nothing for one that did not.
Reap(list, all, fds) ==
    LET dead == {c \in list : Zombie(all[c])}
    IN  /\ peers' = list \ dead
        /\ peer' = [c \in Conns |-> IF c \in dead THEN NoPeer ELSE all[c]]
        /\ fd' = [c \in Conns |-> IF c \in dead /\ all[c].co # "dead" THEN "leaked" ELSE fds[c]]

\* accept(2), which may fail, then the zombies.
transport_entry(c) ==
    /\ daemon = "up" /\ at = Nil /\ fd[c] = "backlog"
    /\ \/ Reap(peers, peer, fd)
       \/ Reap(peers \cup {c}, [peer EXCEPT ![c] = peer_new], [fd EXCEPT ![c] = "open"])
    /\ UNCHANGED <<daemon, at, hook, up, down, client, events, result, filled>>

\* Mutant: every peer is told.
BroadcastAll(all) ==
    [c \in Conns |-> IF c \in peers THEN peer_push(all[c], <<"event">>) ELSE all[c]]

transport_broadcast(all) ==
    [c \in Conns |-> IF c \in peers /\ all[c].watch THEN peer_push(all[c], <<"event">>) ELSE all[c]]

\* The end of the process: nce_sched_run destroys the coroutines, whose streams
\* are closed, transport_stop the rest; or a crash.
ProcessEnds(how) ==
    /\ daemon' = how /\ at' = Nil /\ hook' = Nil /\ peers' = {}
    /\ peer' = [c \in Conns |-> NoPeer]
    /\ fd' = [c \in Conns |-> IF fd[c] = "none" THEN "none" ELSE "closed"]
    /\ UNCHANGED <<up, down, client, events, result, filled>>

transport_stop == daemon = "up" /\ at = Nil /\ ProcessEnds("stopped")

-----------------------------------------------------------------------------
(* peer.c                                                                  *)

Ended == {"done", "refused", "died", "left"}
Gone(c) == client[c].pc \in Ended

Ready(c) ==
    (IF up[c] # <<>> \/ Gone(c) THEN {"r"} ELSE {})
        \cup (IF Len(down[c]) < SockCap \/ Gone(c) THEN {"w"} ELSE {})

\* Mutant: the coroutine returns and leaves its stream active.
StreamLeft(c) ==
    /\ peer' = [peer EXCEPT ![c].co = "dead"]
    /\ UNCHANGED <<at, fd, up, down, filled>>

\* The connection is over: nce_stream_stop closes the socket.
PeerEnds(c) ==
    /\ peer' = [peer EXCEPT ![c] = NoPeer]
    /\ fd' = [fd EXCEPT ![c] = "closed"]
    /\ UNCHANGED <<at, up, down, filled>>

\* nce_stream_wait returned: what there is was read and written.  The hello is
\* flushed first; only what is read after that is looked at.
Transferred(c, n, m) ==
    LET p == [peer[c] EXCEPT !.in = @ \o SubSeq(up[c], 1, n), !.out = Drop(@, m)]
        q == [p EXCEPT !.ev = Needed(p)]
    IN  /\ peer' = [peer EXCEPT ![c] = IF p.out = <<>> THEN [q EXCEPT !.co = "loop"] ELSE q]
        /\ at' = IF p.co = "loop" THEN [who |-> c, step |-> "lines"] ELSE Nil
        /\ up' = [up EXCEPT ![c] = Drop(@, n)]
        /\ down' = [down EXCEPT ![c] = @ \o SubSeq(peer[c].out, 1, m)]
        /\ filled' = IF Len(p.in) = InCap THEN filled \cup {c} ELSE filled
        /\ UNCHANGED fd

peer_stream_entry(c) ==
    /\ daemon = "up" /\ at = Nil /\ c \in peers /\ peer[c].co \in {"hello", "loop"}
    /\ peer[c].ev \cap Ready(c) # {}
    /\ LET r == "r" \in peer[c].ev \cap Ready(c)
           w == "w" \in peer[c].ev \cap Ready(c)
           n == IF r THEN Least(InCap - Len(peer[c].in), Len(up[c])) ELSE 0
           m == IF w THEN Least(Len(peer[c].out), SockCap - Len(down[c])) ELSE 0
       IN  IF (r /\ up[c] = <<>>) \/ (w /\ Gone(c)) THEN PeerEnds(c)
           ELSE Transferred(c, n, m)
    /\ UNCHANGED <<daemon, hook, peers, client, events, result>>

InLines(c) == daemon = "up" /\ at = [who |-> c, step |-> "lines"]
Received(c) == Line(peer[c].in)

\* The answers to a command, and the line is drained.
Answer(c, p, how) ==
    /\ peer' = [peer EXCEPT ![c] = nce_stream_drain(p)]
    /\ result' = IF c \in Ctl /\ ~Gone(c) THEN [result EXCEPT ![c] = how] ELSE result
    /\ UNCHANGED <<daemon, hook, peers, fd, up, down, client, events, filled>>

ok == <<"OK">>
error == <<"error">>

\* Mutant: the commands that do not find what they need go on to answer OK.
RefusedTwice(c) == Answer(c, peer_push(peer[c], ok), "no")

\* A wrong argument, a name or an index that does not exist or is taken.
Refused(c) == Answer(c, peer_push(peer[c], error), "no")

\* Commands answered by OK once they are carried out: HOOK-ADD, RULE-ADD,
\* RULE-MOVE, RULE-REMOVE, and PLUGIN-RELOAD where the plugin can.
invoke_set(c) ==
    /\ InLines(c) /\ Received(c) = <<"set">>
    /\ Answer(c, peer_push(peer[c], ok), "ok") \/ Refused(c)
    /\ UNCHANGED at

\* OK, whatever came of the command.
OkAnyhow(c) == \E how \in {"ok", "no"} : Answer(c, peer_push(peer[c], ok), how)

\* Commands to a server: the line may not be sent, SERVER-CONNECT may not connect.
invoke_send(c) ==
    /\ InLines(c) /\ Received(c) = <<"send">>
    /\ OkAnyhow(c) \/ Refused(c)
    /\ UNCHANGED at

\* HOOK-REMOVE and PLUGIN-UNLOAD of a name that does not exist change nothing; nor
\* does PLUGIN-CONFIG, PLUGIN-TEMPLATE or PLUGIN-RELOAD of a plugin that lacks the
\* function for it.
invoke_remove(c) ==
    /\ InLines(c) /\ Received(c) = <<"remove">>
    /\ OkAnyhow(c) \/ Refused(c)
    /\ UNCHANGED at

\* The changes before the argument that is refused are made.
cmd_rule_edit(c) ==
    /\ InLines(c) /\ Received(c) = <<"edit">>
    /\ \/ Answer(c, peer_push(peer[c], ok), "ok")
       \/ Answer(c, peer_push(peer[c], error), "partly")
       \/ Refused(c)
    /\ UNCHANGED at

\* Commands answered by a list; plugin_list_set leaves an empty line behind it.
invoke_show(c) ==
    /\ InLines(c) /\ Received(c) = <<"show">>
    /\ \/ \E text \in {<<"OK", "nl", "item">>, <<"OK", "nl", "item", "nl">>} :
            Answer(c, peer_push(peer[c], text), "ok")
       \/ Refused(c)
    /\ UNCHANGED at

\* The result of irc_bot_plugin_add is ignored, and a plugin that was not found is
\* answered twice.
cmd_plugin_load(c) ==
    /\ InLines(c) /\ Received(c) = <<"load">>
    /\ \/ OkAnyhow(c)
       \/ Answer(c, peer_push(peer_push(peer[c], error), ok), "no")
    /\ UNCHANGED at

cmd_watch(c) ==
    /\ InLines(c) /\ Received(c) = <<"watch">>
    /\ Answer(c, peer_push([peer[c] EXCEPT !.watch = TRUE], ok), "ok")
    /\ UNCHANGED at

\* Commands that dispatch an event before they answer: SERVER-DISCONNECT, or
\* PLUGIN-UNLOAD of a plugin that removes servers.
invoke_dispatch(c) ==
    \/ /\ InLines(c) /\ Received(c) = <<"quit">>
       /\ at' = [who |-> c, step |-> "dispatch"]
       /\ UNCHANGED <<daemon, hook, peers, peer, fd, up, down, client, events, result, filled>>
    \/ /\ daemon = "up" /\ at = [who |-> c, step |-> "answer"]
       /\ at' = [who |-> c, step |-> "lines"]
       /\ Answer(c, peer_push(peer[c], ok), "ok")

\* SERVER-PART and SERVER-KICK without a reason read through NULL.
invoke_part(c) == InLines(c) /\ Received(c) = <<"part">> /\ ProcessEnds("crashed")

\* An empty line is skipped; without a line the coroutine waits again.
peer_lines_end(c) ==
    /\ InLines(c)
    /\ \/ /\ HasLine(peer[c].in) /\ Received(c) = <<>>
          /\ peer' = [peer EXCEPT ![c] = nce_stream_drain(@)]
          /\ UNCHANGED at
       \/ ~HasLine(peer[c].in) /\ at' = Nil /\ UNCHANGED peer
    /\ UNCHANGED <<daemon, hook, peers, fd, up, down, client, events, result, filled>>

peer_lines(c) ==
    \/ HasLine(peer[c].in) /\ (\/ invoke_set(c) \/ invoke_send(c) \/ invoke_remove(c) \/ cmd_rule_edit(c)
                               \/ invoke_show(c) \/ cmd_plugin_load(c) \/ cmd_watch(c)
                               \/ invoke_part(c))
    \/ (HasLine(peer[c].in) /\ invoke_dispatch(c))
    \/ peer_lines_end(c)

-----------------------------------------------------------------------------
(* irc_bot_dispatch: hooks, plugins (module Bot), then the observer.       *)

Dispatching(step) == daemon = "up" /\ at # Nil /\ at.step = step
Goto(step) == at' = [at EXCEPT !.step = step]

\* An event of a server, from its consumer coroutine.
server_event ==
    /\ daemon = "up" /\ at = Nil /\ events < MaxEvents
    /\ at' = [who |-> Nil, step |-> "dispatch"] /\ events' = events + 1
    /\ UNCHANGED <<daemon, hook, peers, peer, fd, up, down, client, result, filled>>

\* fork(2), then waitpid(2) until the hook has ended.
irc_hook_invoke ==
    /\ \/ Dispatching("dispatch") /\ Goto("observe") /\ UNCHANGED hook
       \/ /\ Dispatching("dispatch") /\ Goto("hook")
          /\ hook' \in {"other"} \cup {c \in Ctl : client[c].pc = "off"}
       \/ /\ Dispatching("hook") /\ (hook = "other" \/ (hook \in Ctl /\ Gone(hook)))
          /\ hook' = Nil /\ Goto("observe")
    /\ UNCHANGED <<daemon, peers, peer, fd, up, down, client, events, result, filled>>

\* irc_event_str has no text for some events.
broadcaster ==
    /\ Dispatching("observe")
    /\ peer' = transport_broadcast(peer) \/ UNCHANGED peer
    /\ at' = IF at.who = Nil THEN Nil ELSE [at EXCEPT !.step = "answer"]
    /\ UNCHANGED <<daemon, hook, peers, fd, up, down, client, events, result, filled>>

-----------------------------------------------------------------------------
(* irccdctl                                                                *)

CtlRequests == {"set", "send", "remove", "edit", "show", "load", "quit", "watch"}

\* Between two yields the daemon touches no socket, so it is enough to let the
\* clients run while it is in poll(2) or waits for a hook.
Waits == ~(at # Nil /\ at.step # "hook")

connect(c) ==
    /\ client[c].pc = "off" /\ Waits
    /\ fd' = [fd EXCEPT ![c] = "backlog"]
    /\ UNCHANGED <<daemon, at, hook, peers, peer, up, down, events, result, filled>>

dial(c) ==
    /\ \/ daemon = "up" /\ connect(c) /\ client' = [client EXCEPT ![c].pc = "hello"]
       \/ /\ daemon # "up" /\ client[c].pc = "off" /\ Waits
          /\ client' = [client EXCEPT ![c].pc = "died"]
          /\ UNCHANGED <<daemonVars, up, down, events, result, filled>>

\* The process ends and its socket with it.
Ends(c, how) ==
    /\ Waits
    /\ client' = [client EXCEPT ![c] = [@ EXCEPT !.pc = how, !.req = "none", !.in = <<>>, !.sent = 0]]
    /\ down' = [down EXCEPT ![c] = <<>>]
    /\ result' = IF c \in Ctl THEN [result EXCEPT ![c] = "none"] ELSE result
    /\ UNCHANGED <<daemonVars, up, events, filled>>

Waiting(c) == c \in Ctl /\ Waits /\ client[c].pc \in {"hello", "reply", "items", "watch"}
Polling(c) == Waiting(c) /\ ~HasLine(client[c].in)

\* poll: recv(2), which may find nothing left, too much, or a closed socket.
ctl_poll(c) ==
    /\ Polling(c)
    /\ \/ /\ down[c] # <<>>
          /\ LET n == Least(Len(down[c]), CtlCap - 1)
             IN  IF Len(client[c].in) + n >= CtlCap THEN Ends(c, "died")
                 ELSE /\ client' = [client EXCEPT ![c].in = @ \o SubSeq(down[c], 1, n)]
                      /\ down' = [down EXCEPT ![c] = Drop(@, n)]
                      /\ UNCHANGED <<daemonVars, up, events, result, filled>>
       \/ down[c] = <<>> /\ fd[c] = "closed" /\ Ends(c, "died")

\* Mutant: SO_RCVTIMEO is set when the daemon has answered only.
TimeoutLate(c) ==
    /\ Polling(c) /\ client[c].pc = "items" /\ down[c] = <<>>
    /\ Ends(c, "died")

\* SO_RCVTIMEO of 30 seconds, which watch turns off.
ctl_timeout(c) ==
    /\ Polling(c) /\ client[c].pc # "watch" /\ down[c] = <<>>
    /\ Ends(c, "died")

Consumed(c, pc) ==
    /\ client' = [client EXCEPT ![c].in = AfterLine(@), ![c].pc = pc]
    /\ UNCHANGED <<daemonVars, up, down, events, result, filled>>

\* check, then req: the request goes out once the hello was read.
ctl_request(c) ==
    /\ Waiting(c) /\ HasLine(client[c].in) /\ client[c].pc = "hello"
    /\ IF Line(client[c].in) # <<"hello">> \/ fd[c] = "closed" THEN Ends(c, "died")
       ELSE \E k \in CtlRequests :
              /\ up' = [up EXCEPT ![c] = @ \o <<k, "nl">>]
              /\ client' = [client EXCEPT ![c].in = AfterLine(@), ![c].pc = "reply", ![c].req = k]
              /\ UNCHANGED <<daemonVars, down, events, result, filled>>

\* ok and response_list.
ctl_response(c) ==
    /\ Waiting(c) /\ HasLine(client[c].in) /\ client[c].pc = "reply"
    /\ \/ Line(client[c].in) # ok /\ Ends(c, "refused")
       \/ /\ Line(client[c].in) = ok
          /\ \/ client[c].req = "show" /\ Consumed(c, "items")
             \/ client[c].req = "watch" /\ Consumed(c, "watch")
             \/ client[c].req \notin {"show", "watch"} /\ Ends(c, "done")

\* The lines of a list.
ctl_items(c) ==
    /\ Waiting(c) /\ HasLine(client[c].in) /\ client[c].pc = "items"
    /\ Ends(c, "done")

\* The events, until the user has enough of them.
ctl_event(c) ==
    /\ Waiting(c) /\ HasLine(client[c].in) /\ client[c].pc = "watch"
    /\ Consumed(c, "watch")
ctl_interrupted(c) == Waiting(c) /\ client[c].pc = "watch" /\ Ends(c, "died")

-----------------------------------------------------------------------------
(* Other clients.                                                          *)

other_connect(c) == daemon = "up" /\ connect(c) /\ client' = [client EXCEPT ![c].pc = "open"]

other_send(c) ==
    /\ client[c].pc = "open" /\ Waits /\ client[c].sent < MaxReq /\ fd[c] # "closed"
    /\ \E s \in {<<k, "nl">> : k \in Asked} \cup {<<"nl">>} :
         /\ Len(up[c]) + Len(s) <= SockCap
         /\ up' = [up EXCEPT ![c] = @ \o s]
    /\ client' = [client EXCEPT ![c].sent = @ + 1]
    /\ UNCHANGED <<daemonVars, down, events, result, filled>>

other_read(c) ==
    /\ client[c].pc = "open" /\ Waits /\ down[c] # <<>>
    /\ down' = [down EXCEPT ![c] = <<>>]
    /\ UNCHANGED <<daemonVars, up, client, events, result, filled>>

other_leave(c) == client[c].pc = "open" /\ Ends(c, "left")

-----------------------------------------------------------------------------
Init ==
    /\ daemon = "up" /\ at = Nil /\ hook = Nil /\ peers = {}
    /\ peer = [c \in Conns |-> NoPeer] /\ fd = [c \in Conns |-> "none"]
    /\ up = [c \in Conns |-> <<>>] /\ down = [c \in Conns |-> <<>>]
    /\ client = [c \in Conns |-> [pc |-> "off", req |-> "none", in |-> <<>>, sent |-> 0]]
    /\ events = 0 /\ result = [c \in Ctl |-> "none"] /\ filled = {}

CtlRuns(c) == ctl_poll(c) \/ ctl_timeout(c) \/ ctl_request(c) \/ ctl_response(c)
              \/ ctl_items(c) \/ ctl_event(c)
Daemon ==
    \/ \E c \in Conns : peer_lines(c)
    \/ irc_hook_invoke \/ broadcaster

Next ==
    \/ Daemon \/ server_event \/ transport_stop
    \/ \E c \in Conns : transport_entry(c) \/ peer_stream_entry(c)
    \/ \E c \in Ctl : dial(c) \/ CtlRuns(c) \/ ctl_interrupted(c)
    \/ \E c \in Others : other_connect(c) \/ other_send(c) \/ other_read(c) \/ other_leave(c)

\* Coroutines and processes go on when they can; a hook runs what it is for.  Users,
\* servers, other clients and signals promise nothing.
Fairness ==
    /\ WF_vars(Daemon)
    /\ \A c \in Conns : WF_vars(peer_stream_entry(c))
    /\ \A c \in Ctl : WF_vars(CtlRuns(c)) /\ WF_vars(hook = c /\ dial(c))

Spec == Init /\ [][Next]_vars /\ Fairness

-----------------------------------------------------------------------------
(* Properties.                                                             *)

Items == CtlRequests \cup {"part", "hello", "OK", "error", "item", "event", "nl"}
TypeOK ==
    /\ daemon \in {"up", "stopped", "crashed"}
    /\ at \in {Nil} \cup [who : Conns \cup {Nil},
                          step : {"lines", "dispatch", "hook", "observe", "answer"}]
    /\ hook \in Ctl \cup {Nil, "other"}
    /\ peers \subseteq Conns
    /\ \A c \in Conns :
         /\ peer[c].co \in {"hello", "loop", "dead"} /\ peer[c].ev \subseteq {"r", "w"}
         /\ peer[c].in \in Seq(Items) /\ Len(peer[c].in) <= InCap
         /\ peer[c].out \in Seq(Items) /\ Len(peer[c].out) <= OutCap
         /\ up[c] \in Seq(Items) /\ down[c] \in Seq(Items) /\ Len(down[c]) <= SockCap
         /\ fd[c] \in {"none", "backlog", "open", "closed", "leaked"}
         /\ client[c].in \in Seq(Items)
    /\ result \in [Ctl -> {"none", "ok", "partly", "no"}]
    /\ filled \subseteq Conns

\* Requests whose OK does not say that anything was done: peer.c ignores what
\* irc_bot_plugin_add and the server return, and whether there was a hook or a
\* plugin to remove.
Unheeded == {"load", "send", "remove"}

\* irccdctl tells the truth: when it ends well its command was carried out, the
\* Unheeded ones aside, and when it shows a refusal it was not, whatever other
\* clients, events, hooks and the end of the daemon do meanwhile; but RULE-EDIT
\* makes the changes before the one it refuses.
CtlTruthful ==
    [][\A c \in Ctl : ~Gone(c) =>
         /\ client'[c].pc = "done" /\ client[c].req \notin Unheeded => result[c] = "ok"
         /\ client'[c].pc = "refused" /\ client[c].req # "edit" => result[c] = "no"]_vars

\* What irccdctl reads first is the hello, and what it reads after its request is
\* the answer: no event, and no rest of something else, comes in between.
AnswerFirst ==
    \A c \in Ctl : LET s == client[c].in \o down[c] \o peer[c].out IN
        /\ client[c].pc = "hello" /\ s # <<>> => s[1] = "hello"
        /\ client[c].pc = "reply" /\ s # <<>> => s[1] \in {"OK", "error"}

\* Every descriptor of the daemon belongs to a listed peer whose coroutine still
\* serves it; one is lost only when the input of the peer was full once.
DescriptorsOwned ==
    \A c \in Conns :
        /\ fd[c] = "open" => c \in peers /\ peer[c].co # "dead"
        /\ fd[c] = "leaked" => c \in filled

\* The daemon does not wait for ever for a hook that runs irccdctl, although
\* irccdctl waits for the daemon.
HookReturns == (at # Nil /\ at.step = "hook") ~> (at = Nil \/ at.step # "hook")

\* The daemon closes the socket of a client that has left, unless its input was
\* full once.
LeaversNoticed ==
    \A c \in Conns : (fd[c] = "open" /\ Gone(c)) ~> (fd[c] # "open" \/ c \in filled)

=============================================================================
