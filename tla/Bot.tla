-------------------------------- MODULE Bot --------------------------------
(***************************************************************************)
(* The bot (lib/irccd/irccd.c): its lists of plugins and servers, the      *)
(* dispatch of events to plugins, and what the plugins may do meanwhile.   *)
(*                                                                         *)
(* One thread runs everything; what makes it hard is reentrancy.  `stack'  *)
(* is the call stack: the loops of irccd.c with their saved pointers, and  *)
(* "js" frames, in which JavaScript of a plugin runs and may call Irccd.   *)
(* Plugin and Irccd.Server, which dispatch, unload and free in their turn. *)
(* A dispatch comes from the consumer coroutine of a server or from        *)
(* irc_bot_server_remove.  Each step is what happens between two calls of  *)
(* plugin code.  A use of freed memory, a NULL dereference or an abort     *)
(* sets `fault' and ends the process.                                      *)
(*                                                                         *)
(* Rules are the module Rule; here they let an event through or not.       *)
(* Hooks run before the plugins and cannot call back.                      *)
(***************************************************************************)
EXTENDS Naturals, Sequences, SequencesExt, FiniteSets

CONSTANTS
    Plugs,      \* plugins: struct irc_plugin and its JavaScript context
    Srvs,       \* struct irc_server
    NameOf,     \* the names of plugins and servers
    Calls,      \* for each kind of message, the plugin names its command begins with
    Nil,        \* NULL
    MaxDepth,   \* bound: frames below the script that runs
    MaxHandles, \* bound: Irccd.Server objects plugins keep
    MaxRefs     \* bound: references of a server that a plugin adds

ASSUME BotAssumption ==
    /\ Nil \notin Plugs \cup Srvs
    /\ Plugs \cup Srvs \subseteq DOMAIN NameOf
    /\ MaxDepth \in Nat /\ MaxHandles \in Nat /\ MaxRefs \in Nat

VARIABLES
    stack, fault,
    plugins,    \* bot.plugins
    life,       \* state of each plugin
    servers,    \* bot.servers
    link,       \* s->next of a server that is no longer in the list
    conn,       \* servers with a connection: s->coroutine # NULL
    refc,       \* s->refc
    alive,      \* servers allocated and not freed
    handles,    \* Irccd.Server objects each plugin keeps
    dropped,    \* history: servers added while irc_bot_server_clear runs and lost by it
    twice       \* history: servers removed while they were being removed

plugVars == <<plugins, life>>
srvVars == <<servers, link, conn, refc, alive, handles, dropped, twice>>
vars == <<stack, fault, plugins, life, servers, link, conn, refc, alive, handles, dropped, twice>>

-----------------------------------------------------------------------------
(* Lists and frames.                                                       *)

Listed(list) == {list[i] : i \in DOMAIN list}

Place(list, x) == CHOOSE k \in DOMAIN list : list[k] = x

\* x->next, for x in the list.
Successor(list, x) == IF Place(list, x) < Len(list) THEN list[Place(list, x) + 1] ELSE Nil
LL_DELETE(list, x) == IF x \in Listed(list) THEN RemoveAt(list, Place(list, x)) ELSE list
HeadOf(list) == IF list = <<>> THEN Nil ELSE list[1]
NextServer(s) == IF s \in Listed(servers) THEN Successor(servers, s) ELSE link[s]

\* irc_bot_plugin_get and irc_bot_server_get.
Get(list, name) ==
    IF \E x \in Listed(list) : NameOf[x] = name
    THEN CHOOSE x \in Listed(list) : NameOf[x] = name ELSE Nil

\* The server whose consumer coroutine runs the stack, if one does.
co == IF stack # <<>> /\ stack[1].fn = "dispatch" THEN stack[1].s ELSE Nil

Idle == stack = <<>> /\ fault = "none"
Top == Last(stack)
Running(fn) == stack # <<>> /\ fault = "none" /\ Top.fn = fn
Room(n) == Len(stack) + n <= MaxDepth
Return == stack' = Front(stack)
Call(frames) == stack' = stack \o frames
Over(frame) == Front(stack) \o <<frame>>     \* the calling frame goes on as `frame'
Goto(frame) == stack' = Over(frame)
Crash(why) == fault' = why /\ stack' = <<>> /\ UNCHANGED <<plugVars, srvVars>>

Js(p, s) == [fn |-> "js", p |-> p, s |-> s]

DispatchFrame(type, s, calls) ==
    [fn |-> "dispatch", type |-> type, s |-> s, calls |-> calls,
     p |-> HeadOf(plugins), cmd |-> Nil, step |-> "plugins",
     stayed |-> Listed(plugins), seen |-> [p \in Plugs |-> 0]]

Seen(f, p) == [f.seen EXCEPT ![p] = IF @ < 2 THEN @ + 1 ELSE @]

-----------------------------------------------------------------------------
(* References to servers.                                                  *)

Incref(s) == refc' = [refc EXCEPT ![s] = @ + 1]

\* irc_server_decref; the last one frees the server, which disconnects it.
Decref(s) ==
    /\ refc' = [refc EXCEPT ![s] = @ - 1]
    /\ alive' = IF refc[s] = 1 THEN alive \ {s} ELSE alive
    /\ conn'  = IF refc[s] = 1 THEN conn \ {s} ELSE conn

\* The assertion of irc_server_decref, and the coroutine that would destroy itself.
DecrefFails(s) == s \notin alive \/ refc[s] = 0 \/ (refc[s] = 1 /\ s \in conn /\ s = co)

\* The same for an Irccd.Server object.  A server freed while it is in the list is
\* a fault at once, though the list is read only later.
FinalizeFails(s) == DecrefFails(s) \/ (refc[s] = 1 /\ s \in Listed(servers))

-----------------------------------------------------------------------------
(* irc_bot_dispatch                                                        *)

Messages == {"message"} \X Calls
OtherEvents == {<<"event", {}>>}

is_command(p, f) == f.type = "message" /\ NameOf[p] \in f.calls

\* A message or event the consumer of s handles.
irc_server_consumer_entry(s, ev) ==
    /\ Idle /\ s \in conn /\ s \in alive
    /\ Call(<<DispatchFrame(ev[1], s, ev[2])>>)
    /\ UNCHANGED <<fault, plugVars, srvVars>>

\* Mutant: Irccd.Server objects given to handlers hold no reference.
HandleUncounted(p, f) ==
    /\ stack' = Over(f) \o <<Js(p, f.s)>>
    /\ UNCHANGED <<fault, plugVars, srvVars>>

\* irc_plugin_handle: the Irccd.Server given to the handler holds a reference.
Handle(p, f) ==
    /\ stack' = Over(f) \o <<Js(p, f.s)>>
    /\ Incref(f.s)
    /\ UNCHANGED <<fault, plugVars, servers, link, conn, alive, handles, dropped, twice>>

Skip(f) == Goto(f) /\ UNCHANGED <<fault, plugVars, srvVars>>

\* Mutant: the plugin whose command it is hears of it in the loop too.
DeferTwice(p, f) ==
    Handle(p, [f EXCEPT !.p = Successor(plugins, p), !.cmd = p, !.seen = Seen(f, p)])

\* The plugin whose command it is waits for the others.
Defer(p, f) == Skip([f EXCEPT !.p = Successor(plugins, p), !.cmd = p])

\* One turn of LL_FOREACH_SAFE: the next plugin is saved before the handler runs.
dispatch_plugins ==
    /\ Running("dispatch") /\ Top.step = "plugins"
    /\ LET f == Top
           p == f.p
           g == [f EXCEPT !.p = Successor(plugins, p), !.seen = Seen(f, p)]
       IN  \/ /\ p = Nil /\ Skip([f EXCEPT !.step = "command"])
           \/ /\ p # Nil /\ (p \notin Listed(plugins) \/ f.s \notin alive)
              /\ Crash("freed")
           \/ /\ p \in Listed(plugins) /\ f.s \in alive /\ is_command(p, f)
              /\ Defer(p, f)
           \/ /\ p \in Listed(plugins) /\ f.s \in alive /\ ~is_command(p, f)
              /\ Skip(g) \/ Handle(p, g)

dispatch_command ==
    /\ Running("dispatch") /\ Top.step = "command"
    /\ LET f == [Top EXCEPT !.step = "observe"]
           g == [f EXCEPT !.seen = Seen(f, f.cmd)]
       IN  \/ f.cmd = Nil /\ Skip(f)
           \/ /\ f.cmd # Nil /\ (f.cmd \notin Listed(plugins) \/ f.s \notin alive)
              /\ Crash("freed")
           \/ /\ f.cmd \in Listed(plugins) /\ f.s \in alive
              /\ Skip(g) \/ Handle(f.cmd, g)

\* irccd->observer reads the name of the server.
dispatch_observe ==
    /\ Running("dispatch") /\ Top.step = "observe"
    /\ \/ Top.s \notin alive /\ Crash("freed")
       \/ Top.s \in alive /\ Return /\ UNCHANGED <<fault, plugVars, srvVars>>

-----------------------------------------------------------------------------
(* Servers.                                                                *)

\* irc_bot_server_add of a server with that many references.
Connected(s, refs) ==
    /\ servers' = Append(servers, s)
    /\ link' = [link EXCEPT ![s] = Nil]
    /\ conn' = conn \cup {s}
    /\ refc' = [refc EXCEPT ![s] = refs + 1]

irc_bot_server_add(s) ==
    IF Get(servers, NameOf[s]) # Nil THEN UNCHANGED <<servers, link, conn, refc>>
    ELSE Connected(s, refc[s])

\* irc_server_disconnect in irc_bot_server_remove, then the event.
Removing(s) == [fn |-> "server_remove", s |-> s]

\* Mutant: the server is not disconnected.
RemoveConnected(s, below) ==
    /\ stack' = below \o <<Removing(s), DispatchFrame("event", s, {})>>
    /\ UNCHANGED <<fault, plugVars, srvVars>>

irc_bot_server_remove(s, below) ==
    IF s = co /\ s \in conn THEN Crash("active coroutine")
    ELSE /\ stack' = below \o <<Removing(s), DispatchFrame("event", s, {})>>
         /\ conn' = conn \ {s}
         /\ twice' = IF \E i \in DOMAIN stack : stack[i] = Removing(s)
                     THEN twice \cup {s} ELSE twice
         /\ UNCHANGED <<fault, plugVars, servers, link, refc, alive, handles, dropped>>

\* LL_DELETE and irc_server_decref, after the dispatch.
server_remove_end ==
    /\ Running("server_remove")
    /\ LET s == Top.s
       IN  IF servers = <<>> \/ DecrefFails(s) THEN Crash("freed")
           ELSE /\ Return
                /\ servers' = LL_DELETE(servers, s)
                /\ link' = [link EXCEPT ![s] = IF refc[s] = 1 THEN Nil ELSE NextServer(s)]
                /\ Decref(s)
                /\ UNCHANGED <<fault, plugVars, handles, dropped, twice>>

\* One turn of irc_bot_server_clear; at its end bot.servers = NULL.
Clearing(s) == [fn |-> "server_clear", s |-> s]
irc_bot_server_clear ==
    /\ Running("server_clear")
    /\ LET s == Top.s
       IN  \/ /\ s = Nil
              /\ Return
              /\ servers' = <<>>
              /\ link' = [x \in Srvs |-> NextServer(x)]
              /\ dropped' = dropped \cup Listed(servers)
              /\ UNCHANGED <<fault, plugVars, conn, refc, alive, handles, twice>>
           \/ s # Nil /\ s \notin alive /\ Crash("freed")
           \/ /\ s # Nil /\ s \in alive
              /\ LET r == Get(servers, NameOf[s])
                 IN  IF r = Nil THEN Skip(Clearing(NextServer(s)))
                     ELSE Room(2) /\ irc_bot_server_remove(r, Over(Clearing(NextServer(s))))

-----------------------------------------------------------------------------
(* Plugins.                                                                *)

Leave(p, frames) ==
    [i \in DOMAIN frames |->
        IF frames[i].fn = "dispatch" THEN [frames[i] EXCEPT !.stayed = @ \ {p}] ELSE frames[i]]

\* Mutant: the plugin leaves the list after onUnload.
RemoveUnloaded(p, below) ==
    /\ life' = [life EXCEPT ![p] = "unloading"]
    /\ stack' = Leave(p, below) \o <<[fn |-> "plugin_remove", p |-> p], Js(p, Nil)>>
    /\ UNCHANGED <<fault, plugins, srvVars>>

\* LL_DELETE, then onUnload.
irc_bot_plugin_remove(p, below) ==
    /\ plugins' = LL_DELETE(plugins, p)
    /\ life' = [life EXCEPT ![p] = "unloading"]
    /\ stack' = Leave(p, below) \o <<[fn |-> "plugin_remove", p |-> p], Js(p, Nil)>>
    /\ UNCHANGED <<fault, srvVars>>

\* irc_plugin_finish destroys the JavaScript heap: the Irccd.Server objects of
\* the plugin are finalized, and code of it that is running is freed.
FinishFails(p) ==
    \/ \E i \in DOMAIN stack : stack[i].fn = "js" /\ stack[i].p = p
    \/ \E s \in handles[p] : FinalizeFails(s)

HeapDestroyed(p) ==
    LET last == {s \in handles[p] : refc[s] = 1}
    IN  /\ refc' = [s \in Srvs |-> IF s \in handles[p] THEN refc[s] - 1 ELSE refc[s]]
        /\ alive' = alive \ last /\ conn' = conn \ last
        /\ handles' = [handles EXCEPT ![p] = {}]
        /\ life' = [life EXCEPT ![p] = "closed"]
        /\ UNCHANGED <<fault, plugins, servers, link, dropped, twice>>
plugin_remove_end ==
    /\ Running("plugin_remove")
    /\ IF FinishFails(Top.p) THEN Crash("freed") ELSE Return /\ HeapDestroyed(Top.p)

Unloading(p) == [fn |-> "plugin_clear", p |-> p]

\* Mutant: the loop ends at the last plugin.
ClearButLast ==
    /\ Running("plugin_clear")
    /\ LET p == Top.p
       IN  IF p \notin Listed(plugins) \/ Successor(plugins, p) = Nil
           THEN Return /\ UNCHANGED <<fault, plugVars, srvVars>>
           ELSE Room(2) /\ irc_bot_plugin_remove(p, Over(Unloading(Successor(plugins, p))))

\* One turn of irc_bot_plugin_clear.
irc_bot_plugin_clear ==
    /\ Running("plugin_clear")
    /\ LET p == Top.p
       IN  \/ p = Nil /\ Return /\ plugins' = <<>> /\ UNCHANGED <<fault, life, srvVars>>
           \/ p # Nil /\ p \notin Listed(plugins) /\ Crash("freed")
           \/ /\ p \in Listed(plugins) /\ Room(2)
              /\ irc_bot_plugin_remove(p, Over(Unloading(Successor(plugins, p))))

\* One turn of PLUGIN-RELOAD for all plugins, a loop that reads the next plugin
\* after the handler.
Reloading(p) == [fn |-> "reload", p |-> p]
cmd_plugin_reload ==
    /\ Running("reload")
    /\ LET p == Top.p
       IN  \/ p = Nil /\ Return /\ UNCHANGED <<fault, plugVars, srvVars>>
           \/ p # Nil /\ p \notin Listed(plugins) /\ Crash("freed")
           \/ p \in Listed(plugins) /\ Successor(plugins, p) = Nil /\ Skip(Reloading(Nil))
           \/ /\ p \in Listed(plugins) /\ Successor(plugins, p) # Nil
              /\ stack' = Over(Reloading(Successor(plugins, p))) \o <<Js(Successor(plugins, p), Nil)>>
              /\ UNCHANGED <<fault, plugVars, srvVars>>

\* irc_bot_plugin_search ran the script, and destroyed the heap if it failed.
script_fails ==
    /\ Running("plugin_add") /\ Top.step = "script"
    /\ IF FinishFails(Top.p) THEN Crash("freed") ELSE Return /\ HeapDestroyed(Top.p)

\* irc_bot_plugin_add looks for the name and calls onLoad, which may fail.  A
\* plugin that is not added is leaked.
irc_bot_plugin_add ==
    /\ Running("plugin_add")
    /\ LET p == Top.p
       IN  \/ /\ Top.step = "script" /\ Get(plugins, NameOf[p]) # Nil
              /\ Return /\ life' = [life EXCEPT ![p] = "leaked"] /\ UNCHANGED plugins
           \/ /\ Top.step = "script" /\ Get(plugins, NameOf[p]) = Nil /\ Room(1)
              /\ stack' = Over([Top EXCEPT !.step = "load"]) \o <<Js(p, Nil)>>
              /\ UNCHANGED <<plugins, life>>
           \/ /\ Top.step = "load"
              /\ Return
              /\ \/ plugins' = <<p>> \o plugins /\ life' = [life EXCEPT ![p] = "loaded"]
                 \/ life' = [life EXCEPT ![p] = "leaked"] /\ UNCHANGED plugins
    /\ UNCHANGED <<fault, srvVars>>

-----------------------------------------------------------------------------
(* What the JavaScript of a plugin may do.                                 *)

Script == Running("js")
Handles == {h \in Plugs \X Srvs : h[2] \in handles[h[1]]}

\* A freed server is allocated again once nothing refers to it.
Fresh(s) ==
    /\ s \notin alive /\ s \notin Listed(servers)
    /\ \A p \in Plugs : s \notin handles[p]
    /\ \A i \in DOMAIN stack : "s" \in DOMAIN stack[i] => stack[i].s # s

Server_constructor(s) ==
    /\ Script /\ Fresh(s) /\ Cardinality(Handles) < MaxHandles
    /\ alive' = alive \cup {s}
    /\ refc' = [refc EXCEPT ![s] = 1]
    /\ link' = [link EXCEPT ![s] = Nil]
    /\ handles' = [handles EXCEPT ![Top.p] = @ \cup {s}]
    /\ dropped' = dropped \ {s} /\ twice' = twice \ {s}
    /\ UNCHANGED <<stack, fault, plugVars, servers, conn>>

Server_add(s) ==
    /\ Script /\ s \in handles[Top.p]
    /\ refc[s] < MaxRefs \/ Get(servers, NameOf[s]) # Nil
    /\ \/ s \notin alive /\ Crash("freed")
       \/ /\ s \in alive /\ irc_bot_server_add(s)
          /\ UNCHANGED <<stack, fault, plugVars, alive, handles, dropped, twice>>

Server_find(s) ==
    /\ Script /\ s \in Listed(servers) /\ s \notin handles[Top.p] /\ Cardinality(Handles) < MaxHandles
    /\ Incref(s)
    /\ handles' = [handles EXCEPT ![Top.p] = @ \cup {s}]
    /\ UNCHANGED <<stack, fault, plugVars, servers, link, conn, alive, dropped, twice>>

\* The garbage collector finalizes an Irccd.Server object.
Server_destructor(s) ==
    /\ Script /\ s \in handles[Top.p]
    /\ \/ FinalizeFails(s) /\ Crash("freed")
       \/ /\ ~FinalizeFails(s) /\ Decref(s)
          /\ handles' = [handles EXCEPT ![Top.p] = @ \ {s}]
          /\ UNCHANGED <<stack, fault, plugVars, servers, link, dropped, twice>>

Server_remove(s) ==
    /\ Script /\ s \in Listed(servers) /\ Room(2)
    /\ irc_bot_server_remove(s, stack)

\* find(ctx)->name, with no test for NULL.
Plugin_unload(name) ==
    /\ Script /\ Room(2)
    /\ LET p == Get(plugins, name)
       IN  IF p = Nil THEN Crash("null") ELSE irc_bot_plugin_remove(p, stack)

Plugin_reload(name) ==
    /\ Script /\ Room(1)
    /\ LET p == Get(plugins, name)
       IN  IF p = Nil THEN Crash("null")
           ELSE Call(<<Js(p, Nil)>>) /\ UNCHANGED <<fault, plugVars, srvVars>>

\* The call ends and its arguments are collected.
js_return ==
    /\ Script
    /\ LET s == Top.s
       IN  \/ s = Nil /\ Return /\ UNCHANGED <<fault, plugVars, srvVars>>
           \/ s # Nil /\ FinalizeFails(s) /\ Crash("freed")
           \/ /\ s # Nil /\ ~FinalizeFails(s) /\ Return /\ Decref(s)
              /\ UNCHANGED <<fault, plugVars, servers, link, handles, dropped, twice>>

-----------------------------------------------------------------------------
(* The outermost calls: timers and Http callbacks of a plugin, commands of *)
(* irccdctl and the end of the program.                                    *)

\* The call into a plugin by one of its timers, by the end of one of its Http
\* requests, or by PLUGIN-RELOAD of that plugin.
stimer_cb(p) ==
    /\ Idle /\ life[p] \in {"loaded", "leaked"}
    /\ Call(<<Js(p, Nil)>>)
    /\ UNCHANGED <<fault, plugVars, srvVars>>

cmd_server_connect(s) ==
    /\ Idle /\ Fresh(s) /\ Get(servers, NameOf[s]) = Nil
    /\ Connected(s, 0) /\ alive' = alive \cup {s}
    /\ dropped' = dropped \ {s} /\ twice' = twice \ {s}
    /\ UNCHANGED <<stack, fault, plugVars, handles>>

\* SERVER-DISCONNECT and SERVER-RECONNECT of one server: it stays in the list.
cmd_server_disconnect(s) ==
    /\ Idle /\ s \in Listed(servers)
    /\ conn' = conn \ {s} \/ conn' = conn \cup {s}
    /\ UNCHANGED <<stack, fault, plugVars, servers, link, refc, alive, handles, dropped, twice>>

cmd_server_disconnect_all ==
    /\ Idle
    /\ Call(<<Clearing(HeadOf(servers))>>)
    /\ UNCHANGED <<fault, plugVars, srvVars>>

cmd_plugin_load(p) ==
    /\ Idle /\ life[p] = "closed"
    /\ life' = [life EXCEPT ![p] = "open"]
    /\ Call(<<[fn |-> "plugin_add", p |-> p, step |-> "script"], Js(p, Nil)>>)
    /\ UNCHANGED <<fault, plugins, srvVars>>

cmd_plugin_unload(p) ==
    /\ Idle /\ p \in Listed(plugins)
    /\ irc_bot_plugin_remove(p, <<>>)

cmd_plugin_all ==
    /\ Idle /\ plugins # <<>>
    /\ \/ Call(<<Unloading(HeadOf(plugins))>>)
       \/ Call(<<Reloading(HeadOf(plugins)), Js(HeadOf(plugins), Nil)>>)
    /\ UNCHANGED <<fault, plugVars, srvVars>>

\* irc_bot_finish: the servers, then the plugins.
irc_bot_finish ==
    /\ \/ /\ Idle
          /\ Call(<<[fn |-> "finish", step |-> "plugins"], Clearing(HeadOf(servers))>>)
       \/ /\ Running("finish") /\ Top.step = "plugins"
          /\ stack' = Over([Top EXCEPT !.step = "end"]) \o <<Unloading(HeadOf(plugins))>>
    /\ UNCHANGED <<fault, plugVars, srvVars>>

-----------------------------------------------------------------------------
Init ==
    /\ stack = <<>> /\ fault = "none"
    /\ plugins = <<>> /\ life = [p \in Plugs |-> "closed"]
    /\ servers = <<>> /\ link = [s \in Srvs |-> Nil] /\ conn = {}
    /\ refc = [s \in Srvs |-> 0] /\ alive = {} /\ handles = [p \in Plugs |-> {}]
    /\ dropped = {} /\ twice = {}

Next ==
    \/ \E s \in Srvs, ev \in Messages \cup OtherEvents : irc_server_consumer_entry(s, ev)
    \/ dispatch_plugins \/ dispatch_command \/ dispatch_observe
    \/ server_remove_end \/ irc_bot_server_clear
    \/ plugin_remove_end \/ irc_bot_plugin_clear \/ cmd_plugin_reload
    \/ script_fails \/ irc_bot_plugin_add
    \/ \E s \in Srvs : \/ Server_constructor(s) \/ Server_add(s) \/ Server_find(s)
                       \/ Server_destructor(s) \/ Server_remove(s)
                       \/ cmd_server_connect(s) \/ cmd_server_disconnect(s)
    \/ \E p \in Plugs : \/ Plugin_unload(NameOf[p]) \/ Plugin_reload(NameOf[p])
                        \/ stimer_cb(p) \/ cmd_plugin_load(p) \/ cmd_plugin_unload(p)
    \/ js_return \/ cmd_server_disconnect_all \/ cmd_plugin_all \/ irc_bot_finish

Spec == Init /\ [][Next]_vars

-----------------------------------------------------------------------------
(* Properties.                                                             *)

Frames == {stack[i] : i \in DOMAIN stack}
Dispatching == {f \in Frames : f.fn = "dispatch"}

\* The frames of the call stack.
JsFrame == [fn : {"js"}, p : Plugs, s : Srvs \cup {Nil}]
DispatchFrames ==
    [fn : {"dispatch"}, type : {"message", "event"}, s : Srvs, calls : Calls \cup {{}},
     p : Plugs \cup {Nil}, cmd : Plugs \cup {Nil}, step : {"plugins", "command", "observe"},
     stayed : SUBSET Plugs, seen : [Plugs -> 0..2]]
RemoveFrame == [fn : {"server_remove"}, s : Srvs]
ClearFrame == [fn : {"server_clear"}, s : Srvs \cup {Nil}]
UnloadFrame == [fn : {"plugin_remove"}, p : Plugs]
WalkFrame == [fn : {"plugin_clear", "reload"}, p : Plugs \cup {Nil}]
AddFrame == [fn : {"plugin_add"}, p : Plugs, step : {"script", "load"}]
FinishFrame == [fn : {"finish"}, step : {"plugins", "end"}]
Frame == JsFrame \cup DispatchFrames \cup RemoveFrame \cup ClearFrame \cup UnloadFrame
         \cup WalkFrame \cup AddFrame \cup FinishFrame

TypeOK ==
    /\ stack \in Seq(Frame) /\ fault \in {"none", "freed", "null", "active coroutine"}
    /\ plugins \in Seq(Plugs) /\ servers \in Seq(Srvs)
    /\ life \in [Plugs -> {"closed", "open", "loaded", "leaked", "unloading"}]
    /\ link \in [Srvs -> Srvs \cup {Nil}] /\ refc \in [Srvs -> Nat]
    /\ conn \subseteq alive /\ alive \subseteq Srvs /\ handles \in [Plugs -> SUBSET Srvs]
    /\ dropped \subseteq Srvs /\ twice \subseteq Srvs

\* irc_bot_dispatch offers the event once to every plugin that is loaded all the
\* time, whatever handlers load, unload, add and remove meanwhile; all of them
\* before the plugin whose command it is; and a plugin is left out only when the
\* command begins with its name and with that of a plugin behind it in the list.
OfferedOnce ==
    \A f \in Dispatching : f.step # "plugins" =>
        /\ \A p \in f.stayed :
              \/ f.seen[p] = IF p = f.cmd /\ f.step = "command" THEN 0 ELSE 1
              \/ f.seen[p] = 0 /\ is_command(p, f) /\ f.cmd # Nil /\ is_command(f.cmd, f)
        /\ \A p \in Plugs : f.seen[p] <= 1

\* Events reach a plugin only between its onLoad and its onUnload, and a plugin
\* is unloaded once, even when handlers unload plugins and remove servers.
Entered(p) == Len(stack') > Len(stack) /\ Last(stack').fn = "js" /\ Last(stack').p = p
Below == stack'[Len(stack') - 1].fn
HeardWhileLoaded ==
    [][\A p \in Plugs :
         /\ Entered(p) /\ Len(stack') > 1 /\ Below \in {"dispatch", "reload", "plugin_remove"}
         => life[p] = "loaded"]_vars

\* Every server has one reference from the list, one from each Irccd.Server object
\* and one from each handler it was given to, unless it was removed while it
\* was being removed: none is freed too early and none is kept for ever.
RefsExact ==
    fault = "none" => \A s \in alive \ (twice \cup dropped) :
        refc[s] = Cardinality({i \in DOMAIN servers : servers[i] = s})
                + Cardinality({p \in Plugs : s \in handles[p]})
                + Cardinality({i \in DOMAIN stack : stack[i].fn = "js" /\ stack[i].s = s})

\* A connected server is in the list, where irccdctl and plugins can reach it,
\* but for one that was added while irc_bot_server_clear ran, or one removed while
\* it was being removed.
ConnectedListed == conn \subseteq Listed(servers) \cup dropped \cup twice

\* irc_bot_plugin_clear, the last of irc_bot_finish to call plugins, leaves none
\* loaded and none in the list, though onUnload may unload or reload others.  What
\* was never in the list (leaked) is not destroyed, and a server that onUnload
\* adds behind irc_bot_server_clear stays.
FinishedClean ==
    fault = "none" /\ stack # <<>> /\ Len(stack) = 1 /\ Top.fn = "finish" /\ Top.step = "end" =>
        plugins = <<>> /\ \A p \in Plugs : life[p] \notin {"loaded", "unloading"}
=============================================================================
