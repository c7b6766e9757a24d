# Verification of irccd

irccd is an IRC bot: a daemon that connects to IRC servers, hands what happens
there to plugins (JavaScript or native) and hooks, filters it with rules, and is
controlled by `irccdctl` over a UNIX socket. This directory holds TLA+ modules
of its parts, the TLC configurations that check them on small instances, and
proofs checked by TLAPS.

## Inventory

One process, one thread. Concurrency is cooperative: libev polls, the libnce
scheduler then resumes coroutines in the order of their list, and each runs to
its next yield. What is hard is therefore the order of polls, timers and
coroutines, the reentrancy of plugin code, and the network.

| Component | State | Operations | Properties that make it correct |
|---|---|---|---|
| connection, `lib/irccd/conn.c` | state, address list, socket, input and output buffers, the coroutines `io_fd`, `timer`, `producer`, their watchers | resolve, connect, identify, exchange, give up, wait, respawn; push; next message | no coroutine waits for nothing; a failed connection is tried again; sessions do not mix; a loss is told at most once |
| server, `lib/irccd/server.c`, `channel.c` | nickname, flags, prefixes, channels with users and modes | one handler per IRC message; join, part, nick, mode...; connect, disconnect | the bot's picture is the network's; channels asked for are joined |
| rules, `lib/irccd/rule.c`, `irccd.c` | list of rules with criteria | match, insert, move, edit, remove, clear | the last match decides; no rule lost or out of order |
| bot, `lib/irccd/irccd.c`, `plugin.c` | lists of servers, plugins, hooks, rules, loaders | dispatch; add, find, remove, clear; finish | who hears an event, when and how often; lists and references consistent |
| JavaScript plugins, `irccd/js-plugin.c`, `jsapi-plugin.c`, `jsapi-server.c` | one Duktape heap per plugin; objects that refer to servers | callbacks into and out of a heap | no use of what was freed; every server freed once |
| timers, requests, files, `irccd/jsapi-timer.c`, `jsapi-http.c`, `jsapi-file.c`, `jsapi-system.c` | structures that objects of a heap own, known to libev, curl and stdio | start, stop, expire; request, perform, complete; open, write, close; finalizers | what runs has an owner; everything is released once; a request is answered |
| hooks, `lib/irccd/hook.c` | list of commands | fork, exec, wait | the daemon is not blocked for ever |
| transport and peers, `irccd/transport.c`, `peer.c` | clients, their streams, who is watching | accept, reap, parse, reply, broadcast | a reply per command; no client left behind |
| configuration, `irccd/conf.c` | the text, lexer and parser coroutines, the sections read so far | lex, parse, apply | what is written is applied, in an order that suits it |
| daemon and log, `irccd/irccd.c`, `lib/irccd/log.c` | options, signals, where messages go | start, run, end; log | ends when it is told to |
| plugin search, `lib/irccd/irccd.c`, `irccd/dl-plugin.c` | loaders | search, open | |
| templates, `lib/irccd/subst.c` | a buffer | expand | stays within the buffer; the text is what the template stands for |
| text functions, `jsapi-util.c`, `jsapi-directory.c`, `util.c`, `unicode.c` | none, or a path | cut, split, walk, look up, convert | as their manual says |
| events, `lib/irccd/event.c`, the parser of `conn.c` | none | parse a line, make an event, tell it | a line is heard as it was meant |
| `irccdctl` | one connection | send a command, read its reply | ends |
| plugins, `plugins/*` | games, history, logger | handlers | rules of the games |

How they interact: the connection hands messages to the consumer coroutine of
its server (`irc_server_consumer_entry`), whose handlers update the server and
call `irc_bot_dispatch`; the dispatch consults the rules and calls plugins, which
may call back into the bot (`Irccd.Server`, `Irccd.Plugin`) before they return;
`peer.c` calls the same operations from the coroutine of a client; servers push
lines into the connection.

Hard behaviours: timeouts racing data and user calls (connection); lost and
crossing requests (server); reentrancy and reference counts (bot); buffers at
their capacity (connection, peers, templates); finalizers that run when the
collector likes (timers, requests, files); two coroutines over one text
(configuration). `PROJECT.json` lists each under `hazards`
with its line and the properties that would catch it going wrong.

## Modules

| Module | Models | Run |
|---|---|---|
| `Conn` | `conn.c` and the coroutines around it | `conn`, `conn_*` |
| `Link` | abstract specification of a connection | through `Conn` |
| `Server` | `server.c`, `channel.c` over a connection, against an IRC network | `server`, `server_*` |
| `Rule` | `rule.c` and the list operations of `irccd.c` | `rule` |
| `Bot` | dispatch, server and plugin lists, JavaScript calls | `bot` |
| `Peer` | `transport.c`, `peer.c`, `irccdctl`, the wait of `hook.c` | `peer` |
| `Log`, `Loader` | `log.c`; the search for plugins with `js-plugin.c` and `dl-plugin.c` | through `Daemon` |
| `Conf` | `conf.c` | through `Daemon` |
| `Daemon` | `main` of `irccd/irccd.c`, composes `Conf`, `Loader` and `Log` | `daemon`, `daemon_*` |
| `Heap` | the Duktape heap of one plugin (external) | through `Script` |
| `Timer`, `Http`, `File` | `jsapi-timer.c`, `jsapi-http.c`, `jsapi-file.c` with popen of `jsapi-system.c` | through `Script` |
| `Script` | one plugin, composes the three over one `Heap` | `script` |
| `Subst` | `subst.c` | through `Text` |
| `Walk` | `jsapi-directory.c` | through `Text` |
| `Unicode`, `Utf8` | the lookups and the conversions of `unicode.c` | through `Text` |
| `Words` | `Irccd.Util.cut` and splitting (`jsapi-util.c`, `util.c`), reading lines (`jsapi-file.c`) | through `Text` |
| `Message` | a line of the network through `conn.c`, `server.c`, `event.c`, `hook.c` to `irccdctl watch` | through `Text` |
| `Control` | the text of the requests of `irccdctl.c`, their parsing in `peer.c`, the lists shown | through `Text` |
| `Text` | one call of the above at a time | `text` |
| `MC*` | instances for TLC | |
| `Conn_proofs`, `Server_proofs`, `Rule_proofs`, `Bot_proofs`, `Peer_proofs`, `Script_proofs`, `Daemon_proofs` | theorems about the module they are named for | |
| `Text_proofs` | theorems about `Subst`, `Unicode` and `Walk` | |

`Conn` implements `Link` (checked as `ImplementsLink`, proved as
`ConnImplementsLink`). `Server` is written over `Link`: the actions by which its
variable `link` changes are the transitions of `Link`, word for word, and that is how
the two compose. `Rule` and `Bot` meet in one place:
for `Bot` a rule lets an event through or not, either way. `Bot` and `Peer` meet
in `irc_bot_dispatch`: `Bot` has its loop over plugins, `Peer` the hooks before
it and the observer behind it. `Script` is one plugin of `Bot` from the inside:
`finish` of `Script` is the destruction of a heap in `Bot`. `Daemon` reads the
configuration and hands over to the event loop, where the others take place.

The modules compose in two ways. Where one component uses another through an
interface (`Server` over a connection), the interface is a specification of its
own and the refinement is checked. Where several share a state (`Script` over
`Heap`, `Daemon` over `Conf` and `Log`), the module that composes them EXTENDS
them and completes their actions with what stays unchanged.

`Conn`, `Rule`, `Bot` and `Peer` prove their `TypeOK`; those of `Server` and
`Daemon` document the state.

In each module the operators defined directly before a definition it resembles
(`EventsWriteOnly` before `EventsAfter`, `AddUnchecked` before
`irc_bot_server_add`) are its mutants: what a plausible bug would have made of
it. They are used by no specification; `PROJECT.json` says which property each
one breaks when it takes the place of the original.

### Conn

State is that of `struct conn`, with the watchers as records, plus `turn`, the
coroutine the pass of the scheduler is at, and `proc`, how the process is. One
action is one run of a coroutine from a resume to its next yield. Results of
system calls are nondeterministic. A line of input or output is tagged with the
session it came from ("cur" or "old"), so that mixing sessions is visible. What
the code does badly is in the model: a send(2) that spins (`proc = "spin"`), a
watcher started on descriptor -1 (`"negfd"`), a watcher that is initialised while
linked (`"corrupt"`), a coroutine that destroys itself (`"selfkill"`), a freed
watcher that libev follows (`"wild"`). The process stops there.

Run `conn` (3 endpoints, so that a first, a middle and a last one may fail; 2
handshake lines; room for 3 lines of output, so that the handshake and one line
fill it; 3 lines of input):

- `NoLostWakeup`: a suspended `io_fd` has an active watcher on an open socket, for
  writing while connect(2) is in progress, and for what the peer sends and for
  its closing afterwards. It does not say that output which waits is watched for:
  `conn_wait` forgets that after a wakeup for reading only (`conn.c:416`), and an
  identification then waits for the peer with its lines unsent.
- `ReaperArmed`: an `io_fd` coroutine that gave up is about to be replaced, and
  is never duplicated.
- `InputOrdered`, `OutputOrdered`: sessions stay in order in both buffers, a
  loss found while exchanging yields exactly one 000 message, behind the input of
  its session, and a user's line is behind the handshake of its session.
- `LossTold`: the consumer gets the 000 message that is owed. A loss that the
  watchdog finds is not: its session ends without one, and plugins are not told.
- `Retried`: after a failure a new attempt begins.
- `ImplementsLink`: refinement of `Link`.

When the lines that wait in the input fill the buffer, be they complete or not,
recv(2) is called with size 0 and its 0 is taken for a closed peer
(`conn.c:372`); lines have any length, so in the model any that wait may fill it.

Fairness: weak for the coroutines and the end of a poll, because the scheduler
resumes every attached coroutine in each pass and libev always returns; strong
for the reconnection delay, which nothing rearms, so that libev fires it in some
poll. Nothing is assumed of the network, the users or the watchdog.

### Server

The connection is `link` and two queues of lines; the network is external: one
session, the channels the bot is really in, the members and their voices.
`astray` records the channels about which something was lost on the bot (a
message swallowed by the loop of a WHOIS, a line refused by the full output, a
session that ended): the properties speak of the others. It holds "nickname" once
the bot lost a NICK, or when the network registers it under another nickname than
the server believes to have, because the handshake was pushed before a change
(`NetRegisters`). A message sent in the
reconnection delay, and the PART of a user in a channel that is not listed, end
the process (`link = "dead"`).

Run `server` (one channel, one other user, two nicknames for the bot and the user's,
which is taken, 2 lines each way, three choices of
flags): `MembershipKnown`, `ListedJoined`, `NicknameKnown`, `VoiceKnown` say that
at rest the picture is right; `NotForgotten` that a channel the bot is in is
dropped from the list only if its JOIN is still to come. One channel is enough
for them because handlers touch the channel of their message only; two waiting
lines are enough for requests and messages to cross. In this run no nickname is
the beginning of another and mode letters without an argument come last: the
code is wrong otherwise (see the hazards at `server.c:66` and `server.c:403`).
`VoiceKnown` is about users who stayed: `steady` are the members since the bot
joined. It is empty when the network let the bot in while it held users of the
channel from before a loss and no KICK or PART of its own was on the way to make it
forget them (`Outdated`): NAMES does not touch the modes of such users, and they stay
wrong until a MODE message comes. It takes three lines in the output for that to
show, one more than the run has; the theorem is for any number.

`NicksOrUsers` bounds the run: the bot asks for its second nickname only where it has
no flags, and there the other user joins no channel; where it has flags, users,
modes and WHOIS take their course under one nickname. So NICKs are confirmed,
refused and lost, several under way at once, while the network joins, parts and
kicks the bot under the nickname it has by then. No property relates the nickname of
the bot to the users of a channel, but that one may not begin with the other.

### Rule

Run `rule`: three identities, two criteria (one every event has, one some lack),
indexes up to 4, that is beyond the end. `RulesKept`, `OrderKept`,
`InsertedWhereAsked`; `LastMatchDecides` compares the loop of
`irc_rule_matchlist` with its declarative reading for every event, but for those
in which a criterion is compared with a NULL channel or origin
(`NullCompared`): what the C library does there is not defined.

### Bot

`stack` is the C call stack: loops with their saved pointers, and "js" frames in
which a plugin's code runs and may call anything it is offered. A use of freed
memory, a NULL dereference or an abort ends the process (`fault`). Such ends are
reachable (a handler that unloads the next plugin, removes its own server, or
unloads a name that is not loaded), so the run does not check for deadlock, and
its properties speak of executions up to there. Servers are freed and allocated
again; `dropped` and `twice` record two situations the code does not handle (see
the hazards), so that the properties can say that there are no others. The lists
are sequences without duplicates; `LL_DELETE` takes one element out, and the
`next` pointer of a server outside of the list is kept in `link`.

Run `bot`: three plugins, two with the same name and one whose name extends it;
two servers; frames nested to 6, enough for a removal of a server in a handler
of its own removal; one `Irccd.Server` object kept at a time beside those given
to handlers. `OfferedOnce` and `HeardWhileLoaded`: a plugin hears an event at most
once, and only between its onLoad and its onUnload. `RefsExact`: the count of a
server is the number of those who hold it. `ConnectedListed`: a connected server
can be reached, those in `dropped` and `twice` aside. `FinishedClean`: no plugin is
loaded or listed at the end of `irc_bot_finish`, whatever its handlers did
meanwhile. It says nothing of plugins that were never in the list (`"leaked"`: onLoad
failed or the name was taken; nothing ever destroys them), nor of servers: the
onUnload of a plugin may add one behind `irc_bot_server_clear`, and it stays.

### Peer

In the daemon one coroutine runs at a time; `at` says which is between a resume
and its next yield, and where: looking for lines, dispatching an event, waiting
for a hook, calling the observer, answering. `peer[c]` is the `struct peer` with
its stream, `peers` the set of those in `bot.peers`: the place of the coroutine, the events its watcher waits for, input,
output, and whether the client watches. `fd` follows the daemon's descriptor from
the backlog to its close, or its leak. `up` and `down` are what the socket holds,
as items: a request, or the pieces of an answer, with "nl" where a line ends. So a
line can arrive, be read and be refused in part. A command is abstracted to how
it is answered: by OK or an error, by OK whatever happened (a command to a server,
`OkAnyhow`; the removal of a hook or a plugin that may not exist, `invoke_remove`),
by a list, twice, in the middle of a dispatch, or by a crash. `hook` is the process that
`irc_hook_invoke` waits for: a run of `irccdctl`, or another program, which is
taken to end.

Clients take steps only while the daemon polls or waits for a hook. This loses
nothing: between two yields the daemon touches the sockets in one place, at the
resume.

Run `peer` (one `irccdctl` with all its requests; one other client that sends two
of a command with a dispatch, the one that crashes the daemon, and empty lines;
one event): the input of a peer holds a request and a half, its output the hello
and an answer less one item, a socket one short line, so that partial reads,
partial writes, refused lines and full inputs all occur.

- `AnswerFirst`: what `irccdctl` reads first is the hello, what it reads after its
  request is the answer, whatever is broadcast meanwhile.
- `CtlTruthful`: it ends well only if the command was carried out, and shows a
  refusal only if it was not, except where `peer.c` ignores a result: PLUGIN-LOAD and
  commands to a server answer OK whatever was returned, PLUGIN-UNLOAD
  (`peer.c:384`) and HOOK-REMOVE (`peer.c:251`) of a name that does not exist answer
  OK, and so do PLUGIN-RELOAD, PLUGIN-CONFIG and PLUGIN-TEMPLATE of a plugin without
  a function for it; RULE-EDIT may refuse when it has made some changes.
- `DescriptorsOwned`: an open descriptor has a listed peer with a live coroutine;
  one is leaked only when the input was full once.
- `HookReturns`: a hook that runs `irccdctl` and the daemon do not wait for each
  other for ever.
- `LeaversNoticed`: the socket of a client that left is closed, with the same
  exception.

Fairness: weak for the running coroutine, for each peer whose watcher is ready
(the scheduler resumes all of them), for `irccdctl` (a process of its own, with
the timeout of 30 s that `SO_RCVTIMEO` guarantees), and for the start of the
program of a hook. Nothing is assumed of servers, users, signals and other clients.
The run does not check for deadlock, because the daemon may stop.

### Daemon, Conf, Loader, Log

`text` is the buffer of the configuration, as a sequence of symbols; the lexer
overwrites it and puts back, as the code does, so that a token is a place in the
text and what it says is read when the parser looks at it. `conf` and `cur` are the
sections read so far and the one being read, `pc` where the parser pulls its next
token: one action is what it does with one token. `pulled` records the
tokens as the parser saw them. `irc_util_die` and `conf_fatal` end the daemon. The
disk is a constant: files that open and files that do not.

Run `daemon`: fifteen small configurations that use every directive, each also cut
off anywhere, with one symbol missing anywhere and with a closing brace in the
place of any symbol; every command line; a signal at any time.

- `TokensFaithful`: the tokens are those of a reference tokenizer of the file.
- `AnyOrder`: rules stand before a server connects, and both before a plugin
  loads, wherever they are in the file.
- `SignalHeard`: a signal that arrived ends the daemon. Fairness: weak for the
  process itself.

### Script, Heap, Timer, Http, File

`Heap` says which objects exist, which the script can name and which the stash
keeps; anything else may be collected at any time. `timer`, `req` and `file` are
the structures that objects own. What the finalizer of a timer does is in the model
as it is: it raises before it stops the timer. Calls into freed memory and failed
assertions of libev end the process (`crash`), and the run does not check for
deadlock for that reason.

Run `script` (one timer, two callbacks, two requests, one file):

- `TimersDisciplined`: a timer fires into a freed object only if the script
  dropped the object, or was unloaded, while the timer ran.
- `RequestsOwned`: a request whose watcher runs can be stopped by the end of
  the heap, unless its callback was given to a second request.
- `StreamsOwned`: a stream is closed exactly once, and unwritten data always have
  a live owner.
- `Answered`: a request whose watcher waits for what curl waits for is answered,
  unless curl goes on to something else before, the plugin is unloaded or the process
  ends. What curl says after each perform is one of `Reports`: no descriptor, or the
  events of one, the same as before or another (`same`). `request_set_events`
  compares the events only, so the watcher may be left on a descriptor that curl
  has given up. Fairness: a server that holds a connection answers on it or closes
  it in the end, and libev reports that on a descriptor that is watched
  (`Watched`). This is an assumption on the network; of a request that is not
  watched nothing is assumed, since nothing looks at it again, not even for the
  timeout of curl. Such a request is never answered.

### Text

Pure functions, called one at a time with every argument of a small set; those
that loop take a step per iteration.

- `BufferKept`, `Expanded` (`Subst`): `irc_subst` stays within its buffer and
  produces what a recursive definition of templates (`Meaning`) says; it refuses a
  template for the lack of room only when its text has none, a key is longer than
  the buffer for keys (`LongKey`), or the date of an empty or long template could
  not be taken. Templates of up to four characters over two kinds of construct, and
  longer ones for dates, commands, colors and a long key; a buffer of six bytes, so
  that each kind of write meets its end. An attribute list longer than
  `struct attributes` is not followed.
- `WalkFaithful` (`Walk`): `find` and `remove` over a tree of three levels, names of
  one and two characters, in which one entry may not be looked at (`hidden`), opened
  (`locked`) or removed (`kept`), and with room in the path for all entries, for some or
  for none of the deepest (`Rooms`: 2, 3 and 5 characters behind the base). A path is
  a sequence of characters that strlcat(3) cuts, and what is at it is looked for in the
  tree. The property leaves out walks that met a directory they could not open, whose
  path keeps the name of that directory (`jsapi-directory.c:88`), and walks in which a
  path did not fit (`lost`). A path that was shortened into the base is not
  followed (`"outside"`).
- `RangesFound` (`Unicode`): the binary search misses no range and invents none.
- `WordsRight` (`Words`, `Utf8`): cutting into lines respects both limits and loses
  no word; splitting has exactly the arguments asked for; a user is split where
  it should; lines are read without loss; conversions are inverse to each other
  and keep to their buffers, for code points below 2^18 (`uni8_decode` shifts the
  first byte of four by 16, not by 18). The length of a line of `Irccd.Util.cut` is in
  characters of one byte each, where the code counts bytes.
- `LineHeard` (`Message`, `Control`): a line with any command, with last arguments that are
  empty, hold blanks, colons or CTCP marks, or are too long, reaches hooks as it
  was meant and watchers up to the size of the buffer; the nickname under the
  prefixes of NAMES is found. For every command of irccdctl with up to four
  arguments, or up to three options in any order, the daemon runs that command
  with those arguments: texts keep their spaces, a request that does not fit is
  not sent in part (20 characters, so that this happens), RULE-EDIT applies the
  changes in front of one it refuses. Two things are left out. `i=` in RULE-ADD is
  required to set the index and to keep the criteria asked for, but not to add no
  others; in front of all, where the daemon calls a pointer that was never set, it may
  do anything. And a port is a text here, while the daemon asserts that its number
  is not zero (`server.c:858`).
  Lists of names, options and rules and the description of a server are shown
  as they are.

## Disagreements between the code and what is said of it

Four are runs that end in a counterexample, quoted in `PROJECT.json` under
`findings`.

| Run | Property | What happens |
|---|---|---|
| `conn_watchdog` | `WatchdogArmed` | after the first reconnection the watchdog timer is never armed again |
| `conn_send_spins` | `SendReturns` | send(2) is retried for ever on an error |
| `server_rejoin` | `JoinedIsJoined` | joined flags survive a loss; the channels are not joined again |
| `daemon_truncated` | `BlocksClosed` | a file that ends inside a block is accepted and the section dropped |

Others are in the modules as the code has them, and the properties of the passing
runs are stated around them:

- a message sent in the reconnection delay starts a watcher on descriptor -1
  (`conn.c:715`, `proc = "negfd"`); an input buffer that is full of complete lines is
  read as a closed peer (`conn.c:372`); a loss found by the watchdog is told to no
  plugin (`conn.c:598`); a second endpoint that connects after one that
  failed is abandoned, because `rc` keeps the failure (`conn.c:230`); a respawned
  `io_fd` initialises a watcher that libev still holds (`conn.c:604`);
- output that is left after a wakeup for reading only is not watched for
  (`conn.c:416`), though `conn_ident` is to wait until all is sent (`conn.c:480`);
- a user whose nickname begins with the bot's passes for the bot (`server.c:66`);
  the PART of a user in a channel that is not listed fails an assertion
  (`server.c:433`); the first mode of PREFIX is taken for one that was not found
  (`server.c:402`); 366 fills the first entry of the list of names only
  (`server.c:587`); NAMES leaves the modes of a user alone who is held since
  before a loss (`channel.c:72`); KICK and PART without a reason read one argument
  too many
  (`server.c:332`, `433`); the `#ifdef IRCCD_WITH_SSL` of `server.c:869` is the
  wrong way round;
- a rule that is moved and was not at the head lands one place too far
  (`irccd.c:450`); a rule that lists channels or origins compares NULL for events
  that have none (`rule.c:38`);
- the plugin whose command a message is, is tested against the rules with the original
  event of the message (`irccd.c:574`), so a rule on onCommand never applies to it,
  contrary to what `tests/test-rule.c` uses such rules for; in `Bot` a rule lets an
  event through or not, either way;
- to the lexer of the configuration a semicolon is a character like others, so the
  trailing ones that irccd.conf(5) requires in blocks belong to the word in front;
  `irc_subst` returns `-ENOMEM` where
  libirccd-subst(3) says -1 with errno set; the modules have what the code does;
- `irccdctl server-connect` says OK whether or not the server connects, which with
  TLS it never does;
- `Irccd.Plugin.unload` of a name that is not loaded dereferences NULL
  (`jsapi-plugin.c:200`); events are never released (`irc_event_finish` has no
  caller);
- a command that arrives while the hello is being sent is not looked at until the
  client sends more (`peer.c:1060`);
- `i=` of RULE-ADD is also added to the criterion given before it, and as the
  first option calls a pointer that was never set (`peer.c:458`), though
  irccd-ipc(7) calls it the optional index and gives `c=#test s=example i=1` as its
  example; `irccdctl server-info`
  asks for a server called "server-info" (`irccdctl.c:700`) and shows the nickname
  for the other names; `server-nick` is no command of the daemon; an only argument
  that is empty counts as none, so `plugin-unload ""` unloads every plugin; SERVER-PART
  and SERVER-KICK without a reason dereference NULL (`peer.c:869`, `918`), which only
  clients other than irccdctl send;
- `irccdctl watch` shows the name of the event in the place of the server for
  connections, never shows an invitation, and runs the arguments of a mode into
  each other; WHOIS and modes without arguments are not sent to watchers;
- a configuration that begins with a blank fails an assertion of the scheduler;
  port 65535 is refused; a log file that cannot be opened leaves a NULL stream
  that the next message uses (`log.c:146`);
- a request that resolves a name or fails at once has no descriptor when it starts,
  and nothing looks at it again (`jsapi-http.c:303`); one that goes on to another
  descriptor with the same events is watched on the old one (`jsapi-http.c:157`);
  the timeout of irccd-api-http(3) is driven by nothing in either case;
- `Irccd.Directory.find` may answer with a path where nothing is, once a directory
  could not be opened (`jsapi-directory.c:88`) or a path was cut at PATH_MAX; `remove`
  ignores what remove(3) returns (`jsapi-directory.c:225`, `247`), where
  irccd-api-directory(3) has it throw on I/O errors;
- the callback of a finished request stays in the stash until the heap is gone,
  because it is looked for under another key; the structure of a file that the
  script closed is not freed; the `stat` methods return nothing.

## Proofs

`Conn_proofs`, for any number of endpoints, handshake lines and buffer sizes
(`ConnAssumption`: the output holds at least the handshake):

- `TypeCorrect`: TypeOK, with the bound on the output, is inductive; the lemmas
  are about what the operators on watchers, timers and buffers return.
- `WakeupsNotLost` and `ReaperAlwaysArmed` (`NoLostWakeup`, with the limits said
  above, and `ReaperArmed`): neither is inductive alone, because
  the timer coroutine may destroy `io_fd` and `io_fd` may feed the timer; their
  conjunction `Waits` is, given TypeOK.
- `ConnImplementsLink`: every step is a step of `Link` or leaves `LinkOf` alone.
  It needs `IoState`, which ties where the coroutine is to `conn->state`, and
  `ReaperArmed`, so that a respawn is always from "lost" or "down".
- `InputAlwaysOrdered` and `OutputAlwaysOrdered`: the property is about the two
  buffers as the consumer will read them, the invariants (`Received`, `Sent`) about
  each of them: which may still hold lines of an old session in which state, and
  that a loss is in one known place as long as it is owed.

`Server_proofs`, for all sets of channels, nicknames, modes and flags and all
capacities of the queues: `MembershipAlwaysKnown`, `NicknameAlwaysKnown`,
`ListedAlwaysJoined`, `VoiceAlwaysKnown` and `NeverForgotten`.
The properties speak of moments of rest; the invariant says what the lines on the way add up to:
the last line about the bot in a channel tells whether it is in
(`NetInv`, `JoinedInv`), each line about the bot calls it by the nickname it has by
then (`NickInv`), and a listed channel it is not in has a JOIN coming, in a
line, a request or the end of the handshake (`ListedInv`). For the voice of a user
(`VoiceInv`) it is the last line about it that tells what the network has, NAMES or
MODE, and with none left the bot has it; a user the bot holds already must be
forgotten before NAMES comes, so a leave of the bot stands before the last NAMES
(`LeftBefore`), and neither is dropped by the loop of a WHOIS (`Deaf`). That
needs the order of the lines of a stay: a leave between two NAMES, NAMES right behind
each JOIN of the bot, 318 right behind 311 (`StaysInv`), the 005 before the first MODE
(`PrefixesInv`), and a voice for none but users held (`TablesInv`). All
five have the hypothesis `Extends = {}`, that no nickname is the beginning of
another. It is that of the run, and without it they are false:
`irc_server_is_self` compares prefixes. `VoiceAlwaysKnown` has a second one
(`ArgumentsLast`), also that of the run: in a MODE message the letters without an
argument come last, or the code reads the arguments of the others in the wrong place.

`Rule_proofs`, for lists of any length and any criteria and values
(`RuleAssumption`): `TypeCorrect`, `NoRuleLost`, `OrderAlwaysKept`,
`InsertionsPlaced` and `LastMatchAlwaysDecides`. The argument is about positions: each operation is described
by where a position of the new list was in the old one (`BeforeMove`,
`BeforeInsertion`, `BeforeRemoval`), maps shown to be injective, and, but for the
moved rule, monotone. `RulesKept` is inductive with TypeOK, and OrderKept needs
it: identities must be unique for "the rule that moved" to make sense. That the last
match decides is a fact about the loop alone, whatever the list: the recursive
function of the loop and the declarative reading of the last match obey the same
equation at each index (`LoopsOnce`), and a set of numbers has a least element.

`Bot_proofs`, for any number of plugins and servers, any names and every depth of
nested calls (`BotAssumption`; the bounds `MaxDepth`, `MaxHandles` and `MaxRefs` are
arbitrary numbers): `TypeAlwaysOK`, `AlwaysOfferedOnce`, `ConnectedAlwaysListed`,
`AlwaysFinishedClean`, `AlwaysHeardWhileLoaded` and `RefsAlwaysExact`. None of the
properties is inductive, because what a frame relies on is decided by the frames
above it. `BotInv` says of each frame of the stack, wherever it is, what the call
it stands for needs when it goes on: of a dispatch, which plugins before and
behind its saved pointer have been asked (`Offers`); of `irc_bot_plugin_clear`, that
its pointer is the head of the list; of a plugin being unloaded, that no other
frame unloads it; of a server being removed, that it is still listed, or was
removed twice. To that come the lists without duplicates, that the loaded plugins
are the listed ones, and that one being unloaded has a frame that does it.
`RefsAlwaysExact` adds `RefsInv`: each step that changes a count changes one of the
three sets that are counted by one element. It says nothing of servers in `twice`
and `dropped`, for which the count is wrong in the code.

`Peer_proofs`, for any number of clients and runs of `irccdctl` and buffers from the
smallest that hold a hello and an answer (`PeerAssumption`): `TypeAlwaysOK`,
`DescriptorsAlwaysOwned`, `AnswerAlwaysFirst` and `CtlAlwaysTruthful`. `Owned` ties a
descriptor to its coroutine, its place in the list and the events it waits for.
`Talks` says at each point of the dialogue what is in the six buffers between
`irccdctl` and the daemon: what it will read begins with the hello, or with the
answer that matches `result`, and a request is whole in one direction as long as the
other is silent.

`Script_proofs`, for any number of objects and requests (`ObjectsAssumption`):
`TimersAlwaysDisciplined`, `RequestsAlwaysOwned`, `StreamsAlwaysOwned`. `HeapOK` says
that what the script or the stash refers to is in the heap; the invariants say
which structure outside of it belongs to which object.

`Daemon_proofs`, for every set of files of configuration (`ConfAssumption`: a text
is a sequence of symbols) and of command lines: `TokensAlwaysFaithful` and
`AnyOrderAlways`. The first compares two coroutines that pass a buffer back and
forth with a tokenizer that reads the file at once by recursion. The recursion goes on further behind at
each step, so that it has exactly one solution (`Solvable`). The invariant is that
the tokens of the file are those pulled so far, the one on its way between the
coroutines, and those the recursion finds from where the lexer stands (`Counted`);
and that the text from there on, with the character the lexer overwrote put back,
is that of the file (`Sound`). The second needs that no rule is
left to be applied when servers are, and neither rules nor servers when plugins
are (`Ordered`).

`Text_proofs`, for every template, table of keywords, colors, attributes and
command outputs, set of flags and buffer size (`SubstAssumption`; the character of a
date is not "@"), for sorted tables of code points of any length, and for every
finite tree of directories:

- `BufferAlwaysKept`. BufferKept is not inductive, because a write is prepared by the
  construct and done later: the invariant adds that what is still to be written are
  texts, and single characters for `ccat`, which alone may use the last byte. The
  lemmas show that every kind of construct is replaced by such writes; the end of a
  construct exists because a non-empty set of numbers has a least element.
- `TemplatesExpanded`: Expanded. The meaning of a template is defined by recursion
  towards its end, as the tokens of a file are. The invariant (`Going`) is that the
  meaning of the whole is what is in the buffer, what the writes still to do add,
  and the meaning of the rest, unless the output of a command was cut; it is carried
  over the date, literals, escapes and each kind of construct. That a text with its
  reserved characters doubled stands for itself has an invariant of its own
  (`LiteralInv`): what is behind the place `irc_subst` is at is the rest of the text
  doubled.
- `LookupsRight`: RangesFound. The invariant says that a search still going on has
  every entry that could hold the character in the part of the table it looks at,
  and that a search that failed in the ranges has no entry there.
- `WalksFaithful`: WalkFaithful. `TreeAssumption` says what a tree is: no set of nodes
  lies in itself, and a directory has no name twice. The invariant (`WalkInv`) is that
  the directories being read lie one in the other and the path is that of the last
  (`Spine`), and that each node that exists and can be seen is still to be visited
  (`Pending`: below an entry that was not read yet, or a directory being read), or was
  dealt with (`Handled`: it does not match, or it is or is above something that `remove` cannot take
  away, `Spared`). The path of a directory is that of its parent with the name and a
  slash behind (`EntryPath`), and cutting off as much as was put there gives the
  parent's back. The walk leaves a directory when none of its entries is pending; what
  `remove` then finds in it is spared, or above something that is. Which order
  readdir(3) gives, and what is hidden, locked or kept, are arbitrary. Walks that met a
  directory they could not open or a path that did not fit are left out, as in the
  property.

Only model-checked: `Retried`, `LossTold`, `HookReturns`, `LeaversNoticed`,
`SignalHeard` and `Answered` (liveness under fairness is beyond the prover); and
`WordsRight` and `LineHeard` (about recursive operators on texts, for which the prover
has no backend).

## Not modelled

TLS (unreachable in a build that has it); casemapping and the parameters of 005
other than PREFIX; the texts of replies of `peer.c`; what the generated tables of
`unicode.c` say; native plugins beyond opening them; the creation of the control
socket; answers of `peer.c` longer than their buffer; the getters of the JavaScript API, its clock and
its wrappers of Rule and Log. The plugins under `plugins/` are scripts that run
on the daemon and are no part of it: short sequential games over channel events,
and formatting of text. libev, libnce, curl and Duktape are modelled as the code
uses them.

## Plan

Done: `Conn`, `Link`, `Server`, `Rule`, `Bot`, `Peer`, then `Conf` and `Daemon`,
`Script`, and the functions of `Text`; proofs about all of them but the functions on
words and lines. What is left are proofs:

1. That `stored` of `Conn` loses nothing a session received, beside its order.
2. `TypeOK` of `Server` and `Daemon`, as far as their proofs do not state it.
