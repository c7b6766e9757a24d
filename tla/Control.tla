------------------------------- MODULE Control -------------------------------
(***************************************************************************)
(* What irccdctl writes for a command with its arguments, what the daemon  *)
(* makes of that line, and what irccdctl shows of the lists the daemon     *)
(* answers with (irccdctl/irccdctl.c, irccd/peer.c).  The exchange itself  *)
(* is in Peer, what the commands do in Bot, Rule and Server; here the      *)
(* servers, plugins and rules that a request names exist.                  *)
(*                                                                         *)
(* A text is a sequence of characters; the name of a command, a number and *)
(* the action of a rule count as one character each.                       *)
(***************************************************************************)
EXTENDS Message, Integers

CONSTANT LineMax    \* characters a request has room for, with its \n and zero

Numbers == [text \in {<<"0">>, <<"1">>, <<"-1">>} |->
               IF text = <<"-1">> THEN -1 ELSE IF text = <<"0">> THEN 0 ELSE 1]
irc_util_stoi(text) == text \in DOMAIN Numbers
Actions == {<<"accept">>, <<"drop">>}

-----------------------------------------------------------------------------
(* irccdctl                                                                *)

\* How many arguments run lets through for a command.  rule-add, rule-edit and
\* server-connect take options and look at the rest themselves.
Takes(cmd) ==
    CASE cmd \in {"HOOK-LIST", "PLUGIN-LIST", "RULE-LIST", "SERVER-LIST", "WATCH"} -> 0..0
      [] cmd \in {"PLUGIN-RELOAD", "PLUGIN-UNLOAD", "SERVER-DISCONNECT", "SERVER-RECONNECT"} -> 0..1
      [] cmd = "PLUGIN-PATH" -> 0..3
      [] cmd \in {"HOOK-REMOVE", "PLUGIN-INFO", "PLUGIN-LOAD", "RULE-REMOVE", "SERVER-INFO"} -> 1..1
      [] cmd \in {"PLUGIN-CONFIG", "PLUGIN-TEMPLATE"} -> 1..3
      [] cmd \in {"HOOK-ADD", "RULE-MOVE", "SERVER-NICK"} -> 2..2
      [] cmd \in {"SERVER-JOIN", "SERVER-PART"} -> 2..3
      [] cmd \in {"SERVER-ME", "SERVER-MESSAGE", "SERVER-NOTICE", "SERVER-TOPIC"} -> 3..3
      [] cmd = "SERVER-MODE" -> 3..4

Advert == <<"irccd", " ", "is", " ", "shutting", " ", "down">>

\* The line of a command without options.  server-info sends its own name, and
\* plugin-path without arguments what printf(3) makes of NULL.
request(cmd, argv) ==
    Spaced(<<<<cmd>>>> \o
        CASE cmd = "SERVER-PART" /\ Len(argv) = 2 -> Append(argv, Advert)
          [] cmd = "SERVER-INFO" -> <<<<"server-info">>>>
          [] cmd = "PLUGIN-PATH" /\ argv = <<>> -> <<<<"(null)">>>>
          [] OTHER -> argv)

\* The line of a command with options, [key, value, upper] in the order given:
\* -c is [key |-> "c", upper |-> FALSE], -C has upper TRUE.
Option(opts, key, default) ==
    LET k == SelectLastInSeq(opts, LAMBDA o : o.key = key)
    IN  IF k = 0 THEN default ELSE opts[k].value

request_rule_add(opts, action) ==
    Spaced(<<<<"RULE-ADD">>, action>>
           \o [k \in 1..Len(opts) |-> <<opts[k].key, "=">> \o opts[k].value] \o <<action>>)

Sign(o) == IF o.key = "a" THEN "=" ELSE IF o.upper THEN "-" ELSE "+"
request_rule_edit(opts, index) ==
    Spaced(<<<<"RULE-EDIT">>, index>>
           \o [k \in 1..Len(opts) |-> <<opts[k].key, Sign(opts[k])>> \o opts[k].value] \o <<<<>>>>)

RealName == <<"IRC", " ", "Client", " ", "Daemon">>
request_server_connect(opts, id, hostname) ==
    LET ssl == \E k \in 1..Len(opts) : opts[k].key = "s"
    IN  Spaced(<<<<"SERVER-CONNECT">>, id, hostname,
                 (IF ssl THEN <<"+">> ELSE <<>>) \o Option(opts, "p", <<"6667">>),
                 Option(opts, "n", <<"irccd">>), Option(opts, "u", <<"irccd">>),
                 Option(opts, "r", RealName)>>)

\* The line a run of irccdctl writes, or none: a wrong number of arguments, or
\* numbers rule-move cannot read.
Composed(r) ==
    CASE r.cmd = "RULE-ADD" -> request_rule_add(r.opts, r.argv[1])
      [] r.cmd = "RULE-EDIT" -> request_rule_edit(r.opts, r.argv[1])
      [] r.cmd = "SERVER-CONNECT" -> request_server_connect(r.opts, r.argv[1], r.argv[2])
      [] OTHER ->
           IF Len(r.argv) \notin Takes(r.cmd)
              \/ (r.cmd = "RULE-MOVE" /\ \E k \in 1..2 : ~irc_util_stoi(r.argv[k]))
           THEN Null ELSE request(r.cmd, r.argv)

\* A line cut by vsnprintf(3) leaves no room for the \n, and is not sent.
req(line) == IF line = Null \/ Len(line) + 1 >= LineMax THEN Null ELSE line

-----------------------------------------------------------------------------
(* The daemon                                                              *)

\* How many arguments the functions of the daemon's commands accept; they have
\* parse look for as many as the greatest of these.
HookAccepts(cmd) ==
    CASE cmd = "HOOK-LIST" -> 0..0
      [] cmd = "HOOK-REMOVE" -> 1..1
      [] cmd = "HOOK-ADD" -> 2..2
      [] OTHER -> {}
PluginAccepts(cmd) ==
    CASE cmd = "PLUGIN-LIST" -> 0..0
      [] cmd \in {"PLUGIN-RELOAD", "PLUGIN-UNLOAD"} -> 0..1
      [] cmd \in {"PLUGIN-INFO", "PLUGIN-LOAD"} -> 1..1
      [] cmd \in {"PLUGIN-CONFIG", "PLUGIN-PATH", "PLUGIN-TEMPLATE"} -> 1..3
      [] OTHER -> {}
RuleAccepts(cmd) ==
    CASE cmd = "RULE-LIST" -> 0..0
      [] cmd = "RULE-REMOVE" -> 1..1
      [] cmd = "RULE-MOVE" -> 2..2
      [] OTHER -> {}
ServerAccepts(cmd) ==
    CASE cmd = "SERVER-DISCONNECT" -> 0..1
      [] cmd = "SERVER-INFO" -> 1..1
      [] cmd \in {"SERVER-ME", "SERVER-MESSAGE", "SERVER-NOTICE"} -> 3..3
      [] cmd = "SERVER-MODE" -> 3..4
      [] cmd = "SERVER-CONNECT" -> 6..6
      [] OTHER -> {}
ChannelAccepts(cmd) ==
    CASE cmd = "SERVER-LIST" -> 0..0
      [] cmd = "SERVER-RECONNECT" -> 0..1
      [] cmd \in {"SERVER-JOIN", "SERVER-PART"} -> 2..3
      [] cmd \in {"SERVER-INVITE", "SERVER-TOPIC"} -> 3..3
      [] cmd = "SERVER-KICK" -> 3..4
      [] OTHER -> {}

\* What is in none of them is no command but WATCH.
Accepts(cmd) ==
    HookAccepts(cmd) \cup PluginAccepts(cmd) \cup RuleAccepts(cmd) \cup ServerAccepts(cmd)
        \cup ChannelAccepts(cmd) \cup (IF cmd = "WATCH" THEN 0..0 ELSE {})

parse(line, max) ==
    IF max = 0 \/ ScanLine(line) = <<>> THEN <<>> ELSE Arguments(ScanLine(line), max, " ")

Reply(rc) == [rc |-> rc, args |-> <<>>]

\* A command without options of its own.  SERVER-PART and SERVER-KICK look into
\* the reason that is not there.  Numbers are read once more.
invoke_args(line, cmd) ==
    LET args == parse(line, Max(Accepts(cmd)))
        Index(k) == irc_util_stoi(args[k]) /\ Numbers[args[k]] >= 0
    IN  IF Len(args) \notin Accepts(cmd) THEN Reply("EINVAL")
        ELSE IF \/ cmd = "RULE-MOVE" /\ ~(Index(1) /\ Index(2))
                \/ cmd = "RULE-REMOVE" /\ ~Index(1)
        THEN Reply("ERANGE")
        ELSE IF \/ cmd = "SERVER-PART" /\ Len(args) = 2
                \/ cmd = "SERVER-KICK" /\ Len(args) = 3
        THEN Reply("crash")
        ELSE [rc |-> "ok", args |-> args]

Criteria == {"c", "e", "o", "p", "s"}

\* add(rule, value) with the function pointer add: one of those of Criteria,
\* NULL or, before it was assigned, whatever the stack held.
Called(r, value) ==
    IF r.add \in Criteria THEN [r EXCEPT !.crit = Append(@, <<r.add, value>>)]
    ELSE IF r.add = "stray" THEN [r EXCEPT !.rc = "crash"] ELSE r

\* One token of RULE-ADD.  i= leaves add as it was and calls it all the same.
RuleToken(r, token) ==
    LET key == token[1]
        value == SubSeq(token, 3, Len(token))
    IN  IF r.rc # "ok" THEN r
        ELSE IF key = "i"
        THEN IF ~irc_util_stoi(value) THEN [r EXCEPT !.rc = "EINVAL"]
             ELSE Called([r EXCEPT !.index = Numbers[value]], value)
        ELSE Called([r EXCEPT !.add = IF key \in Criteria THEN key ELSE "NULL"], value)

cmd_rule_add(line, stack) ==
    LET act == ScanStr(ScanLine(line))
        tokens == Tail(strtok_r(ScanLine(line), {" "}))
    IN  IF \A k \in 1..Len(ScanLine(line)) : ScanLine(line)[k] = " " THEN Reply("EINVAL")
        ELSE IF act \notin Actions THEN Reply("invalid action")
        ELSE FoldLeft(RuleToken, [rc |-> "ok", action |-> act, index |-> -1, crit |-> <<>>, add |-> stack], tokens)

\* One token of RULE-EDIT: what it changed stays changed when a later one is
\* refused.
EditToken(r, token) ==
    LET value == SubSeq(token, 3, Len(token))
    IN  IF r.rc # "ok" THEN r
        ELSE IF Len(token) < 2 THEN [r EXCEPT !.rc = "EINVAL"]
        ELSE IF token[1] = "a" /\ token[2] = "="
        THEN IF value \in Actions THEN [r EXCEPT !.edits = Append(@, <<"a", "=", value>>)]
             ELSE [r EXCEPT !.rc = "invalid action"]
        ELSE IF token[1] \notin Criteria \/ token[2] \notin {"+", "-"} THEN [r EXCEPT !.rc = "EINVAL"]
        ELSE [r EXCEPT !.edits = Append(@, <<token[1], token[2], value>>)]

cmd_rule_edit(line) ==
    LET index == ScanStr(ScanLine(line))
        tokens == Tail(strtok_r(ScanLine(line), {" "}))
    IN  IF ~irc_util_stoi(index) THEN Reply("EINVAL")
        ELSE IF Numbers[index] < 0 THEN Reply("ERANGE")
        ELSE FoldLeft(EditToken, [rc |-> "ok", index |-> Numbers[index], edits |-> <<>>], tokens)

\* The port without its +, which stands for TLS.
cmd_server_connect(line) ==
    LET r == invoke_args(line, "SERVER-CONNECT")
        port == r.args[3]
    IN  IF r.rc # "ok" THEN r
        ELSE [rc |-> "ok", ssl |-> Starts(port, "+"),
              args |-> [r.args EXCEPT ![3] = IF Starts(port, "+") THEN Tail(port) ELSE port]]

invoke(line, stack) ==
    LET cmd == line[1]
    IN  CASE cmd = "RULE-ADD" -> cmd_rule_add(line, stack)
          [] cmd = "RULE-EDIT" -> cmd_rule_edit(line)
          [] cmd = "SERVER-CONNECT" -> cmd_server_connect(line)
          [] OTHER -> IF Accepts(cmd) = {} THEN Reply("command not found") ELSE invoke_args(line, cmd)

-----------------------------------------------------------------------------
(* Lists: the answer is a text of lines, its first one shortened to the    *)
(* count or to nothing, and irccdctl shows a sequence of texts.            *)

poll(text) == Arguments(text, Len(text) + 1, "\n")

\* HOOK-LIST, PLUGIN-LIST and SERVER-LIST.
names_list(names) == Spaced(names)
response_list(text) == IF text = <<>> THEN <<>> ELSE Arguments(text, Len(text) + 1, " ")

\* PLUGIN-CONFIG, PLUGIN-PATH and PLUGIN-TEMPLATE with a plugin only: options
\* is a sequence of keys and values.  irccdctl skips a line without =.
plugin_list_set(options) ==
    [count |-> Len(options),
     text |-> FlattenSeq([k \in 1..Len(options) |-> options[k].key \o <<"=">> \o options[k].value \o <<"\n">>])]
ShownOptions(answer) ==
    LET lines == SelectSeq(SubSeq(poll(answer.text), 1, answer.count), LAMBDA line : First(line, "=") # {})
        Halves(line) == Arguments(line, 2, "=")
    IN  [k \in 1..Len(lines) |-> [key |-> Halves(lines[k])[1], value |-> Halves(lines[k])[2]]]

\* RULE-LIST: six lines for each rule, an empty one for an empty criterion.
rule_list_to_string(values) == Append(Spaced(values), "\n")
cmd_rule_list(list) ==
    [count |-> Len(list),
     text |-> FlattenSeq([k \in 1..Len(list) |->
        Append(list[k].action, "\n") \o rule_list_to_string(list[k].servers)
            \o rule_list_to_string(list[k].channels) \o rule_list_to_string(list[k].origins)
            \o rule_list_to_string(list[k].plugins) \o rule_list_to_string(list[k].events)])]
ShownRules(answer) ==
    LET lines == poll(answer.text)
        Line(k, x) == lines[6 * (k - 1) + x]
    IN  [k \in 1..answer.count |->
            [action |-> Line(k, 1), servers |-> Line(k, 2), channels |-> Line(k, 3),
             origins |-> Line(k, 4), plugins |-> Line(k, 5), events |-> Line(k, 6)]]

\* SERVER-INFO: the channels with the symbols of the bot's own modes there, in
\* parentheses those it has not joined.  irccdctl shows the nickname for the
\* names of the user too.
ChannelText(channel) ==
    channel.symbols \o (IF channel.joined THEN channel.name ELSE <<"(">> \o channel.name \o <<")">>)
ServerChannels(server) == Spaced([k \in 1..Len(server.channels) |-> ChannelText(server.channels[k])])
info(server) ==
    server.name \o <<"\n">> \o Spaced(<<server.hostname, server.port>> \o (IF server.ssl THEN <<<<"ssl">>>> ELSE <<>>))
        \o <<"\n">> \o Spaced(<<server.nickname, server.username, server.realname>>) \o <<"\n">> \o ServerChannels(server)
ShownServer(text) ==
    LET lines == poll(text)
        args == irc_util_split(lines[2], 3, " ")
        ident == irc_util_split(lines[3], 3, " ")
    IN  IF Len(args) < 2 \/ Len(ident) # 3 THEN Null
        ELSE [name |-> lines[1], hostname |-> args[1], port |-> args[2], ssl |-> Len(args) = 3,
              nickname |-> ident[1], username |-> ident[1], realname |-> ident[1], channels |-> lines[4]]
-----------------------------------------------------------------------------
Without(text, chars) == \A k \in 1..Len(text) : text[k] \notin chars

\* Only the last argument a command can take, and a real name, may hold spaces.
Legible(r) ==
    /\ \A k \in 1..Len(r.argv) :
          Without(r.argv[k], {" "}) \/ (r.opts = <<>> /\ Accepts(r.cmd) # {} /\ k = Max(Accepts(r.cmd)))
    /\ \A k \in 1..Len(r.opts) : Without(r.opts[k].value, {" "}) \/ r.opts[k].key = "r"

Meant(r) ==
    CASE r.cmd = "SERVER-PART" /\ Len(r.argv) = 2 -> Append(r.argv, Advert)
      [] r.argv = <<<<>>>> -> <<>>
      [] OTHER -> r.argv

\* A rule gets the action and the criteria that were asked for, at the place
\* asked for, or at the end.  What else -i does is left open, for it is not what
\* irccd-ipc(7) says: its number is added to the criterion in front of it too, and
\* in front of all it calls a pointer that was not assigned.
RuleMeant(r, reply) ==
    LET places == {k \in 1..Len(r.opts) : r.opts[k].key = "i"}
        asked == [k \in 1..Len(r.opts) |-> <<r.opts[k].key, r.opts[k].value>>]
    IN  IF r.argv[1] \notin Actions THEN reply.rc \in {"EINVAL", "invalid action"}
        ELSE IF \E k \in places : ~irc_util_stoi(r.opts[k].value) THEN reply.rc # "ok"
        ELSE 1 \notin places =>
             /\ reply.rc = "ok" /\ reply.action = r.argv[1]
             /\ IF places = {} THEN reply.index = -1 /\ reply.crit = asked
                ELSE /\ reply.index = Numbers[r.opts[Max(places)].value]
                     /\ \A k \in DOMAIN asked \ places : asked[k] \in Range(reply.crit)

\* rule-edit makes the changes asked for in their order, up to an action that
\* is none.
EditMeant(r, reply) ==
    LET wrong == {k \in 1..Len(r.opts) : r.opts[k].key = "a" /\ r.opts[k].value \notin Actions}
        until == IF wrong = {} THEN Len(r.opts) ELSE Min(wrong) - 1
    IN  IF ~irc_util_stoi(r.argv[1]) \/ Numbers[r.argv[1]] < 0 THEN reply.rc \in {"EINVAL", "ERANGE"}
        ELSE /\ reply.index = Numbers[r.argv[1]] /\ (reply.rc = "ok" <=> wrong = {})
             /\ reply.edits = [k \in 1..until |-> <<r.opts[k].key, Sign(r.opts[k]), r.opts[k].value>>]

\* server-connect hands every setting over, given or not, and -s alone makes it TLS.
ConnectMeant(r, reply) ==
    LET port == Option(r.opts, "p", <<"6667">>)
        tls == \E k \in 1..Len(r.opts) : r.opts[k].key = "s"
    IN  /\ reply.rc = "ok" /\ reply.ssl = tls
        /\ reply.args = <<r.argv[1], r.argv[2], port, Option(r.opts, "n", <<"irccd">>),
                          Option(r.opts, "u", <<"irccd">>), Option(r.opts, "r", RealName)>>

\* A request that irccdctl sends is the command the daemon runs, with the very
\* arguments: a text that may hold spaces keeps them, and a request that is too
\* long is not sent in part.  An only argument that is empty counts as none.
\* server-info and server-nick do not work.  What becomes of the daemon is said of
\* no rule-add that starts with -i, and of no port: one that is no number is zero,
\* which irc_server_connect asserts that it is not.
Obeyed(r) ==
    LET line == req(Composed(r))
        reply == invoke(line, r.stack)
        args == Meant(r)
    IN  line # Null /\ Legible(r) /\ r.cmd \notin {"SERVER-INFO", "SERVER-NICK"} =>
        CASE r.cmd = "RULE-ADD" -> RuleMeant(r, reply)
          [] r.cmd = "RULE-EDIT" -> EditMeant(r, reply)
          [] r.cmd = "SERVER-CONNECT" -> ConnectMeant(r, reply)
          [] OTHER ->
               \/ reply = [rc |-> "ok", args |-> args]
               \/ reply.rc = "EINVAL" /\ args = <<>> /\ 0 \notin Accepts(r.cmd)
               \/ reply.rc = "ERANGE" /\ r.cmd \in {"RULE-MOVE", "RULE-REMOVE"}
                    /\ \E k \in 1..Len(args) : ~irc_util_stoi(args[k]) \/ Numbers[args[k]] < 0
               \/ r.cmd = "PLUGIN-PATH" /\ args = <<>>

\* irccdctl lists the names, the options and the rules the daemon has, each
\* where it belongs, for names without spaces, keys without = and values of one
\* line, and shows a server as it is, the names of its user aside.
Shown(names, options, list, server) ==
    /\ response_list(names_list(names)) = names
    /\ ShownOptions(plugin_list_set(options)) = options
    /\ ShownRules(cmd_rule_list(list)) =
          [k \in 1..Len(list) |->
             [action |-> list[k].action, servers |-> Spaced(list[k].servers),
              channels |-> Spaced(list[k].channels), origins |-> Spaced(list[k].origins),
              plugins |-> Spaced(list[k].plugins), events |-> Spaced(list[k].events)]]
    /\ LET shown == ShownServer(info(server)) IN
       /\ \A field \in {"name", "hostname", "port", "ssl", "nickname"} : shown[field] = server[field]
       /\ shown.channels = ServerChannels(server)
==============================================================================
