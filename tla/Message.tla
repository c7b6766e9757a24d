------------------------------- MODULE Message -------------------------------
(***************************************************************************)
(* From a line of the network to what hooks and irccdctl watch are told:   *)
(* the parser of conn.c, the event each handler of server.c makes of a     *)
(* message, the arguments hook.c gives to a script, the line event.c sends *)
(* to the watchers and what irccdctl shows of it.                          *)
(*                                                                         *)
(* A text is a sequence of characters; a command, the name of an event and *)
(* the word of a CTCP request count as one character each.                 *)
(***************************************************************************)
EXTENDS Words

CONSTANTS
    EventMax,   \* characters the buffer of broadcaster holds, with its zero
    PrefixMax   \* letters irc_server_modes_parse has room for

\* A pointer that is NULL, and any other one read behind the end of msg->args.
Null == <<"NULL">>
Stray == <<"stray">>

Starts(text, c) == text # <<>> /\ text[1] = c

-----------------------------------------------------------------------------
(* A line and its parts.                                                   *)

\* irc__conn_msg_scan: the text before the next space, and what is behind it.
Space(line) == IF First(line, " ") = {} THEN Len(line) + 1 ELSE CHOOSE k \in First(line, " ") : TRUE
ScanStr(line) == SubSeq(line, 1, Space(line) - 1)
ScanLine(line) == SubSeq(line, Space(line) + 1, Len(line))

\* The colon taken for a part of the last argument.
RECURSIVE ColonKept(_)
ColonKept(ptr) ==
    IF ptr = <<>> THEN <<>>
    ELSE IF Starts(ptr, ":") THEN <<ptr>>
    ELSE <<ScanStr(ptr)>> \o ColonKept(ScanLine(ptr))

\* The arguments: one that starts with a colon is the rest of the line.
RECURSIVE MsgArgs(_)
MsgArgs(ptr) ==
    IF ptr = <<>> THEN <<>>
    ELSE IF Starts(ptr, ":") THEN <<Tail(ptr)>>
    ELSE <<ScanStr(ptr)>> \o MsgArgs(ScanLine(ptr))

irc__conn_msg_parse(line) ==
    LET prefixed == Starts(line, ":")
        ptr == IF prefixed THEN ScanLine(Tail(line)) ELSE line
    IN  [prefix |-> IF prefixed THEN ScanStr(Tail(line)) ELSE Null,
         cmd |-> ScanStr(ptr),
         args |-> MsgArgs(ScanLine(ptr))]

irc__conn_msg_is_ctcp(line) ==
    Len(line) >= 2 /\ line[1] = "SOH" /\ line[Len(line)] = "SOH"

\* Without the first SOH, cut at the next one, and without the word ACTION.
irc__conn_msg_ctcp(line) ==
    LET inner == IF Starts(line, "SOH") THEN Tail(line) ELSE line
        stops == First(inner, "SOH")
        text == IF stops = {} THEN inner ELSE SubSeq(inner, 1, (CHOOSE k \in stops : TRUE) - 1)
    IN  IF Len(text) >= 2 /\ text[1] = "ACTION" /\ text[2] = " "
        THEN SubSeq(text, 3, Len(text)) ELSE text

-----------------------------------------------------------------------------
(* The events of the handlers: their type, and their fields in the order   *)
(* of struct irc_event.  The handlers' effects on the server are in Server.*)

NoEvent == [type |-> "none", fields |-> <<>>]

irc_server_handle_msg(origin, channel, text) ==
    LET Told(type, said) == [type |-> type, fields |-> <<origin, channel, said>>]
    IN  IF ~irc__conn_msg_is_ctcp(text) THEN Told("onMessage", text)
        ELSE IF text[2] = "ACTION" THEN Told("onMe", irc__conn_msg_ctcp(text))
        ELSE NoEvent

\* behind is what the memory behind msg->args holds: the handlers of KICK and
\* PART look there for a reason that was not given.
irc_event(msg, behind) ==
    LET Arg(k) == IF k <= Len(msg.args) THEN msg.args[k] ELSE behind
        Told(type, more) == [type |-> type, fields |-> <<msg.prefix>> \o more]
        cmd == msg.cmd
    IN  CASE cmd = <<"001">>     -> [type |-> "onConnect", fields |-> <<>>]
          [] cmd = <<"000">>     -> [type |-> "onDisconnect", fields |-> <<>>]
          [] cmd = <<"INVITE">>  -> Told("onInvite", <<Arg(2)>>)
          [] cmd = <<"JOIN">>    -> Told("onJoin", <<Arg(1)>>)
          [] cmd = <<"KICK">>    -> Told("onKick", <<Arg(1), Arg(2), Arg(3)>>)
          [] cmd = <<"MODE">>    -> Told("onMode", <<Arg(1), Arg(2)>> \o SubSeq(msg.args, 3, Len(msg.args)))
          [] cmd = <<"NICK">>    -> Told("onNick", <<Arg(1)>>)
          [] cmd = <<"NOTICE">>  -> Told("onNotice", <<Arg(1), Arg(2)>>)
          [] cmd = <<"PART">>    -> Told("onPart", <<Arg(1), Arg(2)>>)
          [] cmd = <<"PRIVMSG">> -> irc_server_handle_msg(msg.prefix, Arg(1), Arg(2))
          [] cmd = <<"TOPIC">>   -> Told("onTopic", <<Arg(1), Arg(2)>>)
          [] OTHER               -> NoEvent

-----------------------------------------------------------------------------
(* The letters in front of a nickname, in 353 and 319.                     *)

\* PREFIX=(modes)symbols: pairs of them, or none when there are too many
\* letters, no symbol or not as many symbols.
irc_server_modes_parse(modes, syms) ==
    LET kept == SubSeq(syms, 1, IF Len(syms) < PrefixMax THEN Len(syms) ELSE PrefixMax)
    IN  IF Len(modes) \notin 1..PrefixMax \/ Len(kept) # Len(modes) THEN <<>>
        ELSE [i \in 1..Len(modes) |-> [mode |-> modes[i], symbol |-> kept[i]]]

\* The modes worn by a nickname, as indices of prefixes, and the nickname.
irc_server_strip(prefixes, what) ==
    FoldLeft(LAMBDA w, i : IF Starts(w.what, prefixes[i].symbol)
                           THEN [modes |-> w.modes \cup {i}, what |-> Tail(w.what)] ELSE w,
             [modes |-> {}, what |-> what], [i \in 1..Len(prefixes) |-> i])

-----------------------------------------------------------------------------
(* Who hears of an event.                                                  *)

\* The arguments of a hook behind its path, or none when it is not run.
\* execv(3) takes them up to a NULL.
alloc(name, server, fields) == <<<<name>>, server>> \o fields
make_args(server, ev) ==
    IF ev.type = "none" THEN <<>> ELSE alloc(ev.type, server, ev.fields)
execv(args) ==
    LET null == SelectInSeq(args, LAMBDA text : text = Null)
    IN  IF null = 0 THEN args ELSE SubSeq(args, 1, null - 1)

RECURSIVE Spaced(_)
Spaced(texts) ==
    IF texts = <<>> THEN <<>>
    ELSE IF Len(texts) = 1 THEN texts[1] ELSE texts[1] \o <<" ">> \o Spaced(Tail(texts))

\* snprintf(3) and irc_util_strlcat leave what does not fit out.
Cut(text) == SubSeq(text, 1, IF Len(text) < EventMax THEN Len(text) ELSE EventMax - 1)

\* The line for the watchers.  The arguments of a mode are not kept apart, and
\* a mode without any is not told.
irc_event_str(server, ev) ==
    LET told == IF ev.type = "onMode" THEN SubSeq(ev.fields, 1, 3) ELSE ev.fields
        line == Spaced(<<<<ev.type>>, server>>
                       \o [k \in 1..Len(told) |-> IF told[k] = Null THEN <<>> ELSE told[k]])
        modes == FlattenSeq(SubSeq(ev.fields, 4, Len(ev.fields)))
    IN  IF ev.type = "none" \/ (ev.type = "onMode" /\ Len(ev.fields) = 3) THEN <<>>
        ELSE Cut(IF ev.type = "onMode" THEN line \o <<" ">> \o modes ELSE line)

\* How many texts the function for an event splits the line into at most, and
\* how many it needs to show it.
SplitInto(type) ==
    CASE type \in {"onConnect", "onDisconnect"} -> <<2, 2>>
      [] type \in {"onJoin", "onNick"} -> <<4, 4>>
      [] type \in {"onInvite", "onMe", "onMessage", "onNotice"} -> <<5, 5>>
      [] type \in {"onPart", "onTopic"} -> <<5, 4>>
      [] type = "onKick" -> <<6, 5>>
      [] type = "onMode" -> <<8, 5>>

\* What it shows: the texts behind the name of the event, which connect and
\* disconnect show in the place of the server.
show(line) ==
    IF line = <<>> THEN <<>>
    ELSE LET args == irc_util_split(line, SplitInto(line[1])[1], " ")
         IN  IF Len(args) < SplitInto(line[1])[2] THEN <<>>
             ELSE IF line[1] \in {"onConnect", "onDisconnect"} THEN <<args[1]>>
             ELSE Tail(args)
-----------------------------------------------------------------------------
\* Whatever prefixes the network announces within the limits, a nickname in a
\* list of names behind the symbols of its modes, the highest first, is told
\* apart from them and has those modes.
Stripped(modes, syms, worn, nick) ==
    LET symbols == SetToSortSeq(worn, <)
        marked == [k \in 1..Len(symbols) |-> syms[symbols[k]]] \o nick
    IN  Len(modes) = Len(syms) /\ Len(modes) \in 1..PrefixMax =>
            irc_server_strip(irc_server_modes_parse(modes, syms), marked) = [modes |-> worn, what |-> nick]

\* A line as the network sends it: [prefix, cmd, args, colon].
Written(p) ==
    <<":">> \o p.prefix \o <<" ">> \o p.cmd
        \o FlattenSeq([k \in 1..Len(p.args) |->
             IF k = Len(p.args) /\ p.colon THEN <<" ", ":">> \o p.args[k] ELSE <<" ">> \o p.args[k]])

\* Its parts may be written so: only a message, a topic or a reason, behind a
\* colon, may be empty, hold spaces or start with a colon itself.
Plain(text) == text # <<>> /\ First(text, " ") = {} /\ text[1] # ":"
Free(p) ==
    CASE p.cmd = <<"KICK">> -> 3
      [] p.cmd \in {<<"NOTICE">>, <<"PART">>, <<"PRIVMSG">>, <<"TOPIC">>} -> 2
      [] OTHER -> 0
Writable(p) ==
    /\ p.prefix # <<>> /\ First(p.prefix, " ") = {}
    /\ \A k \in 1..Len(p.args) : Plain(p.args[k]) \/ (p.colon /\ k = Len(p.args) /\ k = Free(p))

\* A CTCP request, and what is between its marks.
Request(p) == p.cmd = <<"PRIVMSG">> /\ Starts(p.args[2], "SOH") /\ Len(p.args[2]) > 1
                /\ Last(p.args[2]) = "SOH"
Inner(p) == SubSeq(p.args[2], 2, Len(p.args[2]) - 1)

\* What the line is about: who, and its arguments, without the name of the
\* bot in an INVITE and the marks of an action.
About(p) ==
    IF p.cmd \in {<<"000">>, <<"001">>} THEN <<>>
    ELSE IF p.cmd = <<"INVITE">> THEN <<p.prefix, p.args[2]>>
    ELSE IF Request(p) THEN <<p.prefix, p.args[1], SubSeq(Inner(p), 3, Len(Inner(p)))>>
    ELSE <<p.prefix>> \o p.args

\* A line of the network reaches the scripts and the watchers as it was meant.
\* A hook gets who did it, where and what, each whole and in an argument of its
\* own.  irccdctl shows the same, cut where the buffer of the broadcast ended,
\* for all events but connections, invitations and modes.  A CTCP request
\* other than an action is no event.  This needs the memory behind msg->args to
\* hold NULL, or a line with as many arguments as the handler reads.
Heard(p, server) ==
    LET ev == irc_event(irc__conn_msg_parse(Written(p)), p.behind)
        line == irc_event_str(server, ev)
        texts == <<server>> \o About(p)
    IN  Writable(p) =>
        IF Request(p) /\ ~IsPrefix(<<"ACTION", " ">>, Inner(p)) THEN ev = NoEvent
        ELSE p.behind = Null \/ Stray \notin Range(ev.fields) =>
             /\ Tail(execv(make_args(server, ev))) = texts
             /\ ev.type \notin {"onConnect", "onDisconnect", "onInvite", "onMode"} =>
                    IF Len(line) < EventMax - 1
                    THEN show(line) \in {texts, Append(texts, <<>>)}
                    ELSE IsPrefix(Spaced(show(line)), Spaced(Append(texts, <<>>)))
=============================================================================
