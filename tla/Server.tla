------------------------------- MODULE Server -------------------------------
(***************************************************************************)
(* One IRC server as the bot sees it (lib/irccd/server.c and channel.c):   *)
(* its channels, their users and its nickname, kept by the handlers of the *)
(* messages the consumer coroutine pulls, and changed by the calls plugins,*)
(* irccdctl and the configuration make.                                    *)
(*                                                                         *)
(* The connection of module Conn is reduced to `link' and two queues of    *)
(* lines.  `lost' is the reconnection delay: the connection still counts   *)
(* as ready there and a push aborts the process (proc = "negfd" in Conn),  *)
(* which is the link "dead".  The delay is far longer than the passes of   *)
(* the scheduler that take the waiting messages, so a new attempt starts   *)
(* with an empty input.                                                    *)
(*                                                                         *)
(* The IRC network on the other side is external: one session of the bot,  *)
(* the channels the bot is really in and the modes of the other users.     *)
(* Passwords of channels and the text of messages are left out.            *)
(***************************************************************************)
EXTENDS Naturals, Sequences, FiniteSets, SequencesExt

CONSTANTS
    Channels,       \* names of channels
    BotNicks,       \* nicknames the bot may ask for
    Others,         \* nicknames of the other users
    Extends,        \* pairs <<n, m>>: nickname m is n followed by more characters
    ModeStrings,    \* the letters of a MODE message, e.g. <<"o", "v">>
    FlagChoices,    \* the values server->flags is configured with
    OutCap,         \* lines the output buffer of the connection holds
    InCap           \* bound: the network adds lines when fewer than InCap wait

Nicks == BotNicks \cup Others

ASSUME ServerAssumption ==
    /\ BotNicks # {}
    /\ Extends \subseteq Nicks \X Nicks
    /\ \A s \in ModeStrings : s \in Seq({"o", "v", "b", "n"})
    /\ FlagChoices \subseteq SUBSET {"AUTO_REJOIN", "JOIN_INVITE"}
    /\ OutCap \in Nat \ {0} /\ InCap \in Nat \ {0}
    /\ "nickname" \notin Channels      \* which has a meaning of its own in astray

VARIABLES
    link,       \* server->coroutine and its connection
    flags,      \* server->flags: AUTO_REJOIN and JOIN_INVITE
    nickname,   \* server->nickname
    prefixes,   \* server->prefixes: the modes, in the order of the 005
    channels,   \* server->channels: names, the last added first
    joined,     \* channels with IRC_CHANNEL_FLAGS_JOINED
    users,      \* ch->users: nicknames
    voice,      \* those of them with mode v
    inq,        \* lines received and not handled yet
    outq,       \* lines pushed and not transmitted yet
    whois,      \* the consumer is in the loop of irc_server_handle_whoisuser
    sess,       \* network: "none", nickname "refused", or "reg"istered
    real,       \* network: the bot's nickname
    in,         \* network: channels the bot is in
    members,    \* network: the others in each channel
    netvoice,   \* network: those of them with mode v
    steady,     \* history: members since the bot joined the channel, none if it was
                \* Outdated there
    astray      \* history: channels about which a message, a request or the end
                \* of a session was lost on the bot; "nickname" likewise

botVars  == <<flags, nickname, prefixes, channels, joined, users, voice, whois>>
netVars  == <<sess, real, in, members, netvoice>>
histVars == <<steady, astray>>
vars == <<link, botVars, inq, outq, netVars, histVars>>

Listed  == Range(channels)
Ready   == link \in {"up", "lost"}

-----------------------------------------------------------------------------
(* Output.                                                                 *)

\* Lines that do not fit are refused with ENOBUFS, which no caller here heeds.
Pushed(q, s) ==
    q \o SubSeq(s, 1, IF Len(s) < OutCap - Len(q) THEN Len(s) ELSE OutCap - Len(q))

\* Channels whose JOIN is in s but does not fit behind q.
Refused(q, s) ==
    {s[i].ch : i \in {k \in DOMAIN s : s[k].cmd = "JOIN" /\ k > OutCap - Len(q)}}

\* irc_server_send for each line of s.  In the reconnection delay the push
\* restarts the watcher of descriptor -1 and the process aborts.
irc_server_send(s) ==
    \/ (s = <<>> \/ ~Ready) /\ UNCHANGED <<link, outq>>
    \/ s # <<>> /\ link = "up" /\ outq' = Pushed(outq, s) /\ UNCHANGED link
    \/ s # <<>> /\ link = "lost" /\ link' = "dead" /\ UNCHANGED outq

Line(cmd) == [cmd |-> cmd]
ChLine(cmd, c) == [cmd |-> cmd, ch |-> c]

\* The JOIN irc_server_join sends for channel c when j are the joined ones.
JoinLines(c, j) == IF c \in j \/ ~Ready THEN <<>> ELSE <<ChLine("JOIN", c)>>

\* irc_server_channels_add: a channel not found is prepended.
irc_server_channels_add(c) == IF c \in Listed THEN channels ELSE <<c>> \o channels

\* irc_server_is_self compares as many characters as the bot's nickname has.
AnySelf(n) == n \in Nicks
irc_server_is_self(n) == n = nickname \/ <<nickname, n>> \in Extends

irc_channel_clear(c) ==
    /\ users' = [users EXCEPT ![c] = {}]
    /\ voice' = [voice EXCEPT ![c] = {}]

irc_channel_remove(c, u) ==
    /\ users' = [users EXCEPT ![c] = @ \ {u}]
    /\ voice' = [voice EXCEPT ![c] = @ \ {u}]

\* irc_channel_add for each name: one that is already there keeps its modes.
irc_channel_add(c, names, voiced) ==
    /\ users' = [users EXCEPT ![c] = @ \cup names]
    /\ voice' = [voice EXCEPT ![c] = @ \cup (voiced \ users[c])]

irc_server_channels_remove(c) ==
    /\ \/ c \notin Listed /\ UNCHANGED channels
       \/ \E k \in DOMAIN channels :
             channels[k] = c /\ channels' = RemoveAt(channels, k)
    /\ joined' = joined \ {c}
    /\ irc_channel_clear(c)

\* The channels stay listed, with nobody in them.
irc_server_channels_clear ==
    /\ joined' = {}
    /\ users' = [c \in Channels |-> {}]
    /\ voice' = [c \in Channels |-> {}]

\* What the 005 of the session said is forgotten.
irc_server_clear == prefixes' = <<>>

-----------------------------------------------------------------------------
(* The handlers, run by the consumer coroutine.  Each ends by dispatching   *)
(* the event; what plugins then call are actions of their own.             *)

Msg == Head(inq)

Handles(cmd) ==
    /\ link \in {"down", "up", "lost"} /\ ~whois
    /\ inq # <<>> /\ Msg.cmd = cmd
    /\ inq' = Tail(inq)

\* A message about the bot in a session settles what the bot knows of a channel.
Settled(about) == IF about /\ sess = "reg" THEN {Msg.ch} ELSE {}

\* 000, from the connection: only the event.
irc_server_handle_disconnect ==
    /\ Handles("000")
    /\ UNCHANGED <<link, botVars, outq, netVars, histVars>>

\* 001: join the channels that are listed and not joined, in the order of the
\* list (the set has this one sequence).
JoinNothing == {<<>>}
ConnectJoins ==
    LET todo == Listed \ joined
    IN  {s \in UNION {[1..n -> todo] : n \in 0..Len(channels)} :
            /\ Range(s) = todo
            /\ \A i, j \in DOMAIN s : i < j =>
                  \E k, l \in DOMAIN channels :
                      k < l /\ channels[k] = s[i] /\ channels[l] = s[j]}

irc_server_handle_connect ==
    /\ Handles("001")
    /\ \E todo \in ConnectJoins :
          LET s == [i \in DOMAIN todo |-> ChLine("JOIN", todo[i])]
          IN  /\ irc_server_send(s)
              /\ astray' = astray \cup Refused(outq, s)
    /\ UNCHANGED <<botVars, netVars, steady>>

\* 005 PREFIX.
irc_server_handle_support ==
    /\ Handles("005")
    /\ prefixes' = Msg.prefixes
    /\ UNCHANGED <<link, flags, nickname, channels, joined, users, voice, whois,
                   outq, netVars, histVars>>

irc_server_handle_invite ==
    /\ Handles("INVITE")
    /\ LET s == IF "JOIN_INVITE" \in flags THEN JoinLines(Msg.ch, joined) ELSE <<>>
       IN  /\ irc_server_send(s)
           /\ astray' = astray \cup Refused(outq, s)
    /\ channels' = IF "JOIN_INVITE" \in flags
                   THEN irc_server_channels_add(Msg.ch) ELSE channels
    /\ UNCHANGED <<flags, nickname, prefixes, joined, users, voice, whois,
                   netVars, steady>>

\* Whoever joins, the channel is marked; the nickname is not added to it.
irc_server_handle_join ==
    /\ Handles("JOIN")
    /\ channels' = irc_server_channels_add(Msg.ch)
    /\ joined' = joined \cup {Msg.ch}
    /\ astray' = astray \ Settled(Msg.who = real)
    /\ UNCHANGED <<link, flags, nickname, prefixes, users, voice, whois,
                   outq, netVars, steady>>

\* The bot's own kick clears the channel, flag included, and may rejoin it.
KeepFlag(c) == joined \cup {c}
KickedFlag(c) == joined \ {c}

irc_server_handle_kick ==
    /\ Handles("KICK")
    /\ channels' = irc_server_channels_add(Msg.ch)
    /\ \/ /\ irc_server_is_self(Msg.who)
          /\ joined' = KickedFlag(Msg.ch)
          /\ irc_channel_clear(Msg.ch)
          /\ LET s == IF "AUTO_REJOIN" \in flags THEN JoinLines(Msg.ch, joined') ELSE <<>>
             IN  /\ irc_server_send(s)
                 /\ astray' = (astray \ Settled(TRUE)) \cup Refused(outq, s)
       \/ /\ ~irc_server_is_self(Msg.who)
          /\ joined' = joined \cup {Msg.ch}
          /\ irc_channel_remove(Msg.ch, Msg.who)
          /\ UNCHANGED <<link, outq, astray>>
    /\ UNCHANGED <<flags, nickname, prefixes, whois, netVars, steady>>

\* The bot's own PART removes the channel.  Another's does not remove its user,
\* who is looked up by full prefix, and aborts when the channel is not listed.
irc_server_handle_part ==
    /\ Handles("PART")
    /\ \/ /\ irc_server_is_self(Msg.who)
          /\ irc_server_channels_remove(Msg.ch)
          /\ astray' = astray \ Settled(TRUE)
          /\ UNCHANGED link
       \/ /\ ~irc_server_is_self(Msg.who)
          /\ link' = IF Msg.ch \in Listed THEN link ELSE "dead"
          /\ UNCHANGED <<channels, joined, users, voice, astray>>
    /\ UNCHANGED <<flags, nickname, prefixes, whois, outq, netVars, steady>>

\* The bot is compared with the nickname it goes by, not with the new one.
RenamedFrom(old, new) == IF irc_server_is_self(new) THEN old ELSE nickname
Renamed(old, new) == IF irc_server_is_self(old) THEN new ELSE nickname

irc_server_handle_nick ==
    /\ Handles("NICK")
    /\ nickname' = Renamed(Msg.who, Msg.new)
    /\ UNCHANGED <<link, flags, prefixes, channels, joined, users, voice, whois,
                   outq, netVars, histVars>>

\* Index in server->prefixes, from 0; 0 also stands for a mode not found.
irc_server_modes_find(m) ==
    IF \E i \in DOMAIN prefixes : prefixes[i] = m
    THEN (CHOOSE i \in DOMAIN prefixes : prefixes[i] = m) - 1 ELSE 0

\* Where the argument of letter k of a MODE message is: every letter counts for
\* an argument.
ArgOfKnown(letters, k) ==
    1 + Cardinality({j \in 1..(k - 1) : irc_server_modes_find(letters[j]) # 0})
ArgOf(letters, k) == k

\* The users whose mode v the message changes.
VoicesOf(msg) ==
    {msg.args[ArgOf(msg.letters, k)] : k \in
        {k \in DOMAIN msg.letters :
            msg.letters[k] = "v" /\ ArgOf(msg.letters, k) \in DOMAIN msg.args}}

\* Of the modes that prefixes has, the one at index 0 passes for unknown.
irc_server_handle_mode ==
    /\ Handles("MODE")
    /\ voice' =
         IF Msg.ch \notin Listed \/ irc_server_modes_find("v") = 0 THEN voice
         ELSE [voice EXCEPT ![Msg.ch] =
                 IF Msg.add THEN @ \cup (VoicesOf(Msg) \cap users[Msg.ch])
                 ELSE @ \ VoicesOf(Msg)]
    /\ UNCHANGED <<link, flags, nickname, prefixes, channels, joined, users, whois,
                   outq, netVars, histVars>>

\* 353.
irc_server_handle_names ==
    /\ Handles("353")
    /\ channels' = irc_server_channels_add(Msg.ch)
    /\ joined' = joined \cup {Msg.ch}
    /\ irc_channel_add(Msg.ch, Msg.names, Msg.voiced)
    /\ UNCHANGED <<link, flags, nickname, prefixes, whois, outq, netVars, histVars>>

\* PING, and a CTCP request in a PRIVMSG: an answer is sent.
irc_server_handle_ping ==
    /\ Handles("PING")
    /\ irc_server_send(<<Line("TEXT")>>)
    /\ UNCHANGED <<botVars, netVars, histVars>>

\* 366, 433, ERROR, NOTICE, TOPIC, other PRIVMSG: nothing but a log or an event.
irc_server_handle_event ==
    /\ Handles("433")
    /\ UNCHANGED <<link, botVars, outq, netVars, histVars>>

\* 311: from here the consumer takes messages in the handler.
irc_server_handle_whoisuser ==
    /\ Handles("311")
    /\ whois' = TRUE
    /\ UNCHANGED <<link, flags, nickname, prefixes, channels, joined, users, voice,
                   outq, netVars, histVars>>

\* Every message is taken, and all but 319 are dropped, until a 318.
irc_server_whois_pull ==
    /\ link \in {"down", "up", "lost"} /\ whois /\ inq # <<>>
    /\ inq' = Tail(inq)
    /\ whois' = (Msg.cmd # "318")
    /\ astray' = astray
          \cup {c \in Channels : Msg.cmd = "001" \/ ("ch" \in DOMAIN Msg /\ Msg.ch = c)}
          \cup {x \in {"nickname"} : Msg.cmd = "NICK"}
    /\ UNCHANGED <<link, flags, nickname, prefixes, channels, joined, users, voice,
                   outq, netVars, steady>>

-----------------------------------------------------------------------------
(* Calls of plugins, irccdctl and the configuration.                       *)

Alive == link # "dead"

irc_server_join(c) ==
    /\ Alive
    /\ channels' = irc_server_channels_add(c)
    /\ irc_server_send(JoinLines(c, joined))
    /\ astray' = astray \cup (IF Ready THEN Refused(outq, JoinLines(c, joined)) ELSE {})
    /\ UNCHANGED <<flags, nickname, prefixes, joined, users, voice, whois, inq,
                   netVars, steady>>

\* irc_server_part, and the calls that only send a line: WHOIS, and the rest.
irc_server_part(line) ==
    /\ Alive /\ Ready
    /\ irc_server_send(<<line>>)
    /\ UNCHANGED <<botVars, inq, netVars, histVars>>

NicknameAfter(n) == IF Ready THEN nickname ELSE n

irc_server_set_nickname(n) ==
    /\ Alive
    /\ irc_server_send(<<[cmd |-> "NICK", new |-> n]>>)
    /\ nickname' = NicknameAfter(n)
    /\ UNCHANGED <<flags, prefixes, channels, joined, users, voice, whois, inq,
                   netVars, histVars>>

irc_server_connect ==
    /\ link = "off" /\ link' = "down"
    /\ UNCHANGED <<botVars, inq, outq, netVars, histVars>>

\* irc_server_disconnect, from outside of a handler of this server.  The
\* channels stay listed; the session ends for the network too.
NoSession ==
    /\ sess' = "none" /\ in' = {}
    /\ steady' = [c \in Channels |-> {}]
    /\ UNCHANGED <<real, members, netvoice>>

irc_server_disconnect ==
    /\ link \in {"down", "up", "lost"} /\ link' = "off"
    /\ irc_server_channels_clear
    /\ irc_server_clear
    /\ inq' = <<>> /\ outq' = <<>> /\ whois' = FALSE
    /\ NoSession /\ astray' = {}
    /\ UNCHANGED <<flags, nickname, channels>>

-----------------------------------------------------------------------------
(* The connection, as module Conn has it.                                  *)

\* conn_connect and conn_ident: the handshake goes behind what waits from an
\* earlier session.
ConnUp ==
    /\ link = "down" /\ link' = "up"
    /\ outq' = Pushed(outq, <<[cmd |-> "USER", new |-> nickname]>>)
    /\ astray' = (astray \ {"nickname"}) \cup (IF Len(outq) < OutCap THEN {} ELSE {"nickname"})
    /\ UNCHANGED <<botVars, inq, netVars, steady>>

\* The connection fails: conn_ready puts 000 behind the message already stored;
\* a timeout, or a failure in conn_ident, leaves what was received (bound: one
\* message; the network part of inq is lost).
ConnLost ==
    /\ link = "up" /\ link' = "lost"
    /\ \E n \in 0..(IF inq = <<>> THEN 0 ELSE 1) :
          \/ inq' = SubSeq(inq, 1, n)
          \/ inq' = Append(SubSeq(inq, 1, n), Line("000"))
    /\ NoSession
    /\ astray' = astray \cup joined
        \cup {inq[i].ch : i \in {k \in DOMAIN inq : "ch" \in DOMAIN inq[k]}}
    /\ UNCHANGED <<botVars, outq>>

\* The delay elapses; the waiting messages were taken long before.
ConnRetry ==
    /\ link = "lost" /\ inq = <<>> /\ link' = "down"
    /\ UNCHANGED <<botVars, inq, outq, netVars, histVars>>

-----------------------------------------------------------------------------
(* The network (external).                                                 *)

NetReads(cmd) ==
    /\ link = "up" /\ Len(inq) < InCap
    /\ outq # <<>> /\ Head(outq).cmd = cmd
    /\ outq' = Tail(outq)

\* USER stands for the NICK and USER lines of a handshake.  It, or a NICK after
\* it was refused, registers the session unless another has the nickname.  The
\* bot does not learn from it the nickname it goes by, which is another when it
\* was changed after that line was pushed.
NetRegisters ==
    /\ \/ NetReads("USER") /\ sess # "reg"
       \/ NetReads("NICK") /\ sess = "refused"
    /\ \/ /\ Head(outq).new \in Others
          /\ sess' = "refused"
          /\ inq' = Append(inq, Line("433"))
          /\ UNCHANGED <<real, astray>>
       \/ /\ Head(outq).new \notin Others
          /\ sess' = "reg" /\ real' = Head(outq).new
          /\ astray' = IF real' = nickname THEN astray ELSE astray \cup {"nickname"}
          /\ inq' = inq \o <<Line("001"), [cmd |-> "005", prefixes |-> <<"o", "v">>]>>
    /\ UNCHANGED <<link, botVars, in, members, netvoice, steady>>

\* In a registered session a second handshake, behind one that waited from an
\* earlier session, only changes the nickname.
NetNick ==
    /\ NetReads("NICK") \/ NetReads("USER")
    /\ sess = "reg"
    /\ \/ /\ Head(outq).new \in Others
          /\ inq' = Append(inq, Line("433"))
          /\ astray' = IF Head(outq).cmd = "USER" THEN astray \cup {"nickname"} ELSE astray
          /\ UNCHANGED real
       \/ /\ Head(outq).new \notin Others
          /\ real' = Head(outq).new
          /\ inq' = Append(inq, [cmd |-> "NICK", who |-> real, new |-> real'])
          /\ UNCHANGED astray
    /\ UNCHANGED <<link, botVars, sess, in, members, netvoice, steady>>

\* The bot holds users of the channel from an earlier stay in it, and no line
\* on its way tells it to forget them: NAMES will leave their modes alone.
Outdated(c) ==
    /\ users[c] # {}
    /\ whois \/ ~\E i \in DOMAIN inq :
          inq[i].cmd \in {"KICK", "PART"} /\ inq[i].ch = c /\ inq[i].who \notin Others

\* JOIN is answered by the JOIN itself and the names.
NetJoin ==
    LET c == Head(outq).ch
    IN  /\ NetReads("JOIN") /\ sess = "reg" /\ c \notin in
        /\ in' = in \cup {c}
        /\ steady' = [steady EXCEPT ![c] = IF Outdated(c) THEN {} ELSE members[c]]
        /\ inq' = inq \o
              <<[cmd |-> "JOIN", who |-> real, ch |-> c],
                [cmd |-> "353", ch |-> c,
                 names |-> members[c] \cup {real}, voiced |-> netvoice[c]]>>
        /\ UNCHANGED <<link, botVars, sess, real, members, netvoice, astray>>

NetPart ==
    /\ NetReads("PART") /\ sess = "reg" /\ Head(outq).ch \in in
    /\ in' = in \ {Head(outq).ch}
    /\ inq' = Append(inq, [cmd |-> "PART", who |-> real, ch |-> Head(outq).ch])
    /\ UNCHANGED <<link, botVars, sess, real, members, netvoice, histVars>>

NetWhois ==
    /\ NetReads("WHOIS") /\ sess = "reg"
    /\ inq' = inq \o <<Line("311"), Line("318")>>
    /\ UNCHANGED <<link, botVars, netVars, histVars>>

\* What has no effect: text, what is asked before the registration or for a
\* channel the bot is already, or is not, in.
NetIgnores ==
    /\ \/ NetReads("TEXT")
       \/ NetReads("NICK") /\ sess = "none"
       \/ \E cmd \in {"JOIN", "PART", "WHOIS"} : NetReads(cmd) /\ sess # "reg"
       \/ NetReads("JOIN") /\ Head(outq).ch \in in
       \/ NetReads("PART") /\ Head(outq).ch \notin in
    /\ UNCHANGED <<link, botVars, inq, netVars, histVars>>

NetSends(m) ==
    /\ link = "up" /\ sess = "reg" /\ Len(inq) < InCap
    /\ inq' = Append(inq, m)
    /\ UNCHANGED <<link, botVars, outq, sess, real, astray>>

NetText ==
    /\ \/ NetSends(Line("PING"))
       \/ \E c \in Channels : NetSends(ChLine("INVITE", c))
    /\ UNCHANGED <<in, members, netvoice, steady>>

\* A user joins, parts, or is kicked from, a channel the bot is in.
NetUserJoins(c, u) ==
    /\ c \in in /\ u \notin members[c]
    /\ NetSends([cmd |-> "JOIN", who |-> u, ch |-> c])
    /\ members' = [members EXCEPT ![c] = @ \cup {u}]
    /\ UNCHANGED <<in, netvoice, steady>>

NetUserLeaves(c, u, cmd) ==
    /\ c \in in /\ u \in members[c]
    /\ NetSends([cmd |-> cmd, who |-> u, ch |-> c])
    /\ members' = [members EXCEPT ![c] = @ \ {u}]
    /\ netvoice' = [netvoice EXCEPT ![c] = @ \ {u}]
    /\ steady' = [steady EXCEPT ![c] = @ \ {u}]
    /\ UNCHANGED in

NetKicksBot(c) ==
    /\ c \in in
    /\ NetSends([cmd |-> "KICK", who |-> real, ch |-> c])
    /\ in' = in \ {c}
    /\ UNCHANGED <<members, netvoice, steady>>

\* The arguments of those letters that have one, in their order.
ArgsFor(letters, u) ==
    LET at == {k \in DOMAIN letters : letters[k] # "n"}
        nth(i) == CHOOSE k \in at : Cardinality({j \in at : j <= k}) = i
    IN  [i \in 1..Cardinality(at) |-> IF letters[nth(i)] = "b" THEN "mask" ELSE u]

\* A MODE message: letters o and v are for user u, b has a mask as argument and
\* n has none.
NetMode(c, u, add, letters) ==
    /\ c \in in /\ u \in members[c]
    /\ NetSends([cmd |-> "MODE", ch |-> c, add |-> add, letters |-> letters,
                 args |-> ArgsFor(letters, u)])
    /\ netvoice' = IF "v" \notin Range(letters) THEN netvoice
                   ELSE [netvoice EXCEPT ![c] = IF add THEN @ \cup {u} ELSE @ \ {u}]
    /\ UNCHANGED <<in, members, steady>>

-----------------------------------------------------------------------------
Init ==
    /\ link = "off" /\ flags \in FlagChoices
    /\ nickname \in BotNicks /\ prefixes = <<>>
    /\ channels = <<>> /\ joined = {}
    /\ users = [c \in Channels |-> {}] /\ voice = [c \in Channels |-> {}]
    /\ inq = <<>> /\ outq = <<>> /\ whois = FALSE
    /\ sess = "none" /\ real = nickname /\ in = {}
    /\ members = [c \in Channels |-> {}]
    /\ netvoice = [c \in Channels |-> {}]
    /\ steady = [c \in Channels |-> {}] /\ astray = {}

Handlers ==
    \/ irc_server_handle_disconnect \/ irc_server_handle_connect
    \/ irc_server_handle_support \/ irc_server_handle_invite
    \/ irc_server_handle_join \/ irc_server_handle_kick \/ irc_server_handle_part
    \/ irc_server_handle_nick \/ irc_server_handle_mode \/ irc_server_handle_names
    \/ irc_server_handle_ping \/ irc_server_handle_event
    \/ irc_server_handle_whoisuser \/ irc_server_whois_pull

Calls ==
    \/ \E c \in Channels : irc_server_join(c) \/ irc_server_part(ChLine("PART", c))
    \/ irc_server_part(Line("WHOIS"))
    \/ \E n \in Nicks : irc_server_set_nickname(n)
    \/ irc_server_connect \/ irc_server_disconnect

NetAnswers ==
    NetRegisters \/ NetNick \/ NetJoin \/ NetPart \/ NetWhois \/ NetIgnores

Network ==
    \/ NetAnswers \/ NetText
    \/ \E c \in Channels :
          \/ NetKicksBot(c)
          \/ \E u \in Others :
                \/ NetUserJoins(c, u)
                \/ \E cmd \in {"PART", "KICK"} : NetUserLeaves(c, u, cmd)
                \/ \E add \in BOOLEAN, s \in ModeStrings : NetMode(c, u, add, s)

Next == Handlers \/ Calls \/ ConnUp \/ ConnLost \/ ConnRetry \/ Network
    \/ (link = "dead" /\ UNCHANGED vars)

Spec == Init /\ [][Next]_vars
-----------------------------------------------------------------------------
(* Properties.                                                             *)

TypeOK ==
    /\ link \in {"off", "down", "up", "lost", "dead"}
    /\ flags \subseteq {"AUTO_REJOIN", "JOIN_INVITE"} /\ nickname \in Nicks
    /\ prefixes \in {<<>>, <<"o", "v">>}
    /\ channels \in Seq(Channels) /\ IsInjective(channels)
    /\ joined \subseteq Listed
    /\ users \in [Channels -> SUBSET Nicks]
    /\ voice \in [Channels -> SUBSET Nicks]
    /\ \A c \in Channels : users[c] # {} => c \in Listed
    /\ Len(outq) <= OutCap /\ whois \in BOOLEAN
    /\ sess \in {"none", "refused", "reg"} /\ real \in Nicks /\ in \subseteq Channels
    /\ members \in [Channels -> SUBSET Others]
    /\ netvoice \in [Channels -> SUBSET Others]
    /\ steady \in [Channels -> SUBSET Others] /\ astray \subseteq Channels \cup {"nickname"}

\* A registered session with nothing under way and nothing lost on the bot.
AtRest == link = "up" /\ sess = "reg" /\ inq = <<>> /\ outq = <<>> /\ ~whois
Sure == Channels \ (IF "nickname" \in astray THEN Channels ELSE astray)

\* At rest the bot knows the channels it is in: whatever the order of joins,
\* kicks, parts and reconnections, the flag is what the network has.
MembershipKnown == AtRest => \A c \in Sure : c \in joined <=> c \in in

\* "Automatically rejoin a channel after being kicked", and channels asked for
\* before the connection: at rest the bot is in every channel it lists.
ListedJoined ==
    AtRest /\ "AUTO_REJOIN" \in flags => \A c \in Sure : c \in Listed => c \in in

\* The nickname the bot goes by is the network's, a change under way aside.
NicknameKnown ==
    sess = "reg" /\ "nickname" \notin astray
        /\ (\A i \in DOMAIN inq : inq[i].cmd # "NICK")
        /\ (\A i \in DOMAIN outq : outq[i].cmd \notin {"NICK", "USER"}) => nickname = real

\* The voice of a user who stayed in the channel, which NAMES gives and MODE
\* messages of several letters change, is what the network has.
VoiceKnown ==
    AtRest => \A c \in Sure \cap in : \A u \in users[c] \cap steady[c] :
        u \in voice[c] <=> u \in netvoice[c]

\* A channel the bot is in is forgotten only with its JOIN still to come.
NotForgotten ==
    [][\A c \in Listed : c \in Sure \cap in /\ c \notin Range(channels') =>
         \E i \in DOMAIN inq' : inq'[i].cmd = "JOIN" /\ inq'[i].ch = c]_vars

-----------------------------------------------------------------------------
(* What comments of the code say that does not hold of it.                 *)

\* channel.h: IRC_CHANNEL_FLAGS_JOINED is "Channel is joined".
JoinedIsJoined == AtRest => \A c \in joined : c \in in

=============================================================================
