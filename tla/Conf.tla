-------------------------------- MODULE Conf --------------------------------
(***************************************************************************)
(* conf_open of irccd/conf.c: the configuration file is read by two        *)
(* coroutines, a lexer that edits the text in place to cut strings out of  *)
(* it and a parser that is handed one token at a time, and is then applied *)
(* section by section.                                                     *)
(*                                                                         *)
(* The text is a sequence of symbols: a word, a blank, a newline or one of *)
(* the marks { } , # ".  A token of type "string" holds where it begins in *)
(* the text, as in the code; what it says is read from the text, up to the *)
(* next NUL, at the time the parser looks at it.  Strings are sequences of *)
(* symbols.  Line and column numbers are left out.                         *)
(***************************************************************************)
EXTENDS Integers, Sequences, SequencesExt, FiniteSetsExt, Log, Loader

CONSTANTS
    Texts,      \* the files
    Numerals,   \* the words strtonum(3) accepts, with their value
    Users,      \* the words getpwnam(3) and getgrnam(3) know
    LogFiles    \* the names fopen(3) opens

ASSUME ConfAssumption ==
    /\ Texts \subseteq Seq(STRING)
    /\ \A w \in DOMAIN Numerals : Numerals[w] \in Int

VARIABLES
    file,       \* the file as it was read
    text, off,  \* conf->text, conf->off
    lex, save,  \* where the lexer yielded, and its saved character
    store,      \* the storage of the parser coroutine: at most one token
    pc,         \* where the parser pulls its next token
    conf, cur,  \* the sections read so far, the section being read
    at,         \* what runs: a coroutine, a step of conf_open, or how it ended
    bot, log,   \* what was registered, the logger
    pulled      \* history: the tokens the parser took

lexer  == <<file, text, off, lex, save>>
result == <<bot, log>>

NUL    == "NUL"
Blanks == {" ", "\n"}
Marks  == {"{", "}", ",", "#", "quote"}

-----------------------------------------------------------------------------
(* {{{ lex                                                                 *)

\* The first place from i on that holds one of S or the end.
First(t, i, S) == Min({j \in i..Len(t) : t[j] \in S \cup {NUL}})

conf_lex_bskip(t, i) == Min({j \in i..Len(t) : t[j] \notin Blanks})

conf_lex_comment(t, i) == conf_lex_bskip(t, First(t, i + 1, {"\n"}))

\* The rounds of conf_lex_entry that yield nothing.
Past(t, i) ==
    LET skip[j \in 1..Len(t)] == IF t[j] = "#" THEN skip[conf_lex_comment(t, j)] ELSE j
    IN  skip[i]

\* The text after the lexer was resumed, and where it then looks.
NeverRestored == text
Restored == IF lex = "string" THEN [text EXCEPT ![off] = save] ELSE text
Here == Past(Restored, IF lex = "start" THEN off ELSE conf_lex_bskip(Restored, off))
Seen == Restored[Here]

\* nce_coro_push: the token is stored and the lexer yields until it is taken.
conf_lex_yield(type, data, t, o, l) ==
    /\ store' = <<[type |-> type, data |-> data]>>
    /\ text' = t /\ off' = o /\ lex' = l
    /\ at' = "parser"

conf_lex_yield0 ==
    /\ Seen \in {"{", "}", ","}
    /\ conf_lex_yield(Seen, 0, Restored, Here + 1, "mark")
    /\ UNCHANGED save

conf_lex_string ==
    /\ Seen \notin Marks \cup Blanks \cup {NUL}
    /\ LET end == First(Restored, Here, Marks \cup Blanks) IN
       /\ save' = Restored[end]
       /\ conf_lex_yield("string", Here, [Restored EXCEPT ![end] = NUL], end, "string")

conf_lex_qstring ==
    /\ Seen = "quote"
    /\ LET end == First(Restored, Here + 1, {"quote"}) IN
       IF Restored[end] = NUL
       THEN at' = "failed" /\ UNCHANGED <<text, off, lex, store, save>>
       ELSE /\ conf_lex_yield("string", Here + 1, [Restored EXCEPT ![end] = NUL], end + 1, "mark")
            /\ UNCHANGED save

conf_lex_eof ==
    /\ Seen = NUL
    /\ conf_lex_yield("eof", 0, Restored, Here, "eof")
    /\ UNCHANGED save

\* assert(!isspace(*conf->off)): nothing skips the blanks before the first token.
conf_lex_blank ==
    /\ Seen \in Blanks
    /\ at' = "aborted"
    /\ UNCHANGED <<text, off, lex, store, save>>

conf_lex_entry ==
    /\ at = "lex" /\ lex # "eof"
    /\ \/ conf_lex_yield0 \/ conf_lex_string \/ conf_lex_qstring \/ conf_lex_eof \/ conf_lex_blank
    /\ UNCHANGED <<file, pc, conf, cur, result, pulled>>

-----------------------------------------------------------------------------
(* {{{ parse.  A parser action is guarded by the place it pulls at.        *)

Tok == store[1]
IsString == Tok.type = "string"
Str == IF IsString THEN SubSeq(text, Tok.data, First(text, Tok.data, {}) - 1) ELSE <<>>
Says(w) == IsString /\ Str = <<w>>

Go(q)     == pc' = q /\ UNCHANGED <<conf, cur, at>>
Set(q, c) == pc' = q /\ conf' = c /\ UNCHANGED <<cur, at>>
Put(q, k) == pc' = q /\ cur' = k /\ UNCHANGED <<conf, at>>
Fatal     == at' = "failed" /\ UNCHANGED <<pc, conf, cur>>

Pulls(p) == at = "parser" /\ pc = p /\ store # <<>> /\ UNCHANGED <<lexer, result>>
Take     == store' = <<>> /\ pulled' = Append(pulled, [type |-> Tok.type, str |-> Str])
Queue    == UNCHANGED <<store, pulled>>

\* conf_next: at the end of the file the parser goes off for good.
conf_next(p, then) ==
    /\ Pulls(p) /\ Take
    /\ IF Tok.type = "eof" THEN Go(<<"off">>) ELSE then

conf_next_is(p, is, yes, no) ==
    /\ Pulls(p)
    /\ IF is THEN Take /\ yes ELSE Queue /\ no

conf_string(p, then)        == conf_next(p, IF IsString THEN then ELSE Fatal)
conf_begin(p, then)         == conf_next(p, IF Tok.type = "{" THEN then ELSE Fatal)
conf_end(p, then)           == conf_next(p, IF Tok.type = "}" THEN then ELSE Fatal)
conf_string_is(p, w, yes, no) == conf_next_is(p, Says(w), yes, no)
conf_keyword(p, w, then)    == conf_string_is(p, w, then, Fatal)
conf_begin_is(p, yes, no)   == conf_next_is(p, Tok.type = "{", yes, no)

IsNumber(s) == Len(s) = 1 /\ s[1] \in DOMAIN Numerals
conf_int(s) == Numerals[s[1]]

\* conf_resolve_uid, conf_resolve_gid.
Resolves(s) == IsNumber(s) \/ (Len(s) = 1 /\ s[1] \in Users)

\* A section: its name or action, what is held for the next step, its settings.
Section(name) == [name |-> name, held |-> <<>>, items |-> <<>>]
With(items)   == [cur EXCEPT !.items = @ \o items]
Holding(s)    == [cur EXCEPT !.held = s]
Topic         == <<"topic">>
Named(sections, name) == \E i \in DOMAIN sections : sections[i].name = name

conf_parse_log ==
    \/ conf_string_is(<<"log">>, "verbose",
           Set(<<"log", "template">>, [conf EXCEPT !.log.level = TRUE]), Go(<<"log", "quiet">>))
    \/ conf_string_is(<<"log", "quiet">>, "quiet",
           Set(<<"log", "template">>, [conf EXCEPT !.log.level = FALSE]), Go(<<"log", "template">>))
    \/ conf_string_is(<<"log", "template">>, "template", Go(<<"log", "format">>), Go(<<"log", "to">>))
    \/ conf_string(<<"log", "format">>, Set(<<"log", "to">>, [conf EXCEPT !.log.template = <<Str>>]))
    \/ conf_keyword(<<"log", "to">>, "to", Go(<<"log", "console">>))
    \/ conf_string_is(<<"log", "console">>, "console",
           Set(Topic, [conf EXCEPT !.log.type = "console"]), Go(<<"log", "syslog">>))
    \/ conf_string_is(<<"log", "syslog">>, "syslog",
           Set(Topic, [conf EXCEPT !.log.type = "syslog"]), Go(<<"log", "file">>))
    \/ conf_string_is(<<"log", "file">>, "file",
           Set(<<"log", "path">>, [conf EXCEPT !.log.type = "file"]), Fatal)
    \/ conf_string(<<"log", "path">>, Set(Topic, [conf EXCEPT !.log.file = <<Str>>]))

conf_parse_transport ==
    \/ conf_string_is(<<"transport">>, "with", Go(<<"transport", "uid">>), Go(<<"transport", "to">>))
    \/ conf_keyword(<<"transport", "uid">>, "uid", Go(<<"transport", "user">>))
    \/ conf_string(<<"transport", "user">>, IF Resolves(Str) THEN Go(<<"transport", "gid">>) ELSE Fatal)
    \/ conf_keyword(<<"transport", "gid">>, "gid", Go(<<"transport", "group">>))
    \/ conf_string(<<"transport", "group">>, IF Resolves(Str) THEN Go(<<"transport", "to">>) ELSE Fatal)
    \/ conf_keyword(<<"transport", "to">>, "to", Go(<<"transport", "path">>))
    \/ conf_string(<<"transport", "path">>, Set(Topic, [conf EXCEPT !.tpt = <<Str>>]))

conf_parse_hook ==
    \/ conf_string(<<"hook">>,
           IF Named(conf.hooks, Str) THEN Fatal ELSE Put(<<"hook", "to">>, Section(Str)))
    \/ conf_keyword(<<"hook", "to">>, "to", Go(<<"hook", "path">>))
    \/ conf_string(<<"hook", "path">>,
           Set(Topic, [conf EXCEPT !.hooks = Append(@, [cur EXCEPT !.items = <<Str>>])]))

-----------------------------------------------------------------------------
(* {{{ server.  The settings are kept in the order they were made.         *)

Directive == <<"server", "directive">>

Setting(f) == conf_string(<<"server", f>>, Put(Directive, With(<<<<f, Str>>>>)))
conf_parse_server_hostname == Setting("hostname")
conf_parse_server_prefix   == Setting("prefix")
conf_parse_server_password == Setting("password")
conf_parse_server_ssl      == Put(Directive, With(<<<<"flag", Str>>>>))

MAXPORT == 65535
conf_parse_server_port ==
    conf_string(<<"server", "port">>,
        IF IsNumber(Str) /\ conf_int(Str) > 0 /\ conf_int(Str) < MAXPORT
        THEN Put(Directive, With(<<<<"port", conf_int(Str)>>>>)) ELSE Fatal)

conf_parse_server_ident ==
    \/ conf_string(<<"server", "ident">>, Put(<<"server", "username">>, With(<<<<"nickname", Str>>>>)))
    \/ conf_string(<<"server", "username">>, Put(<<"server", "realname">>, With(<<<<"username", Str>>>>)))
    \/ conf_string(<<"server", "realname">>, Put(Directive, With(<<<<"realname", Str>>>>)))

conf_parse_server_join ==
    \/ conf_string_is(<<"server", "join">>, "with", Go(<<"server", "with">>), Go(<<"server", "channel">>))
    \/ conf_keyword(<<"server", "with">>, "password", Go(<<"server", "locked">>))
    \/ conf_string(<<"server", "channel">>, Put(Directive, With(<<<<"join", Str>>>>)))
    \/ conf_string(<<"server", "locked">>, Put(<<"server", "key">>, Holding(Str)))
    \/ conf_string(<<"server", "key">>, Put(Directive, With(<<<<"join", cur.held, Str>>>>)))

conf_parse_server_ctcp ==
    \/ conf_begin(<<"server", "ctcp">>, Go(<<"ctcp", "key">>))
    \/ conf_next_is(<<"ctcp", "key">>, IsString, Put(<<"ctcp", "value">>, Holding(Str)), Go(<<"ctcp", "end">>))
    \/ conf_string(<<"ctcp", "value">>, Put(<<"ctcp", "key">>, With(<<<<"ctcp", cur.held, Str>>>>)))
    \/ conf_end(<<"ctcp", "end">>, Go(Directive))

conf_parse_server_options ==
    conf_next(<<"server", "options">>,
        CASE Says("AUTO-REJOIN") \/ Says("JOIN-INVITE")
                             -> Put(<<"server", "options">>, With(<<<<"flag", Str>>>>))
          [] Tok.type = "}"  -> Go(Directive)
          [] OTHER           -> Fatal)

ServerTopics == {"hostname", "port", "prefix", "ident", "password", "join", "ctcp", "options"}

\* A word that is no directive is passed over, and so are the strings behind it.
conf_parse_server_directive ==
    conf_next_is(Directive, IsString,
        CASE \E f \in ServerTopics : Says(f) -> Go(<<"server">> \o Str)
          [] Says("ssl")                     -> conf_parse_server_ssl
          [] OTHER                           -> Go(Directive),
        Go(<<"server", "end">>))

Required == {"hostname", "nickname", "username", "realname"}

conf_parse_server ==
    \/ conf_string(<<"server">>,
           IF Named(conf.servers, Str) THEN Fatal ELSE Put(<<"server", "begin">>, Section(Str)))
    \/ conf_begin(<<"server", "begin">>, Go(Directive))
    \/ conf_parse_server_directive
    \/ conf_parse_server_hostname
    \/ conf_parse_server_port
    \/ conf_parse_server_prefix
    \/ conf_parse_server_password
    \/ conf_parse_server_ident
    \/ conf_parse_server_join
    \/ conf_parse_server_ctcp
    \/ conf_parse_server_options
    \/ conf_end(<<"server", "end">>,
           IF Required \subseteq {cur.items[i][1] : i \in DOMAIN cur.items}
           THEN Set(Topic, [conf EXCEPT !.servers = Append(@, cur)]) ELSE Fatal)

-----------------------------------------------------------------------------
(* {{{ rule, {{{ plugin                                                    *)

Criteria == {"servers", "channels", "origins", "plugins", "events"}

conf_parse_rule_criteria ==
    \/ conf_begin(<<"rule", "list">>, Go(<<"rule", "value">>))
    \/ conf_next_is(<<"rule", "value">>, IsString,
           Put(<<"rule", "comma">>, With(<<<<cur.held, Str>>>>)), Go(<<"rule", "listed">>))
    \/ conf_next_is(<<"rule", "comma">>, Tok.type = ",", Go(<<"rule", "value">>), Go(<<"rule", "listed">>))
    \/ conf_end(<<"rule", "listed">>, Go(<<"rule", "criteria">>))

EndRule(r) == Set(Topic, [conf EXCEPT !.rules = Append(@, r)])

conf_parse_rule ==
    \/ conf_string_is(<<"rule">>, "accept",
           Put(<<"rule", "begin">>, Section(<<"accept">>)), Go(<<"rule", "drop">>))
    \/ conf_string_is(<<"rule", "drop">>, "drop", Put(<<"rule", "begin">>, Section(<<"drop">>)), Fatal)
    \/ conf_begin_is(<<"rule", "begin">>, Go(<<"rule", "criteria">>), EndRule(cur))
    \/ conf_next(<<"rule", "criteria">>,
           CASE \E c \in Criteria : Says(c) -> Put(<<"rule", "list">>, Holding(Str))
             [] Tok.type = "}"              -> EndRule(cur)
             [] OTHER                       -> Fatal)
    \/ conf_parse_rule_criteria

\* What plugin.c hands to set_option, set_path or set_template of the plugin.
irc_plugin_set_option(key, value)   == <<<<"option", key, value>>>>
irc_plugin_set_path(key, value)     == <<<<"path", key, value>>>>
irc_plugin_set_template(key, value) == <<<<"template", key, value>>>>
Setter(what, key, value) ==
    CASE what = "config"   -> irc_plugin_set_option(key, value)
      [] what = "template" -> irc_plugin_set_template(key, value)
      [] OTHER             -> irc_plugin_set_path(key, value)

conf_parse_plugin_options ==
    \/ conf_begin(<<"plugin", "list">>, Go(<<"plugin", "key">>))
    \/ conf_next_is(<<"plugin", "key">>, IsString,
           Put(<<"plugin", "value">>, Holding(<<cur.held[1], Str>>)), Go(<<"plugin", "listed">>))
    \/ conf_string(<<"plugin", "value">>, Put(<<"plugin", "key">>, With(Setter(cur.held[1], cur.held[2], Str))))
    \/ conf_end(<<"plugin", "listed">>, Go(<<"plugin", "directive">>))

\* irc_bot_plugin_search sets the default paths of what it found.
DefaultPaths == FlattenSeq([i \in 1..3 |->
    irc_plugin_set_path(<<"cache", "data", "config">>[i], <<"default">>)])

Search(location) ==
    IF Named(bot.plugins, cur.name) \/ irc_bot_plugin_search(cur.name, location) = None THEN Fatal
    ELSE Put(<<"plugin", "begin">>, With(DefaultPaths))

EndPlugin == Set(Topic, [conf EXCEPT !.plugins = Append(@, cur)])

conf_parse_plugin ==
    \/ conf_string(<<"plugin">>,
           IF Named(conf.plugins, Str) THEN Fatal ELSE Put(<<"plugin", "to">>, Section(Str)))
    \/ conf_string_is(<<"plugin", "to">>, "to", Go(<<"plugin", "path">>), Search(<<>>))
    \/ conf_string(<<"plugin", "path">>, Search(<<Str>>))
    \/ conf_begin_is(<<"plugin", "begin">>, Go(<<"plugin", "directive">>), EndPlugin)
    \/ conf_next_is(<<"plugin", "directive">>, IsString,
           CASE Says("config") \/ Says("template") -> Put(<<"plugin", "list">>, Holding(Str))
             [] Says("path") \/ Says("paths")      -> Put(<<"plugin", "list">>, Holding(<<"path">>))
             [] OTHER                              -> Fatal,
           Go(<<"plugin", "end">>))
    \/ conf_parse_plugin_options
    \/ conf_end(<<"plugin", "end">>, EndPlugin)

-----------------------------------------------------------------------------
(* The parser coroutine, and conf_open.                                    *)

Topics == {"log", "transport", "hook", "server", "rule", "plugin"}

\* A word that is no section is passed over; a second transport is refused.
conf_parser_topic ==
    conf_string(Topic,
        CASE Says("logs")                             -> Go(<<"log">>)
          [] Says("transport") /\ conf.tpt # <<>>     -> Fatal
          [] \E t \in Topics : Says(t) /\ (t = "transport" => conf.tpt = <<>>)
                                                      -> Go(Str)
          [] OTHER                                    -> Go(Topic))

conf_parser_entry ==
    \/ conf_parser_topic
    \/ conf_parse_log
    \/ conf_parse_transport
    \/ conf_parse_hook
    \/ conf_parse_server
    \/ conf_parse_rule
    \/ conf_parse_plugin

\* nce_coro_pull of an empty storage, or nce_coro_off: the loop of conf_open
\* resumes the lexer, whose push returns as the token was taken.
NeverBreaks ==
    /\ at = "parser" /\ store = <<>>
    /\ at' = IF lex = "eof" THEN "parser" ELSE "lex"
    /\ UNCHANGED <<lexer, store, pc, conf, cur, result, pulled>>
conf_open_loop ==
    /\ at = "parser" /\ store = <<>>
    /\ at' = IF lex = "eof" THEN "apply log" ELSE "lex"
    /\ UNCHANGED <<lexer, store, pc, conf, cur, result, pulled>>

Nothing == [log |-> [level |-> FALSE, template |-> <<>>, type |-> "console", file |-> <<>>],
            rules |-> <<>>, servers |-> <<>>, plugins |-> <<>>, hooks |-> <<>>, tpt |-> <<>>]

\* conf_open up to the loop: open(2) or read(2) may fail.
conf_open(from) ==
    /\ at = from
    /\ at' \in {"parser", "failed"}
    /\ UNCHANGED <<lexer, store, pc, conf, cur, result, pulled>>

-----------------------------------------------------------------------------
(* Applying.  A section leaves conf as it is registered.                   *)

applying == <<lexer, store, pc, cur, pulled>>

\* A message of the given level, then the step `next'; or the process is no more.
Say(level, next) == at' = IF Faults(log, level) THEN "crashed" ELSE next

Sink ==
    CASE conf.log.type = "console" -> irc_log_to_console(log)
      [] conf.log.type = "syslog"  -> irc_log_to_syslog(log)
      [] OTHER -> irc_log_to_file(log, \E f \in LogFiles : conf.log.file = <<f>>)
conf_apply_log ==
    /\ at = "apply log"
    /\ log' = irc_log_set_template(irc_log_set_verbose(Sink, conf.log.level), conf.log.template)
    /\ at' = "apply rules"
    /\ UNCHANGED <<applying, conf, bot>>

RulesDeferred ==
    /\ at = "apply rules"
    /\ at' = "apply servers"
    /\ UNCHANGED <<applying, conf, bot, log>>
conf_apply_rules ==
    /\ at = "apply rules"
    /\ bot' = [bot EXCEPT !.rules = @ \o conf.rules]
    /\ conf' = [conf EXCEPT !.rules = <<>>]
    /\ at' = "apply servers"
    /\ UNCHANGED <<applying, log>>

\* irc_bot_server_add appends; irc_bot_plugin_add and irc_bot_hook_add prepend.
conf_apply_servers ==
    /\ at = "apply servers"
    /\ IF conf.servers = <<>> THEN at' = "apply plugins" /\ UNCHANGED <<conf, bot>>
       ELSE /\ Say("info", "apply servers")
            /\ bot' = [bot EXCEPT !.servers = Append(@, Head(conf.servers))]
            /\ conf' = [conf EXCEPT !.servers = Tail(@)]
    /\ UNCHANGED <<applying, log>>

\* onLoad may fail, and then the plugin is not listed.
conf_apply_plugins ==
    /\ at = "apply plugins"
    /\ IF conf.plugins = <<>> THEN at' = "apply hooks" /\ UNCHANGED <<conf, bot>>
       ELSE /\ conf' = [conf EXCEPT !.plugins = Tail(@)]
            /\ \/ /\ bot' = [bot EXCEPT !.plugins = <<Head(conf.plugins)>> \o @]
                  /\ Say("info", "apply plugins")
               \/ Say("warning", "apply plugins") /\ UNCHANGED bot
    /\ UNCHANGED <<applying, log>>

conf_apply_hooks ==
    /\ at = "apply hooks"
    /\ IF conf.hooks = <<>> THEN at' = "apply transport" /\ UNCHANGED <<conf, bot>>
       ELSE /\ Say("info", "apply hooks")
            /\ bot' = [bot EXCEPT !.hooks = <<Head(conf.hooks)>> \o @]
            /\ conf' = [conf EXCEPT !.hooks = Tail(@)]
    /\ UNCHANGED <<applying, log>>

\* transport_start listens, or the daemon gives up.
conf_apply_transport ==
    /\ at = "apply transport"
    /\ \/ conf.tpt = <<>> /\ at' = "ready" /\ UNCHANGED bot
       \/ conf.tpt # <<>> /\ Say("info", "ready") /\ bot' = [bot EXCEPT !.tpt = conf.tpt]
       \/ conf.tpt # <<>> /\ Say("warning", "failed") /\ UNCHANGED bot
    /\ UNCHANGED <<applying, conf, log>>

conf_apply ==
    conf_apply_log \/ conf_apply_rules \/ conf_apply_servers \/ conf_apply_plugins
    \/ conf_apply_hooks \/ conf_apply_transport
=============================================================================
