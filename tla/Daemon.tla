------------------------------- MODULE Daemon -------------------------------
(***************************************************************************)
(* main of irccd/irccd.c around the configuration: the options, the three  *)
(* commands that only print, reading the configuration, the event loop     *)
(* until a signal, and the end.  What the event loop does is the matter of *)
(* Conn, Server, Bot and Peer; here it only logs.                          *)
(***************************************************************************)
EXTENDS Conf, FiniteSets

CONSTANT Args   \* command lines: [verbose : BOOLEAN, command : STRING]

ASSUME ArgsAssumption ==
    Args \subseteq [verbose : BOOLEAN,
                    command : {"none", "info", "paths", "version", "other", "usage"}]

VARIABLES
    args,       \* the command line
    signal,     \* SIGINT or SIGTERM arrived and its watcher did not run yet
    noticed     \* history: a signal arrived after init()

vars == <<file, text, off, lex, save, store, pc, conf, cur, at, bot, log, pulled,
          args, signal, noticed>>

Ends == {"exit", "failed", "aborted", "crashed"}

Init ==
    /\ file \in Texts /\ text = Append(file, NUL) /\ off = 1
    /\ lex = "start" /\ save = NUL /\ store = <<>>
    /\ pc = Topic /\ conf = Nothing /\ cur = Section(<<>>)
    /\ at = "main" /\ log = LogInit
    /\ bot = [rules |-> <<>>, servers |-> <<>>, plugins |-> <<>>, hooks |-> <<>>, tpt |-> <<>>]
    /\ pulled = <<>>
    /\ args \in Args /\ signal = FALSE /\ noticed = FALSE

reading == <<lexer, store, pc, conf, cur, pulled>>

usage ==
    /\ at = "main" /\ args.command = "usage"
    /\ at' = "failed"
    /\ UNCHANGED <<reading, bot, log, args, signal, noticed>>

\* init: irc_bot_init logs to the console, and the signals are watched.
init ==
    /\ at = "main" /\ args.command # "usage"
    /\ log' = irc_log_to_console(log)
    /\ at' = IF args.command = "none" THEN "load" ELSE "run"
    /\ UNCHANGED <<reading, bot, args, signal, noticed>>

run ==
    /\ at = "run"
    /\ at' = IF args.command = "other" THEN "failed" ELSE "exit"
    /\ UNCHANGED <<reading, bot, log, args, signal, noticed>>

load == conf_open("load") /\ UNCHANGED <<args, signal, noticed>>

\* The option -v is applied behind the configuration.
override ==
    /\ at = "ready"
    /\ log' = IF args.verbose THEN irc_log_set_verbose(log, TRUE) ELSE log
    /\ at' = "loop"
    /\ UNCHANGED <<reading, bot, args, signal, noticed>>

\* Anything in the event loop that logs.
nce_sched_run(level) ==
    /\ at = "loop" /\ Faults(log, level)
    /\ Say(level, "loop")
    /\ UNCHANGED <<reading, bot, log, args, signal, noticed>>

\* The kernel delivers: libev notes the signal and runs the watcher in the loop.
deliver ==
    /\ at \notin Ends \cup {"main"} /\ ~noticed
    /\ signal' = TRUE /\ noticed' = TRUE
    /\ UNCHANGED <<reading, at, bot, log, args>>

sig_cb ==
    /\ at = "loop" /\ signal
    /\ signal' = FALSE
    /\ Say("info", "finish")
    /\ UNCHANGED <<reading, bot, log, args, noticed>>

finish ==
    /\ at = "finish"
    /\ bot' = [rules |-> <<>>, servers |-> <<>>, plugins |-> <<>>, hooks |-> <<>>, tpt |-> <<>>]
    /\ at' = "exit"
    /\ UNCHANGED <<reading, log, args, signal, noticed>>

main == usage \/ init \/ run \/ load \/ override \/ sig_cb \/ finish

Reads == (conf_open_loop \/ conf_lex_entry \/ conf_parser_entry \/ conf_apply)
         /\ UNCHANGED <<args, signal, noticed>>

Next ==
    \/ main \/ Reads
    \/ deliver
    \/ \E level \in Levels : nce_sched_run(level)

\* The process runs: nothing in it waits before the event loop does, and the
\* event loop runs the watchers of pending signals.
Spec == Init /\ [][Next]_vars /\ WF_vars(main \/ Reads)

-----------------------------------------------------------------------------
TypeOK ==
    /\ off \in 1..Len(text) /\ Len(text) = Len(file) + 1
    /\ lex \in {"start", "mark", "string", "eof"}
    /\ Len(store) <= 1
    /\ at \in Ends \cup {"main", "run", "load", "parser", "lex", "ready", "loop", "finish"}
              \cup {"apply log", "apply rules", "apply servers", "apply plugins",
                    "apply hooks", "apply transport"}
    /\ log.handler \in Handlers /\ log.out \in Streams
    /\ signal => noticed

(* What a file says, read at once: the reference for the two coroutines.   *)
Word(t, i)   == SubSeq(t, i, First(t, i, Marks \cup Blanks) - 1)
Quoted(t, i) == SubSeq(t, i + 1, First(t, i + 1, {"quote"}) - 1)
Closed(t, i) == t[First(t, i + 1, {"quote"})] = "quote"
Tokens(f) ==
    LET t == Append(f, NUL)
        next[i \in 1..Len(t)] ==
            CASE t[i] = NUL        -> <<[type |-> "eof", str |-> <<>>]>>
              [] t[i] \in Blanks   -> next[i + 1]
              [] t[i] = "#"        -> next[First(t, i, {"\n"})]
              [] t[i] = "quote"    -> IF Closed(t, i)
                                      THEN <<[type |-> "string", str |-> Quoted(t, i)]>>
                                           \o next[First(t, i + 1, {"quote"}) + 1]
                                      ELSE <<>>
              [] t[i] \in {"{", "}", ","} -> <<[type |-> t[i], str |-> <<>>]>> \o next[i + 1]
              [] OTHER             -> <<[type |-> "string", str |-> Word(t, i)]>>
                                      \o next[i + Len(Word(t, i))]
    IN next[1]

\* The parser reads the file: although the lexer overwrites the text under the
\* strings it hands out, no token is lost, read twice, cut or run into the next
\* (conf_lex_string puts the overwritten character back once it is resumed).
TokensFaithful == IsPrefix(pulled, Tokens(file))

\* Sections may come in any order in the file (conf.c, struct conf): rules
\* stand before the first server connects, and rules and servers before the
\* first plugin's onLoad runs.
AnyOrder ==
    [][/\ Len(bot'.servers) > Len(bot.servers) => conf.rules = <<>>
       /\ Len(bot'.plugins) > Len(bot.plugins) => conf.rules = <<>> /\ conf.servers = <<>>]_vars

\* A signal is never lost: one that arrives while the configuration is read
\* or applied ends the daemon in the end, whatever the file says (the two
\* coroutines of conf_open always come to an end, and the watcher is run by
\* the first round of the event loop).
SignalHeard == noticed ~> at \in Ends

\* A file that ends inside a block is refused: conf_parse_rule and
\* conf_parse_server_options have messages for it, conf_end another.
BlocksClosed ==
    at = "loop" => Cardinality({i \in DOMAIN pulled : pulled[i].type = "{"})
                   = Cardinality({i \in DOMAIN pulled : pulled[i].type = "}"})
=============================================================================
