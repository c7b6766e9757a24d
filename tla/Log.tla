-------------------------------- MODULE Log --------------------------------
(***************************************************************************)
(* The logger of lib/irccd/log.c: where messages go and which are shown.   *)
(* The state is a record that its user keeps in a variable: the handler,   *)
(* what the stream `out' stands for, the finalizer, the verbosity and the  *)
(* template.  How a message is laid out (wrap) is the template's business: *)
(* see irc_subst in Text.                                                  *)
(***************************************************************************)

Handlers == {"null", "files", "syslog"}
Streams  == {"null", "console", "file"}
Levels   == {"info", "warning", "debug"}

\* The static variables when the process starts.
LogInit == [handler |-> "null", out |-> "null", finalizer |-> "null",
            verbosity |-> FALSE, template |-> <<>>]   \* <<>>: DEFAULT_TEMPLATE

finalizer_files(l) == [l EXCEPT !.out = "null"]

irc_log_finish(l) ==
    [(IF l.finalizer = "files" THEN finalizer_files(l) ELSE l)
        EXCEPT !.handler = "null", !.finalizer = "null"]

irc_log_to_syslog(l) ==
    [irc_log_finish(l) EXCEPT !.handler = "syslog", !.finalizer = "syslog"]

irc_log_to_console(l) ==
    [irc_log_finish(l) EXCEPT !.handler = "files", !.out = "console"]

\* `opened' is whether fopen(3) succeeds.  When it does not, the warning is
\* lost (irc_log_finish took the handler) and the handler is set all the same.
irc_log_to_file(l, opened) ==
    [irc_log_finish(l) EXCEPT !.out = IF opened THEN "file" ELSE "null",
                              !.handler = "files", !.finalizer = "files"]

irc_log_set_verbose(l, mode) == [l EXCEPT !.verbosity = mode]

irc_log_set_template(l, fmt) == [l EXCEPT !.template = fmt]

\* irc_log_info, irc_log_warn, irc_log_debug: is the message handed over?
Shown(l, level) == l.handler # "null" /\ (level = "info" => l.verbosity)

\* handler_files writes to a stream that is not there.
Faults(l, level) == Shown(l, level) /\ l.handler = "files" /\ l.out = "null"
=============================================================================
