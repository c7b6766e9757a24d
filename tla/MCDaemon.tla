------------------------------ MODULE MCDaemon ------------------------------
(* Instance of Daemon for TLC.  The files are small configurations that use  *)
(* every directive, each also cut off anywhere, with a symbol missing        *)
(* anywhere, and with a brace too many anywhere.                             *)
EXTENDS Daemon

Spaced(ws) == [i \in 1..(2 * Len(ws) - 1) |-> IF i % 2 = 1 THEN ws[(i + 1) \div 2] ELSE " "]

Quote(s) == <<"quote">> \o s \o <<"quote">>

Bases ==
    {Spaced(ws) : ws \in {
        <<"log", "verbose", "template">> \o Quote(<<"a">>) \o <<"to", "file", "f">>,
        <<"logs", "quiet", "to", "syslog", "hook", "h", "to", "p", "hook", "h">>,
        <<"log", "to", "file", "none", "hook", "h", "to", "p", "server", "s", "{",
          "hostname", "a", "ident", "n", "u", "r", "}", "server", "s">>,
        <<"log", "verbose", "to", "console", "transport", "with", "uid", "80", "gid", "u", "to", "p", "transport">>,
        <<"server", "s", "{", "port", "80", "prefix", "a", "password", "a", "port", "65535", "}">>,
        <<"server", "s", "{", "hostname", "a", "ident", "n", "u", "r", "join", "c", "join", "with",
          "password", "c", "k", "}">>,
        <<"server", "s", "{", "ctcp", "{", "a", "b", "}", "ssl", "options", "{", "AUTO-REJOIN",
          "JOIN-INVITE", "}", "other", "hostname", "a", "ident", "n", "u", "r", "}">>,
        <<"rule", "accept", "{", "servers", "{", "a", ",", "b", "}", "events", "{", "}", "}", "rule", "drop">>,
        <<"plugin", "q", "{", "config", "{", "a", "b", "}", "paths", "{", "a", "b", "}", "}", "plugin", "q">>,
        <<"plugin", "p", "to", "x.js", "plugin", "r", "to", "x.so", "rule", "accept", "server", "s", "{",
          "hostname", "a", "ident", "n", "u", "r", "}", "hook", "h", "to", "p", "other">>}}
    \cup {<<" ", "log">>, <<>>, <<"#", "a", "\n", " ", "log", " ", "to", "\n", "console", "#">>,
          <<"plugin", " ", "p", " ", "to", " ", "y.js">>,
          <<"server", "quote", "s", "quote", "{", "hostname", " ", "quote", "a", " ", "b", "quote",
            "ident", " ", "n", "quote", "u", "quote", "r", "}", "rule", " ", "drop", "{", "}">>}

MCTexts ==
    UNION {
        {SubSeq(b, 1, n) : n \in 0..Len(b)}
        \cup {RemoveAt(b, n) : n \in DOMAIN b}
        \cup {[b EXCEPT ![n] = "}"] : n \in {n \in DOMAIN b : b[n] # " "}}
      : b \in Bases}

MCNumerals == [n \in {"80", "65535"} |-> IF n = "80" THEN 80 ELSE 65535]
MCExtOf == [n \in {"x.js", "y.js", "x.so"} |-> IF n = "x.so" THEN "so" ELSE "js"]
MCDisk == {<<"lib", <<"q">>, "js">>, <<"lib", <<"q">>, "so">>, <<"user", <<"x.js">>, "js">>,
           <<"user", <<"x.so">>, "so">>}
MCBroken == {<<"user", <<"y.js">>, "js">>}
MCMetadata == [f \in {"license", "version", "author", "summary", "description"} |-> f]
MCLogFiles == {<<"f">>}
MCArgs == [verbose : BOOLEAN, command : {"none"}]
          \cup [verbose : {FALSE}, command : {"info", "paths", "version", "other", "usage"}]
=============================================================================
