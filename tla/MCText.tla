------------------------------- MODULE MCText -------------------------------
(***************************************************************************)
(* Every template of up to four characters of which two are reserved, with *)
(* a buffer of six bytes, longer ones for colors and dates, and one with a *)
(* long key; a tree of three levels; tables of up to five ranges and two   *)
(* singles with every character in and around them; words of up to two     *)
(* characters; code points at the ends of each size; each command with     *)
(* last arguments that are empty, hold spaces, colons or CTCP marks, or do *)
(* not fit; each command of irccdctl with up to four arguments or up to    *)
(* three options.                                                          *)
(***************************************************************************)
EXTENDS Text, FiniteSets

Short == UNION {[1..k -> {"#", "$", "{", "}", "a"}] : k \in 0..4}
MCTemplates ==
    Short \cup {Escape(x) : x \in {y \in Short : Len(y) = 3}}
          \cup {<<"!", "{", "a", "}", "%H">>, <<"$", "{", "a", "}", "%H">>,
                <<"@", "{", "}", "a">>, <<"@", "{", "a", ",", "a", "}">>,
                <<"@", "{", ",", "a", "}">>, <<"@", "{", "a", ",", "a", ",", "b", "}">>,
                <<"@", "{", "a", ",", "a", ",", "a", ",", "a", "}">>,
                <<"a", "#", "{", "a", "a", "a", "a", "a", "a", "a", "a", "}">>}
MCFlagSets == {{}, {"keywords"}, FormatFlags, {"shell", "shattrs"}}
MCValues == [x \in {<<"a">>} |-> <<"x", "#">>]
MCOutputs == [x \in {<<"a">>} |-> <<"o", "o", "o", "o", "o", "o">>]

MCNodes == {"d1", "d2", "n1", "n2", "n3", "n4"}
MCParent == [x \in MCNodes |-> CASE x = "d2" -> "d1" [] x = "n2" -> "d2" [] x \in {"n3", "n4"} -> "d1"
                                 [] OTHER -> "base"]
MCName == [x \in MCNodes |-> CASE x = "d1" -> <<"d">> [] x \in {"d2", "n1", "n2"} -> <<"y">>
                               [] x = "n3" -> <<"x", "z">> [] x = "n4" -> <<"x">>]

MCPattern == <<"y">>

FromTo(a, b) == [lo |-> a, hi |-> b]
MCTables ==
    {<<r, u>> : r \in {<<>>, <<FromTo(2, 3)>>, <<FromTo(2, 3), FromTo(5, 5)>>,
                       <<FromTo(2, 3), FromTo(5, 5), FromTo(6, 8)>>,
                       <<FromTo(0, 0), FromTo(2, 3), FromTo(5, 5), FromTo(6, 8), FromTo(9, 9)>>},
                u \in {<<>>, <<FromTo(4, 4)>>, <<FromTo(1, 1), FromTo(4, 4)>>}}

MCLines ==
    UNION {[1..k -> {"w", " ", "\n", "!", "@", "\r"}] : k \in 0..2}
    \cup {<<"w", "w", " ", "w", " ", "w">>, <<"w", "\n", "w", "\r", "\n">>,
          <<"w", " ", "w", " ", "w", "w", "w">>}

Edges == {1, 127, 128, 2047, 2048, 65535, 65536, 262143, 262144, 2097151, 2097152}
MCLetters == UNION {[1..k -> Edges] : k \in 0..2}

Arity == {<<"000", 0>>, <<"001", 0>>, <<"INVITE", 2>>, <<"JOIN", 1>>, <<"KICK", 2>>, <<"KICK", 3>>,
          <<"MODE", 2>>, <<"MODE", 3>>, <<"MODE", 4>>, <<"NICK", 1>>, <<"NOTICE", 2>>, <<"PART", 1>>,
          <<"PART", 2>>, <<"PRIVMSG", 2>>, <<"TOPIC", 2>>}
LastArgs == {<<>>, <<"w">>, <<" ", "w">>, <<"w", " ", " ", "w">>, <<":", "w">>, <<"w", "w", "w", "w", "w", "w", "w">>,
             <<"SOH", "ACTION", " ", "w", " ", "w", "SOH">>, <<"SOH", "VERSION", "SOH">>, <<"SOH", "w">>, <<"SOH">>}
MCReceived ==
    {[prefix |-> p, cmd |-> <<a[1]>>,
      args |-> [k \in 1..a[2] |-> IF k = a[2] THEN l ELSE <<"#", "c">>],
      colon |-> colon, behind |-> b] :
        p \in {<<"n">>, <<"n", "!", "u", "@", "h">>}, a \in Arity, l \in LastArgs,
        colon \in BOOLEAN, b \in {Null, Stray}}
MCServerName == <<"s">>
MCAnnounced ==
    UNION {[modes : {SubSeq(<<"o", "h", "v", "q">>, 1, k)}, syms : {SubSeq(<<"@", "%", "+", "~">>, 1, k)},
            worn : SUBSET (1..k)] : k \in 1..4}

NoOptions == {"HOOK-ADD", "HOOK-LIST", "HOOK-REMOVE", "PLUGIN-CONFIG", "PLUGIN-INFO", "PLUGIN-LIST",
              "PLUGIN-LOAD", "PLUGIN-PATH", "PLUGIN-RELOAD", "PLUGIN-TEMPLATE", "PLUGIN-UNLOAD",
              "RULE-LIST", "RULE-MOVE", "RULE-REMOVE", "SERVER-DISCONNECT", "SERVER-INFO", "SERVER-JOIN",
              "SERVER-LIST", "SERVER-ME", "SERVER-MESSAGE", "SERVER-MODE", "SERVER-NICK",
              "SERVER-NOTICE", "SERVER-PART", "SERVER-RECONNECT", "SERVER-TOPIC", "WATCH"}
Argument == {<<>>, <<"w">>, <<"w", " ", "w">>, <<"1">>, <<"-1">>}
Opt(keys, values) == [key : keys, value : values, upper : BOOLEAN]
UpTo(size, S) == UNION {[1..k -> S] : k \in 0..size}
Lower(opts) == \A k \in 1..Len(opts) : ~opts[k].upper
OncePlaced(opts) == Cardinality({k \in 1..Len(opts) : opts[k].key = "i"}) <= 1
MCRuns ==
    [cmd : NoOptions, argv : UpTo(4, Argument), opts : {<<>>}, stack : {"NULL"}]
    \cup [cmd : {"RULE-ADD"}, argv : {<<a>> : a \in {<<"accept">>, <<"drop">>, <<"w">>, <<>>}},
          opts : {o \in UpTo(3, Opt({"c", "i", "s"}, {<<"w">>, <<"1">>, <<>>})) : Lower(o) /\ OncePlaced(o)},
          stack : {"NULL", "stray", "e"}]
    \cup [cmd : {"RULE-EDIT"}, argv : {<<<<"1">>>>, <<<<"-1">>>>, <<<<"w">>>>, <<<<>>>>},
          opts : {o \in UpTo(3, Opt({"a", "c", "e"}, {<<"accept">>, <<"w">>})) :
                    \A k \in 1..Len(o) : o[k].key = "a" => ~o[k].upper},
          stack : {"NULL"}]
    \cup [cmd : {"SERVER-CONNECT"}, argv : {<<<<"w">>, <<"w", "w">>>>},
          opts : {o \in UpTo(3, Opt({"n", "p", "r", "s", "u"}, {<<"x", "x">>, <<"x", " ", "x">>})) : Lower(o)},
          stack : {"NULL"}]

MCServers ==
    [name : {<<"w">>}, hostname : {<<"h">>}, port : {<<"6667">>}, ssl : BOOLEAN,
     nickname : {<<"w">>}, username : {<<"x">>}, realname : {<<>>, <<"x", " ", "x">>},
     channels : UpTo(2, {[name |-> <<"#", "c">>, symbols |-> <<>>, joined |-> FALSE],
                         [name |-> <<"#", "c">>, symbols |-> <<"@">>, joined |-> TRUE]})]
MCRules ==
    UpTo(2, {[action |-> <<"accept">>, servers |-> x, channels |-> y, origins |-> <<>>, plugins |-> y,
              events |-> x] : x \in UpTo(2, {<<"w">>}), y \in UpTo(1, {<<"#", "c">>})})
MCOptions == UpTo(2, [key : {<<"k">>, <<>>}, value : {<<>>, <<"w", "=">>}])
AServer == CHOOSE x \in MCServers : TRUE
MCLists ==
    [names : UpTo(3, {<<"w">>, <<"w", "=">>}), options : MCOptions, rules : {<<>>}, server : {AServer}]
    \cup [names : {<<>>}, options : {<<>>}, rules : MCRules, server : MCServers]
=============================================================================
