------------------------------ MODULE MCServer ------------------------------
(* Instances of Server for TLC.                                            *)
EXTENDS Server

CONSTANTS bot, bob

\* No nickname is the beginning of another, and letters without an argument
\* come last in a MODE message.
MCDistinct == {}
MCModeStrings == {<<"o", "v">>, <<"b", "v", "n">>}

MCFlags == {{}, {"JOIN_INVITE"}, {"AUTO_REJOIN", "JOIN_INVITE"}}

\* Bound: the bot asks for its second nickname where it has no flags, and there
\* the other user, whose nickname is taken all the same, joins no channel.
NicksOrUsers ==
    IF flags = {}
    THEN \A c \in Channels : members[c] = {}
    ELSE /\ bob \notin {nickname, real}
         /\ \A k \in DOMAIN outq : outq[k].cmd = "NICK" => outq[k].new # bob
=============================================================================
