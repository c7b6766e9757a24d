-------------------------------- MODULE Text --------------------------------
(***************************************************************************)
(* One call at a time of the daemon's text functions: a template (Subst),  *)
(* a walk through directories (Walk), a look into the unicode tables       *)
(* (Unicode), a function on words (Words) or characters (Utf8), a line of  *)
(* the network that is told on (Message), or a request of irccdctl and the *)
(* lists it shows (Control).  They share nothing; job says which one is    *)
(* called, and the others rest.                                            *)
(***************************************************************************)
EXTENDS Subst, Walk, Unicode, Control, Utf8

CONSTANTS
    Lines,      \* texts for the functions on words
    Limits,     \* their numeric arguments
    Letters,    \* texts of code points
    Sizes,      \* the sizes of arrays for them
    Received,   \* lines of the network, in parts
    ServerName, \* the name of the server they come from
    Announced,  \* modes, symbols and the modes that a nickname wears
    Runs,       \* runs of irccdctl
    Lists       \* names, options and rules of the daemon

VARIABLES
    job,        \* what is called
    args        \* the arguments of a function on words

textVars == <<job, args, substVars, walkVars, uniVars>>

SubstRests == in = <<>> /\ flags = {}
WalkRests ==
    /\ call = [fn |-> "find", recursive |-> FALSE] /\ locked = {} /\ hidden = {} /\ kept = {}
    /\ room = (CHOOSE x \in Rooms : TRUE)
UniRests == point = (CHOOSE x \in Points : TRUE) /\ tables = (CHOOSE x \in Tables : TRUE)

NoArgs == [texts |-> <<>>]

TextInit ==
    /\ job \in {"subst", "walk", "search", "words", "points", "line", "names", "request", "list"}
    /\ (job # "subst" => SubstRests) /\ SubstInit
    /\ (job # "walk" => WalkRests) /\ WalkInit
    /\ (job # "search" => UniRests) /\ UniInit
    /\ args \in CASE job = "words" -> [texts : Lines \X Lines, maxc : Limits, maxl : Limits]
                  [] job = "points" -> [points : Letters, dstsz : Sizes]
                  [] job = "line" -> Received
                  [] job = "names" -> Announced
                  [] job = "request" -> Runs
                  [] job = "list" -> Lists
                  [] OTHER -> {NoArgs}

TextNext ==
    \/ job = "subst" /\ SubstNext /\ UNCHANGED <<job, args, walkVars, uniVars>>
    \/ job = "walk" /\ WalkNext /\ UNCHANGED <<job, args, substVars, uniVars>>
    \/ job = "search" /\ UniNext /\ UNCHANGED <<job, args, substVars, walkVars>>

TextSpec == TextInit /\ [][TextNext]_textVars
-----------------------------------------------------------------------------
\* The functions on words and on characters are right about the arguments
\* they were called with.
WordsRight ==
    /\ job = "words" =>
        LET line == args.texts[1]  rest == args.texts[2] IN
        /\ CutFits(args.texts, args.maxc, args.maxl)
        /\ SplitExact(line, args.maxl)
        /\ UserExact(line, rest, line)
        /\ args.maxc <= Len(line) + 1 => LinesExact(line, args.maxc - 1)
    /\ job = "points" => PointsExact(args.points, args.dstsz)

\* A line of the network and the names in one, a request of irccdctl and the
\* lists it gets back are heard as they were meant.
LineHeard ==
    /\ job = "line" => Heard(args, ServerName)
    /\ job = "names" => Stripped(args.modes, args.syms, args.worn, <<"w">>)
    /\ job = "request" => Obeyed(args)
    /\ job = "list" => Shown(args.names, args.options, args.rules, args.server)
=============================================================================
