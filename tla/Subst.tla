------------------------------- MODULE Subst -------------------------------
(***************************************************************************)
(* irc_subst (lib/irccd/subst.c): expanding a template into a buffer of    *)
(* Size bytes.  A character is a string; %H stands for any conversion of   *)
(* strftime(3).  One step is one iteration of the loop over the input, or  *)
(* one of the writes (ccat, scat, fread) a construct is made of.           *)
(***************************************************************************)
EXTENDS Integers, Sequences, FiniteSets

CONSTANTS
    Size,       \* outsz of the caller
    KeyMax,     \* sizeof (key) of substitute
    AttrMax,    \* how many attributes struct attributes holds
    Templates,  \* the inputs
    FlagSets,   \* the flags callers pass
    Date,       \* the character that %H gives
    Keywords,   \* key -> value, as every table below
    Env,
    Shell,      \* command -> output without its end of line
    Colors,     \* irc_colors, and shell_fg and shell_bg
    Attributes  \* irc_attrs and shell_attrs

ASSUME SubstAssumption ==
    /\ Size \in Nat \ {0} /\ KeyMax \in Nat \ {0} /\ AttrMax \in Nat
    /\ Templates \subseteq Seq(STRING) /\ Date \in STRING \ {"@"}
    /\ \A T \in {Keywords, Env, Shell, Colors, Attributes} :
        \A key \in DOMAIN T : T[key] \in Seq(STRING)

VARIABLES
    in,         \* the template, with its date once subst_date ran
    flags,
    i,          \* the next character of the input
    todo,       \* the writes the current construct still has to do
    out,        \* what the buffer holds
    rc,         \* "date" before the date, "run", or the result
    given       \* history: the template of the caller

substVars == <<in, flags, i, todo, out, rc, given>>

SubstInit ==
    /\ in \in Templates /\ flags \in FlagSets
    /\ given = in /\ i = 1 /\ todo = <<>> /\ out = <<>> /\ rc = "date"

\* What Irccd.Util.format asks for.
FormatFlags == {"date", "keywords", "env", "irc"}

Reserved == {"#", "@", "$", "!"}

Fail(why) == rc' = why /\ out' = <<>> /\ UNCHANGED <<in, flags, i, todo, given>>

Dated(t) == [n \in 1..Len(t) |-> IF t[n] = "%H" THEN Date ELSE t[n]]

\* strftime(3) returns 0 for a text that does not fit, and for an empty one.
subst_date ==
    /\ rc = "date"
    /\ IF "date" \notin flags THEN rc' = "run" /\ UNCHANGED <<in, flags, i, todo, out, given>>
       ELSE IF Len(in) \notin 1..Size - 1 THEN Fail("ENOMEM")
       ELSE in' = Dated(in) /\ rc' = "run" /\ UNCHANGED <<flags, i, todo, out, given>>

\* A write: ccat fills the buffer to its last byte, scat leaves one for the
\* NUL, and the output of a command is cut at that.
c(ch) == [op |-> "ccat", text |-> <<ch>>]
s(text) == [op |-> "scat", text |-> text]
f(text) == [op |-> "fread", text |-> text]

Fits(w) ==
    IF w.op = "ccat" THEN Len(out) < Size ELSE Len(out) + Len(w.text) < Size

Write ==
    /\ rc = "run" /\ todo # <<>>
    /\ LET w == Head(todo) IN
       IF Fits(w)
       THEN /\ out' = out \o w.text /\ todo' = Tail(todo)
            /\ UNCHANGED <<in, flags, i, rc, given>>
       ELSE IF w.op = "fread"
       THEN /\ out' = out \o SubSeq(w.text, 1, Size - Len(out) - 1) /\ todo' = Tail(todo)
            /\ UNCHANGED <<in, flags, i, rc, given>>
       ELSE Fail("ENOMEM")

\* The loop goes on: there is input and there is room.
More == rc = "run" /\ todo = <<>> /\ i <= Len(in) /\ Len(out) < Size

At(n) == IF n <= Len(in) THEN in[n] ELSE "NUL"

Go(next, writes) ==
    /\ i' = next /\ todo' = writes
    /\ UNCHANGED <<in, flags, out, rc, given>>

literal == More /\ in[i] \notin Reserved /\ Go(i + 1, <<c(in[i])>>)

\* A reserved character that is not the start of a construct is printed.
NeverEscapes ==
    /\ More /\ in[i] \in Reserved /\ At(i + 1) # "{"
    /\ Go(i + 1, <<c(in[i])>>)

\* A reserved character that is doubled is printed once.
escape ==
    /\ More /\ in[i] \in Reserved /\ At(i + 1) # "{"
    /\ Go(IF At(i + 1) = in[i] THEN i + 2 ELSE i + 1, <<c(in[i])>>)

\* The construct that starts at i: its end, if it has one, and its key.
Closes == {n \in i + 2..Len(in) : in[n] = "}"}
End == CHOOSE n \in Closes : \A k \in Closes : n <= k
Key == SubSeq(in, i + 2, End - 1)

\* attributes_parse: the parts of a key by its commas, and which are read.  An
\* empty foreground or background ends what sscanf(3) reads, and an empty part
\* at the end is none.
Commas(key) == {n \in 1..Len(key) : key[n] = ","}
Part(key, n) ==
    LET from == CHOOSE k \in Commas(key) \cup {0} :
                    Cardinality({x \in Commas(key) : x <= k}) = n - 1
        to == CHOOSE k \in Commas(key) \cup {Len(key) + 1} :
                    k > from /\ \A x \in Commas(key) : x > from => k <= x
    IN  SubSeq(key, from + 1, to - 1)
Parts(key) == Cardinality(Commas(key)) + 1
Foreground(key) == Part(key, 1)
Background(key) == IF Parts(key) > 1 /\ Foreground(key) # <<>> THEN Part(key, 2) ELSE <<>>
attrsz(key) ==
    IF Parts(key) < 3 \/ Background(key) = <<>> THEN 0
    ELSE IF Part(key, Parts(key)) = <<>> THEN Parts(key) - 3 ELSE Parts(key) - 2

\* What is not found writes nothing; so does an empty text, and where the
\* buffer is full both end the same way.
find(table, key) == s(IF key \in DOMAIN table THEN table[key] ELSE <<>>)

subst_irc_attrs(key) ==
    IF key = <<>> THEN <<c("^C")>>
    ELSE IF Foreground(key) = <<>> THEN <<>>
    ELSE <<c("^C"), find(Colors, Foreground(key))>>
         \o (IF Background(key) = <<>> THEN <<>> ELSE <<c(","), find(Colors, Background(key))>>)
         \o [n \in 1..attrsz(key) |-> find(Attributes, Part(key, n + 2))]

\* Every attribute is followed by a semicolon: a foreground always comes next.
subst_shell_attrs(key) ==
    IF key = <<>> THEN <<s(<<"ESC", "[", "0", "m">>)>>
    ELSE <<s(<<"ESC", "[">>)>>
         \o [n \in 1..2 * attrsz(key) |->
                IF n % 2 = 1 THEN find(Attributes, Part(key, (n + 1) \div 2 + 2)) ELSE c(";")]
         \o (IF Foreground(key) = <<>> THEN <<>> ELSE <<find(Colors, Foreground(key))>>)
         \o (IF Background(key) = <<>> THEN <<>> ELSE <<c(";"), find(Colors, Background(key))>>)
         \o <<c("m")>>

subst_default(token, key) == <<c(token), c("{"), s(key), c("}")>>

\* A kind of construct that the caller did not ask for is copied.
Replacement(token, key) ==
    CASE token = "@" /\ "irc" \in flags -> subst_irc_attrs(key)
      [] token = "@" /\ "irc" \notin flags /\ "shattrs" \in flags -> subst_shell_attrs(key)
      [] token = "#" /\ "keywords" \in flags -> <<find(Keywords, key)>>
      [] token = "$" /\ "env" \in flags -> <<find(Env, key)>>
      [] token = "!" /\ "shell" \in flags ->
            <<f(IF key \in DOMAIN Shell THEN Shell[key] ELSE <<>>)>>
      [] OTHER -> subst_default(token, key)

\* More attributes than the structure has room for are written past its end.
Overflows(token, key) ==
    token = "@" /\ key # <<>> /\ flags \cap {"irc", "shattrs"} # {} /\ attrsz(key) > AttrMax

\* A construct cut right behind its brace is dropped, one cut later refused.
substitute ==
    /\ More /\ in[i] \in Reserved /\ At(i + 1) = "{"
    /\ IF i + 2 > Len(in) THEN Go(i + 2, <<>>)
       ELSE IF Closes = {} THEN Fail("EINVAL")
       ELSE IF Len(Key) >= KeyMax THEN Fail("ENOMEM")
       ELSE IF Overflows(in[i], Key) THEN Fail("overflow")
       ELSE Go(End + 1, Replacement(in[i], Key))

\* The end without room for the NUL.
EndsFull ==
    /\ rc = "run" /\ todo = <<>> /\ ~More
    /\ rc' = "ok" /\ UNCHANGED <<in, flags, i, todo, out, given>>

\* The NUL needs a byte of its own.
irc_subst ==
    /\ rc = "run" /\ todo = <<>> /\ ~More
    /\ IF Len(out) >= Size THEN Fail("ENOMEM")
       ELSE rc' = "ok" /\ UNCHANGED <<in, flags, i, todo, out, given>>

SubstNext == subst_date \/ Write \/ literal \/ escape \/ substitute \/ irc_subst

SubstSpec == SubstInit /\ [][SubstNext]_substVars

\* No write goes past the buffer of the caller, and a result that is reported
\* has room for its NUL, whatever the template, the tables and the flags.
BufferKept == Len(out) <= Size /\ (rc = "ok" => Len(out) < Size)
-----------------------------------------------------------------------------
\* What a template stands for from its character k on, where rest says it for
\* every character behind and asked are the flags: the text, and the error that
\* its first open construct is.
Meaning(x, asked, k, rest) ==
    LET Then(text, n) == [rc |-> rest[n].rc, text |-> text \o rest[n].text]
        closing == {n \in k + 2..Len(x) : x[n] = "}"}
        close == CHOOSE n \in closing : \A y \in closing : n <= y
        key == SubSeq(x, k + 2, close - 1)
        Value(table) == IF key \in DOMAIN table THEN table[key] ELSE <<>>
        value ==
            CASE x[k] = "#" /\ "keywords" \in asked -> Value(Keywords)
              [] x[k] = "$" /\ "env" \in asked -> Value(Env)
              [] x[k] = "!" /\ "shell" \in asked -> Value(Shell)
              [] OTHER -> SubSeq(x, k, close)
    IN  IF k > Len(x) THEN [rc |-> "ok", text |-> <<>>]
        ELSE IF x[k] \notin Reserved \/ k = Len(x) THEN Then(<<x[k]>>, k + 1)
        ELSE IF x[k + 1] = x[k] THEN Then(<<x[k]>>, k + 2)
        ELSE IF x[k + 1] # "{" THEN Then(<<x[k]>>, k + 1)
        ELSE IF k + 1 = Len(x) THEN [rc |-> "ok", text |-> <<>>]
        ELSE IF closing = {} THEN [rc |-> "EINVAL", text |-> <<>>]
        ELSE Then(value, close + 1)

Expansion(x, asked) ==
    LET rest[k \in 1..Len(x) + 1] == Meaning(x, asked, k, rest) IN rest[1]

\* A text with every reserved character doubled.
Doubled(x, k, rest) ==
    IF k > Len(x) THEN <<>>
    ELSE (IF x[k] \in Reserved THEN <<x[k], x[k]>> ELSE <<x[k]>>) \o rest[k + 1]

Escape(x) ==
    LET rest[k \in 1..Len(x) + 1] == Doubled(x, k, rest) IN rest[1]

\* "To write a literal template construct, prepend the token twice": a text
\* with every reserved character doubled stands for itself.
Literal ==
    rc = "ok" => \A x \in Templates : in = Escape(x) => out = x

Colored == \E k \in 1..Len(given) : given[k] = "@"

\* A construct whose key has no room in the buffer for keys.
LongKey ==
    \E k \in 1..Len(in) - 1 : \E n \in k + 2 + KeyMax..Len(in) :
        /\ in[k] \in Reserved /\ in[k + 1] = "{"
        /\ in[n] = "}" /\ \A y \in k + 2..n - 1 : in[y] # "}"

\* A template that is not about colors is expanded to what it stands for.  It
\* is refused for the lack of room only when its text or a key does not fit,
\* or the date of an empty or long one could not be taken, and as invalid only
\* where a construct is left open.  The output of a command may be cut.
Expanded ==
    Literal /\ (~Colored =>
        LET want == Expansion(in, flags) IN
        /\ rc = "ok" => out = want.text \/ ("shell" \in flags /\ Len(want.text) >= Size)
        /\ rc = "EINVAL" => want.rc = "EINVAL"
        /\ rc = "ENOMEM" => \/ Len(want.text) >= Size \/ LongKey
                            \/ "date" \in flags /\ Len(given) \notin 1..Size - 1)
=============================================================================
