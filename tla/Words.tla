-------------------------------- MODULE Words --------------------------------
(***************************************************************************)
(* The small functions on text: Irccd.Util.cut and the splitting of users  *)
(* (irccd/jsapi-util.c), irc_util_split and irc_util_user_split            *)
(* (lib/irccd/util.c), and the reading of lines of Irccd.File              *)
(* (irccd/jsapi-file.c).  A text is a sequence of characters.              *)
(***************************************************************************)
EXTENDS Naturals, SequencesExt

\* The texts between the characters of blanks, as strtok_r(3) gives them.
strtok_r(text, blanks) ==
    LET Starts == {k \in 1..Len(text) : text[k] \notin blanks
                                         /\ (k = 1 \/ text[k - 1] \in blanks)}
        Stop(k) == CHOOSE e \in k..Len(text) :
                      /\ \A x \in k..e : text[x] \notin blanks
                      /\ e = Len(text) \/ text[e + 1] \in blanks
    IN  LET at == SetToSortSeq(Starts, <) IN [x \in 1..Len(at) |-> SubSeq(text, at[x], Stop(at[x]))]

\* The words of a text, or of every text of an array.
stringlist_concat(list, text) == list \o strtok_r(text, {" ", "\n"})
split(texts) == FoldLeft(stringlist_concat, <<>>, texts)

\* The space left out of the count.
Unspaced(linesz, word) == linesz + Len(word)

\* The line that a word is put on: behind a space unless it comes first.
Needed(linesz, word) == IF linesz > 0 THEN linesz + 1 + Len(word) ELSE Len(word)

\* One word of join: j has the lines so far, the size of the last one, the
\* lines that are left, and what it raised.
Joined(j, word, maxc) ==
    IF j.raised # "" THEN j
    ELSE IF Len(word) > maxc THEN [j EXCEPT !.raised = "token"]
    ELSE IF Needed(j.linesz, word) <= maxc
    THEN [j EXCEPT !.lines = IF j.linesz = 0 THEN <<<<word>>>> ELSE [@ EXCEPT ![Len(@)] = Append(@, word)],
                   !.linesz = Needed(@, word)]
    ELSE IF j.lineavail = 1 THEN [j EXCEPT !.raised = "lines"]
    ELSE [j EXCEPT !.lines = Append(@, <<word>>), !.linesz = Len(word), !.lineavail = @ - 1]

join(words, maxc, maxl) ==
    FoldLeft(LAMBDA j, word : Joined(j, word, maxc),
             [lines |-> <<>>, linesz |-> 0, lineavail |-> maxl, raised |-> ""], words)

Util_cut(texts, maxc, maxl) == join(split(texts), maxc, maxl)

\* irc_util_split: at most max parts, the last with the rest of the line.
First(line, delim) == {k \in 1..Len(line) : line[k] = delim
                          /\ \A x \in 1..k - 1 : line[x] # delim}
RECURSIVE Arguments(_, _, _)
Arguments(line, max, delim) ==
    IF max <= 1 \/ First(line, delim) = {} THEN <<line>>
    ELSE LET sp == CHOOSE k \in First(line, delim) : TRUE
         IN  <<SubSeq(line, 1, sp - 1)>> \o Arguments(SubSeq(line, sp + 1, Len(line)), max - 1, delim)
irc_util_split(line, max, delim) ==
    IF line = <<>> \/ max = 0 THEN <<>> ELSE Arguments(line, max, delim)

\* irc_util_user_split: the leftmost place where the expression matches.
Matches(text) ==
    {p \in (1..Len(text)) \X (1..Len(text)) \X (1..Len(text)) :
        /\ p[1] < p[2] /\ p[2] + 1 < p[3]
        /\ text[p[2]] = "!" /\ text[p[3]] = "@"
        /\ \A x \in p[1]..p[2] - 1 : text[x] # "!"
        /\ \A x \in p[2] + 1..p[3] - 1 : text[x] # "@"}
irc_util_user_split(text) ==
    IF Matches(text) = {} THEN [nickname |-> text]
    ELSE LET p == CHOOSE q \in Matches(text) : \A r \in Matches(text) : q[1] <= r[1]
         IN  [nickname |-> SubSeq(text, p[1], p[2] - 1),
              username |-> SubSeq(text, p[2] + 1, p[3] - 1),
              host |-> SubSeq(text, p[3] + 1, Len(text))]

\* getline(3) at pos: the position behind the line.
getline(text, pos) ==
    LET ends == {k \in pos + 1..Len(text) : text[k] = "\n"}
    IN  IF ends = {} THEN Len(text) ELSE CHOOSE k \in ends : \A x \in ends : k <= x

\* The line without its end, cut at the first \r or \n.
Chomped(line) ==
    LET stops == {k \in 1..Len(line) : line[k] \in {"\r", "\n"}}
    IN  IF stops = {} THEN line ELSE SubSeq(line, 1, (CHOOSE k \in stops : \A x \in stops : k <= x) - 1)

\* readline: the line and the next position, or none at the end.
File_prototype_readline(text, pos) ==
    IF pos = Len(text) THEN [line |-> <<>>, eof |-> TRUE, pos |-> pos]
    ELSE [line |-> Chomped(SubSeq(text, pos + 1, getline(text, pos))), eof |-> FALSE,
          pos |-> getline(text, pos)]

RECURSIVE File_prototype_lines(_, _)
File_prototype_lines(text, pos) ==
    LET r == File_prototype_readline(text, pos)
    IN  IF r.eof THEN <<>> ELSE <<r.line>> \o File_prototype_lines(text, r.pos)

\* read: everything behind pos, or an amount, which raises at the end.
read_until_eof(text, pos) == SubSeq(text, pos + 1, Len(text))
read_amount(text, pos, amount) ==
    IF pos = Len(text) \/ amount = 0 THEN [raised |-> TRUE]
    ELSE [raised |-> FALSE, data |-> SubSeq(read_until_eof(text, pos), 1,
                                         IF amount < Len(text) - pos THEN amount ELSE Len(text) - pos)]
-----------------------------------------------------------------------------
Sum(line) == FoldLeft(LAMBDA a, word : a + Len(word), 0, line)
Width(line) == Sum(line) + Len(line) - 1

\* Every way to lay words out on consecutive lines: the places to break at.
Layout(words, B) ==
    LET at == SetToSortSeq(B \cup {0, Len(words)}, <)
    IN  [x \in 1..Len(at) - 1 |-> SubSeq(words, at[x] + 1, at[x + 1])]
Layouts(words) ==
    IF words = <<>> THEN {<<>>} ELSE {Layout(words, B) : B \in SUBSET (1..Len(words) - 1)}
Fitting(words, maxc) ==
    {L \in Layouts(words) : \A x \in 1..Len(L) : Width(L[x]) <= maxc}

\* Irccd.Util.cut keeps the words in their order, fits every line in maxc,
\* needs no more lines than any other layout does, and raises exactly when no
\* layout fits in maxc and maxl.
CutFits(texts, maxc, maxl) ==
    LET words == split(texts)
        j == Util_cut(texts, maxc, maxl)
    IN  IF j.raised = ""
        THEN /\ j.lines \in Fitting(words, maxc)
             /\ \A L \in Fitting(words, maxc) : Len(j.lines) <= Len(L)
        ELSE \A L \in Fitting(words, maxc) : Len(L) > maxl

RECURSIVE JoinedBy(_, _)
JoinedBy(parts, delim) ==
    IF Len(parts) = 1 THEN parts[1] ELSE parts[1] \o <<delim>> \o JoinedBy(Tail(parts), delim)

\* The parts of irc_util_split make up the line, and only the last may hold
\* the delimiter, when there was no room for more.
SplitExact(line, max) ==
    LET parts == irc_util_split(line, max, " ")
    IN  line # <<>> /\ max > 0 =>
            /\ Len(parts) <= max /\ JoinedBy(parts, " ") = line
            /\ \A k \in 1..Len(parts) : First(parts[k], " ") # {} => k = Len(parts) /\ k = max

\* nickname!username@host is taken apart into what it was put together from.
UserExact(nick, user, host) ==
    nick # <<>> /\ user # <<>> /\ First(nick, "!") = {} /\ First(user, "@") = {} =>
        irc_util_user_split(nick \o <<"!">> \o user \o <<"@">> \o host)
            = [nickname |-> nick, username |-> user, host |-> host]

\* lines and read agree: where no \r is in the way, the lines put together
\* again are what read returns, the last end of line aside.
LinesExact(text, pos) ==
    LET lines == File_prototype_lines(text, pos)
        rest == read_until_eof(text, pos)
    IN  /\ \A k \in 1..Len(lines) : First(lines[k], "\n") = {} /\ First(lines[k], "\r") = {}
        /\ lines # <<>> /\ First(rest, "\r") = {} =>
               rest \in {JoinedBy(lines, "\n"), Append(JoinedBy(lines, "\n"), "\n")}
        /\ rest # <<>> => read_amount(text, pos, Len(rest)).data = rest
=============================================================================
