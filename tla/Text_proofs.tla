---------------------------- MODULE Text_proofs ----------------------------
(***************************************************************************)
(* Proofs about the text functions.                                        *)
(*                                                                         *)
(* Subst: irc_subst stays within the buffer of its caller, for every       *)
(* template, every table of keywords, colors, attributes and command       *)
(* outputs, every set of flags and every size.  The invariant adds to      *)
(* BufferKept what the writes that are still to do are made of: texts, and *)
(* single characters for ccat, which alone may use the last byte.          *)
(*                                                                         *)
(* What it writes is what the template stands for (Expanded): the meaning  *)
(* of a text goes on further behind, so it has exactly one solution        *)
(* (Solvable), and the text is what is written, what the writes still to   *)
(* do add, and what the rest of the input stands for (Going), unless the   *)
(* output of a command was cut.  Of a doubled text the rest of the input   *)
(* is the rest of it doubled (ReadTo).                                     *)
(*                                                                         *)
(* Unicode: the binary search finds a character exactly when one of its    *)
(* tables holds it, for all sorted tables and all characters.  What the    *)
(* search has left out cannot hold the character, which lies behind the    *)
(* entries before t and before those from t + n on; and once the singles   *)
(* are searched no range holds it.                                         *)
(*                                                                         *)
(* Walk: find and remove do what they were asked for, for every finite     *)
(* tree, every choice of what cannot be looked at, and every order of the  *)
(* entries.  What is there and can be seen is either still to be visited,  *)
(* below an entry that is not read yet or as one of the directories that   *)
(* are read (Pending), or was dealt with (Handled); and the path is that   *)
(* of the last of these directories, which lie one in the other (Spine).   *)
(* Induction over the tree is the choice of a node of a set whose          *)
(* directory is not in it.                                                 *)
(***************************************************************************)
EXTENDS Subst, Unicode, Walk, FiniteSetTheorems, SequenceTheorems, WellFoundedInduction, TLAPS

-----------------------------------------------------------------------------
(* Subst.                                                                  *)

\* The characters of texts, those the code writes itself among them.
Char == STRING \cup {"^C", ",", "ESC", "[", "0", "m", ";", "{", "}"}

Texts == Seq(Char)

Writes ==
    {w \in [op : {"ccat", "scat", "fread"}, text : Texts] : w.op = "ccat" => Len(w.text) = 1}

SubstTypeOK ==
    /\ in \in Texts /\ i \in Nat \ {0}
    /\ todo \in Seq(Writes) /\ out \in Texts

BufferInv == SubstTypeOK /\ BufferKept

-----------------------------------------------------------------------------
LEMMA SingleSeq == ASSUME NEW S, NEW x \in S PROVE <<x>> \in Seq(S)
OBVIOUS

LEMMA PairSeq == ASSUME NEW S, NEW x \in S, NEW y \in S PROVE <<x, y>> \in Seq(S)
OBVIOUS

LEMMA FourSeq ==
    ASSUME NEW S, NEW x \in S, NEW y \in S, NEW z \in S, NEW u \in S
    PROVE  <<x, y, z, u>> \in Seq(S)
OBVIOUS

LEMMA StringsAreTexts == ASSUME NEW x \in Seq(STRING) PROVE x \in Texts
<1>1. Len(x) \in Nat /\ x \in [1..Len(x) -> STRING]
  BY LenProperties
<1>2. x \in [1..Len(x) -> Char]
  BY <1>1 DEF Char
<1> QED
  BY <1>1, <1>2 DEF Texts

LEMMA CharWrite == ASSUME NEW x \in Char PROVE c(x) \in Writes
<1>1. <<x>> \in Texts /\ Len(<<x>>) = 1
  BY SingleSeq DEF Texts
<1> QED
  BY <1>1 DEF c, Writes

LEMMA TextWrite == ASSUME NEW x \in Texts PROVE s(x) \in Writes /\ f(x) \in Writes
BY DEF s, f, Writes

\* What is found in a table, or not, is a text.
LEMMA FindWrite ==
    ASSUME NEW table \in {Keywords, Env, Colors, Attributes}, NEW key
    PROVE  find(table, key) \in Writes
<1>1. <<>> \in Texts
  BY EmptySeq DEF Texts
<1>2. key \in DOMAIN table => table[key] \in Texts
  BY SubstAssumption, StringsAreTexts
<1> QED
  BY <1>1, <1>2, TextWrite DEF find

\* A set of numbers that is not empty has a least one.
LEMMA LeastOne ==
    ASSUME NEW T \in SUBSET Nat, T # {}
    PROVE  \E x \in T : \A y \in T : x <= y
<1>1. \E x \in T : \A y \in T : ~(<<y, x>> \in OpToRel(<, Nat))
  BY WFMin, NatLessThanWellFounded
<1>2. \A x, y \in T : ~(<<y, x>> \in OpToRel(<, Nat)) => x <= y
  <2> TAKE x, y \in T
  <2>1. x \in Nat /\ y \in Nat /\ <<y, x>> \in Nat \X Nat
    OBVIOUS
  <2>2. y < x => <<y, x>> \in OpToRel(<, Nat)
    BY <2>1 DEF OpToRel
  <2>3. ~(<<y, x>> \in OpToRel(<, Nat)) => ~(y < x)
    BY <2>2, Zenon
  <2>4. ~(y < x) => x <= y
    BY <2>1
  <2> QED
    BY <2>3, <2>4, Zenon
<1> QED
  BY <1>1, <1>2, Zenon

\* The end of a construct lies behind its brace, so its key is a text.
LEMMA KeyText ==
    ASSUME SubstTypeOK, Closes # {}
    PROVE  End \in i + 2..Len(in) /\ Key \in Texts
<1>1. Len(in) \in Nat /\ i \in Nat
  BY LenProperties DEF SubstTypeOK, Texts
<1>2. Closes \in SUBSET Nat
  <2>1. i + 2..Len(in) \subseteq Nat
    BY <1>1
  <2> QED
    BY <2>1, Zenon DEF Closes
<1>3. \E x \in Closes : \A y \in Closes : x <= y
  BY <1>2, LeastOne
<1>4. End \in Closes
  BY <1>3 DEF End
<1>5. End \in i + 2..Len(in)
  BY <1>4 DEF Closes
<1>6. \A k \in i + 2..End - 1 : in[k] \in Char
  <2> TAKE k \in i + 2..End - 1
  <2>1. k \in 1..Len(in)
    BY <1>1, <1>5
  <2> QED
    BY <2>1, ElementOfSeq DEF SubstTypeOK, Texts
<1>7. i + 2 \in Int /\ End - 1 \in Int
  BY <1>1, <1>5
<1>8. Key \in Texts
  BY <1>6, <1>7, SubSeqProperties DEF Key, Texts
<1> QED
  BY <1>5, <1>8

\* How many attributes a key asks for is a number.
LEMMA AttributesCounted == ASSUME NEW key \in Texts PROVE attrsz(key) \in Nat
<1>1. Len(key) \in Nat
  BY LenProperties DEF Texts
<1>2. IsFiniteSet(1..Len(key))
  BY <1>1, FS_Interval
<1>3. Commas(key) \in SUBSET (1..Len(key))
  BY DEF Commas
<1>4. Cardinality(Commas(key)) \in Nat
  BY <1>2, <1>3, FS_Subset, FS_CardinalityType
<1> QED
  BY <1>4 DEF attrsz, Parts

\* Every construct is replaced by writes.
LEMMA IrcWrites == ASSUME NEW key \in Texts PROVE subst_irc_attrs(key) \in Seq(Writes)
<1> DEFINE fg == find(Colors, Foreground(key))
           bg == find(Colors, Background(key))
           more == [k \in 1..attrsz(key) |-> find(Attributes, Part(key, k + 2))]
           second == IF Background(key) = <<>> THEN <<>> ELSE <<c(","), bg>>
<1>1. c("^C") \in Writes /\ c(",") \in Writes
  BY CharWrite DEF Char
<1>2. fg \in Writes /\ bg \in Writes
  BY FindWrite
<1>3. more \in Seq(Writes)
  <2>1. \A k \in 1..attrsz(key) : find(Attributes, Part(key, k + 2)) \in Writes
    BY FindWrite
  <2>2. attrsz(key) \in Nat
    BY AttributesCounted
  <2>3. more \in [1..attrsz(key) -> Writes]
    BY <2>1
  <2> HIDE DEF more
  <2> QED
    BY <2>2, <2>3
<1>4. <<c("^C"), fg>> \in Seq(Writes) /\ second \in Seq(Writes) /\ <<c("^C")>> \in Seq(Writes)
  <2> HIDE DEF fg, bg
  <2> QED
    BY <1>1, <1>2, SingleSeq, PairSeq, EmptySeq
<1>5. subst_irc_attrs(key) \in {<<c("^C")>>, <<>>, <<c("^C"), fg>> \o second \o more}
  BY DEF subst_irc_attrs
<1> HIDE DEF fg, bg, more, second
<1>6. <<c("^C"), fg>> \o second \in Seq(Writes)
  BY <1>4, ConcatProperties
<1>7. <<c("^C"), fg>> \o second \o more \in Seq(Writes)
  BY <1>3, <1>6, ConcatProperties
<1> QED
  BY <1>4, <1>5, <1>7, EmptySeq

LEMMA ShellWrites == ASSUME NEW key \in Texts PROVE subst_shell_attrs(key) \in Seq(Writes)
<1> DEFINE fg == find(Colors, Foreground(key))
           bg == find(Colors, Background(key))
           Each(k) == IF k % 2 = 1 THEN find(Attributes, Part(key, (k + 1) \div 2 + 2)) ELSE c(";")
           more == [k \in 1..2 * attrsz(key) |-> Each(k)]
           first == IF Foreground(key) = <<>> THEN <<>> ELSE <<fg>>
           second == IF Background(key) = <<>> THEN <<>> ELSE <<c(";"), bg>>
           start == s(<<"ESC", "[">>)
           reset == s(<<"ESC", "[", "0", "m">>)
<1>1. c(";") \in Writes /\ c("m") \in Writes
  BY CharWrite DEF Char
<1>2. fg \in Writes /\ bg \in Writes
  BY FindWrite
<1>3. start \in Writes /\ reset \in Writes
  <2>1. <<"ESC", "[">> \in Texts /\ <<"ESC", "[", "0", "m">> \in Texts
    BY PairSeq, FourSeq DEF Texts, Char
  <2> QED
    BY <2>1, TextWrite
<1>4. more \in Seq(Writes)
  <2>1. \A k \in 1..2 * attrsz(key) : Each(k) \in Writes
    BY <1>1, FindWrite
  <2>2. 2 * attrsz(key) \in Nat
    BY AttributesCounted
  <2> HIDE DEF Each
  <2>3. more \in [1..2 * attrsz(key) -> Writes]
    BY <2>1
  <2> HIDE DEF more
  <2> QED
    BY <2>2, <2>3
<1>5. /\ <<reset>> \in Seq(Writes) /\ <<start>> \in Seq(Writes) /\ <<c("m")>> \in Seq(Writes)
      /\ first \in Seq(Writes) /\ second \in Seq(Writes)
  <2> HIDE DEF fg, bg, start, reset
  <2> QED
    BY <1>1, <1>2, <1>3, SingleSeq, PairSeq, EmptySeq
<1>6. subst_shell_attrs(key) \in {<<reset>>, <<start>> \o more \o first \o second \o <<c("m")>>}
  BY DEF subst_shell_attrs
<1> HIDE DEF fg, bg, more, first, second, start, reset
<1>7. <<start>> \o more \in Seq(Writes)
  BY <1>4, <1>5, ConcatProperties
<1>8. <<start>> \o more \o first \in Seq(Writes)
  BY <1>5, <1>7, ConcatProperties
<1>9. <<start>> \o more \o first \o second \in Seq(Writes)
  BY <1>5, <1>8, ConcatProperties
<1>10. <<start>> \o more \o first \o second \o <<c("m")>> \in Seq(Writes)
  BY <1>5, <1>9, ConcatProperties
<1> QED
  BY <1>5, <1>6, <1>10

LEMMA DefaultWrites ==
    ASSUME NEW key \in Texts, NEW token \in Char
    PROVE  subst_default(token, key) \in Seq(Writes)
<1>1. c(token) \in Writes /\ c("{") \in Writes /\ c("}") \in Writes
  BY CharWrite DEF Char
<1>2. s(key) \in Writes
  BY TextWrite
<1> QED
  BY <1>1, <1>2, FourSeq DEF subst_default

LEMMA ReplacementWrites ==
    ASSUME NEW key \in Texts, NEW token \in Char
    PROVE  Replacement(token, key) \in Seq(Writes)
<1>1. <<find(Keywords, key)>> \in Seq(Writes) /\ <<find(Env, key)>> \in Seq(Writes)
  <2>1. find(Keywords, key) \in Writes /\ find(Env, key) \in Writes
    BY FindWrite
  <2> QED
    BY <2>1, SingleSeq
<1>2. <<f(IF key \in DOMAIN Shell THEN Shell[key] ELSE <<>>)>> \in Seq(Writes)
  <2>1. (IF key \in DOMAIN Shell THEN Shell[key] ELSE <<>>) \in Texts
    <3>1. key \in DOMAIN Shell => Shell[key] \in Texts
      BY SubstAssumption, StringsAreTexts
    <3>2. <<>> \in Texts
      BY EmptySeq DEF Texts
    <3> QED
      BY <3>1, <3>2
  <2> QED
    BY <2>1, TextWrite, SingleSeq
<1>3. /\ subst_irc_attrs(key) \in Seq(Writes) /\ subst_shell_attrs(key) \in Seq(Writes)
      /\ subst_default(token, key) \in Seq(Writes)
  BY IrcWrites, ShellWrites, DefaultWrites
<1> QED
  BY <1>1, <1>2, <1>3 DEF Replacement

-----------------------------------------------------------------------------
LEMMA InitBuffer == SubstInit => BufferInv
<1> SUFFICES ASSUME SubstInit PROVE BufferInv
  OBVIOUS
<1>1. in \in Texts
  BY SubstAssumption, StringsAreTexts DEF SubstInit
<1>2. <<>> \in Seq(Writes) /\ <<>> \in Texts /\ Len(<<>>) = 0
  BY EmptySeq DEF Texts
<1> QED
  BY <1>1, <1>2, SubstAssumption DEF SubstInit, BufferInv, SubstTypeOK, BufferKept

\* A failure empties the buffer.
LEMMA FailKeeps ==
    ASSUME BufferInv, NEW why, Fail(why)
    PROVE  BufferInv'
<1>1. out' = <<>> /\ Len(out') = 0 /\ out' \in Texts
  BY EmptySeq DEF Fail, Texts
<1> QED
  BY <1>1, SubstAssumption DEF Fail, BufferInv, SubstTypeOK, BufferKept

LEMMA DateKeeps == BufferInv /\ subst_date => BufferInv'
<1> SUFFICES ASSUME BufferInv, subst_date PROVE BufferInv'
  OBVIOUS
<1>1. Dated(in) \in Texts
  <2>1. Len(in) \in Nat /\ \A k \in 1..Len(in) : in[k] \in Char
    BY LenProperties, ElementOfSeq DEF BufferInv, SubstTypeOK, Texts
  <2>2. Dated(in) \in [1..Len(in) -> Char]
    BY <2>1, SubstAssumption DEF Dated, Char
  <2> QED
    BY <2>1, <2>2 DEF Texts
<1>2. CASE Fail("ENOMEM")
  BY <1>2, FailKeeps
<1>3. CASE (in' = in \/ in' = Dated(in)) /\ rc' = "run" /\ UNCHANGED <<flags, i, todo, out, given>>
  BY <1>1, <1>3 DEF BufferInv, SubstTypeOK, BufferKept
<1> QED
  BY <1>2, <1>3 DEF subst_date

\* A write that fits keeps to the buffer, and so does an output that is cut.
LEMMA WriteKeeps == BufferInv /\ Write => BufferInv'
<1> SUFFICES ASSUME BufferInv, Write PROVE BufferInv'
  OBVIOUS
<1> DEFINE w == Head(todo)
<1>1. /\ w \in Writes /\ Tail(todo) \in Seq(Writes)
      /\ out \in Texts /\ Len(out) \in Nat /\ Len(out) <= Size /\ rc = "run" /\ Size \in Nat
  BY HeadTailProperties, LenProperties, SubstAssumption
     DEF Write, BufferInv, SubstTypeOK, BufferKept, Texts
<1>2. /\ w.op \in {"ccat", "scat", "fread"} /\ w.text \in Texts /\ Len(w.text) \in Nat
      /\ w.op = "ccat" => Len(w.text) = 1
  BY <1>1, LenProperties DEF Writes, Texts
<1>3. CASE Fits(w)
  <2>1. out' = out \o w.text /\ todo' = Tail(todo) /\ UNCHANGED <<in, flags, i, rc, given>>
    BY <1>3 DEF Write
  <2>2. out' \in Texts /\ Len(out') = Len(out) + Len(w.text)
    BY <2>1, <1>1, <1>2, ConcatProperties DEF Texts
  <2>3. IF w.op = "ccat" THEN Len(out) < Size ELSE Len(out) + Len(w.text) < Size
    BY <1>3 DEF Fits
  <2> HIDE DEF w
  <2>4. Len(out') <= Size
    <3>1. CASE w.op = "ccat"
      <4>1. Len(out) < Size /\ Len(w.text) = 1
        BY <3>1, <2>3, <1>2
      <4> QED
        BY <4>1, <2>2, <1>1
    <3>2. CASE w.op # "ccat"
      <4>1. Len(out) + Len(w.text) < Size
        BY <3>2, <2>3
      <4> QED
        BY <4>1, <2>2, <1>1, <1>2
    <3> QED
      BY <3>1, <3>2
  <2> QED
    BY <2>1, <2>2, <2>4, <1>1 DEF BufferInv, SubstTypeOK, BufferKept
<1>4. CASE ~Fits(w) /\ w.op = "fread"
  <2> DEFINE cut == SubSeq(w.text, 1, Size - Len(out) - 1)
  <2>1. out' = out \o cut /\ todo' = Tail(todo) /\ UNCHANGED <<in, flags, i, rc, given>>
    BY <1>4 DEF Write
  <2>2. \A k \in 1..Size - Len(out) - 1 : w.text[k] \in Char
    <3> TAKE k \in 1..Size - Len(out) - 1
    <3>1. k \in 1..Len(w.text)
      BY <1>1, <1>2, <1>4 DEF Fits
    <3> QED
      BY <3>1, <1>2, ElementOfSeq DEF Texts
  <2>3. 1 \in Int /\ Size - Len(out) - 1 \in Int
    BY <1>1
  <2>4. /\ cut \in Texts
        /\ Len(cut) = IF 1 <= Size - Len(out) - 1 THEN Size - Len(out) - 1 - 1 + 1 ELSE 0
    BY <2>2, <2>3, SubSeqProperties DEF Texts
  <2> HIDE DEF cut
  <2>5. out' \in Texts /\ Len(out') = Len(out) + Len(cut)
    BY <2>1, <2>4, <1>1, ConcatProperties DEF Texts
  <2>6. Len(out') <= Size
    BY <2>4, <2>5, <1>1
  <2> HIDE DEF w
  <2> QED
    BY <2>1, <2>5, <2>6, <1>1 DEF BufferInv, SubstTypeOK, BufferKept
<1>5. CASE ~Fits(w) /\ w.op # "fread"
  BY <1>5, FailKeeps DEF Write
<1> QED
  BY <1>3, <1>4, <1>5

\* The loop takes a character or a construct and writes nothing itself.
LEMMA GoKeeps ==
    ASSUME BufferInv, NEW next \in Nat \ {0}, NEW writes \in Seq(Writes), Go(next, writes)
    PROVE  BufferInv'
BY DEF Go, BufferInv, SubstTypeOK, BufferKept

LEMMA LoopKeeps == BufferInv /\ (literal \/ escape \/ substitute) => BufferInv'
<1> SUFFICES ASSUME BufferInv, literal \/ escape \/ substitute PROVE BufferInv'
  OBVIOUS
<1>1. i \in Nat /\ 1 <= i /\ i <= Len(in) /\ Len(in) \in Nat
  <2>1. More
    BY DEF literal, escape, substitute
  <2>2. in \in Texts /\ i \in Nat \ {0} /\ Len(in) \in Nat
    BY LenProperties DEF BufferInv, SubstTypeOK, Texts
  <2> QED
    BY <2>1, <2>2 DEF More
<1>2. in[i] \in Char
  BY <1>1, ElementOfSeq DEF BufferInv, SubstTypeOK, Texts
<1>3. <<c(in[i])>> \in Seq(Writes) /\ <<>> \in Seq(Writes)
  BY <1>2, CharWrite, SingleSeq, EmptySeq
<1>4. CASE literal
  <2>1. i + 1 \in Nat \ {0} /\ Go(i + 1, <<c(in[i])>>)
    BY <1>1, <1>4 DEF literal
  <2> QED
    BY <2>1, <1>3, GoKeeps
<1>5. CASE escape
  <2>1. PICK next \in {i + 1, i + 2} : Go(next, <<c(in[i])>>)
    BY <1>5 DEF escape
  <2>2. next \in Nat \ {0}
    BY <1>1
  <2> QED
    BY <2>1, <2>2, <1>3, GoKeeps
<1>6. CASE substitute
  <2>1. CASE \E why : Fail(why)
    BY <2>1, FailKeeps
  <2>2. CASE Go(i + 2, <<>>)
    <3>1. i + 2 \in Nat \ {0}
      BY <1>1
    <3> QED
      BY <3>1, <2>2, <1>3, GoKeeps
  <2>3. CASE Closes # {} /\ Go(End + 1, Replacement(in[i], Key))
    <3>1. End \in i + 2..Len(in) /\ Key \in Texts
      BY <2>3, KeyText DEF BufferInv
    <3>2. End + 1 \in Nat \ {0}
      BY <3>1, <1>1
    <3>3. Replacement(in[i], Key) \in Seq(Writes)
      BY <3>1, <1>2, ReplacementWrites
    <3> QED
      BY <3>2, <3>3, <2>3, GoKeeps
  <2> QED
    BY <1>6, <2>1, <2>2, <2>3 DEF substitute
<1> QED
  BY <1>4, <1>5, <1>6

LEMMA EndKeeps == BufferInv /\ irc_subst => BufferInv'
<1> SUFFICES ASSUME BufferInv, irc_subst PROVE BufferInv'
  OBVIOUS
<1>1. Len(out) \in Nat /\ Size \in Nat
  BY LenProperties, SubstAssumption DEF BufferInv, SubstTypeOK, Texts
<1>2. CASE Len(out) >= Size
  BY <1>2, FailKeeps DEF irc_subst
<1>3. CASE ~(Len(out) >= Size)
  BY <1>1, <1>3 DEF irc_subst, BufferInv, SubstTypeOK, BufferKept
<1> QED
  BY <1>2, <1>3

LEMMA BufferStep == BufferInv /\ [SubstNext]_substVars => BufferInv'
<1> SUFFICES ASSUME BufferInv, [SubstNext]_substVars PROVE BufferInv'
  OBVIOUS
<1>1. CASE UNCHANGED substVars
  BY <1>1 DEF substVars, BufferInv, SubstTypeOK, BufferKept
<1> QED
  BY <1>1, DateKeeps, WriteKeeps, LoopKeeps, EndKeeps DEF SubstNext

\* The expansion of a template never writes past the buffer, and a result that
\* is reported has room for its NUL, whatever the size of the buffer, the
\* template, the tables and the flags.
THEOREM BufferAlwaysKept == SubstSpec => []BufferKept
<1>1. SubstInit => BufferInv
  BY InitBuffer
<1>2. BufferInv /\ [SubstNext]_substVars => BufferInv'
  BY BufferStep
<1>3. BufferInv => BufferKept
  BY DEF BufferInv
<1> QED
  BY <1>1, <1>2, <1>3, PTL DEF SubstSpec

-----------------------------------------------------------------------------
(* What a template is expanded to.                                         *)

\* A text is read from its end: what holds of a place when it holds of all
\* behind it holds everywhere.
LEMMA FromBehind ==
    ASSUME NEW N \in Nat, NEW T,
           \A p \in 1..N : (\A j \in 1..N : p < j => j \in T) => p \in T
    PROVE  \A p \in 1..N : p \in T
<1> DEFINE Missing == {d \in Nat : N - d \in 1..N /\ N - d \notin T}
<1>1. ASSUME NEW p \in 1..N, p \notin T PROVE FALSE
  <2>1. N - p \in Missing
    <3>1. N - p \in Nat /\ N - (N - p) = p
      OBVIOUS
    <3> QED
      BY <3>1, <1>1
  <2>2. PICK d \in Missing : \A e \in Missing : d <= e
    <3>1. Missing \in SUBSET Nat /\ Missing # {}
      BY <2>1
    <3> HIDE DEF Missing
    <3> QED
      BY <3>1, LeastOne
  <2>3. ASSUME NEW j \in 1..N, N - d < j PROVE j \in T
    <3>1. d \in Nat /\ N - j \in Nat /\ N - (N - j) = j /\ ~(d <= N - j)
      BY <2>3
    <3>2. N - j \notin Missing
      BY <2>2, <3>1
    <3> QED
      BY <3>1, <3>2
  <2>4. N - d \in 1..N /\ N - d \notin T
    OBVIOUS
  <2> QED
    BY <2>3, <2>4
<1> QED
  BY <1>1

\* A recursion whose calls all go to places behind has a solution.
LooksBehind(N, V, step) ==
    \A p \in 1..N : \A g, h \in [1..N -> V] :
        (\A j \in 1..N : p < j => g[j] = h[j]) => step[p][g] = step[p][h]
Solution(g, N, step) == \A p \in 1..N : g[p] = step[p][g]

LEMMA Solvable ==
    ASSUME NEW N \in Nat, NEW V, NEW v \in V, NEW step \in [1..N -> [[1..N -> V] -> V]],
           LooksBehind(N, V, step)
    PROVE  \E g \in [1..N -> V] : Solution(g, N, step)
<1>0. \A p \in 1..N : \A g, h \in [1..N -> V] :
         (\A j \in 1..N : p < j => g[j] = h[j]) => step[p][g] = step[p][h]
  BY DEF LooksBehind
<1> SUFFICES \E g \in [1..N -> V] : \A p \in 1..N : g[p] = step[p][g]
  BY DEF Solution
<1> DEFINE Right(g, k) == \A p \in 1..N : k <= p => g[p] = step[p][g]
           T == {k \in 1..N : \E g \in [1..N -> V] : Right(g, k)}
<1>1. ASSUME NEW k \in 1..N, NEW g \in [1..N -> V], Right(g, k + 1)
      PROVE  k \in T
  <2> DEFINE h == [g EXCEPT ![k] = step[k][g]]
  <2>1. step[k][g] \in V
    OBVIOUS
  <2>2. h \in [1..N -> V] /\ h[k] = step[k][g] /\ \A j \in 1..N : k < j => h[j] = g[j]
    BY <2>1
  <2> HIDE DEF h
  <2>3. ASSUME NEW p \in 1..N, k <= p PROVE h[p] = step[p][h]
    <3>1. step[p][h] = step[p][g]
      <4>1. \A j \in 1..N : p < j => h[j] = g[j]
        BY <2>2, <2>3
      <4> QED
        BY <1>0, <2>2, <4>1
    <3>2. CASE p = k
      BY <2>2, <3>1, <3>2
    <3>3. CASE k + 1 <= p
      <4>1. h[p] = g[p] /\ g[p] = step[p][g]
        BY <1>1, <2>2, <3>3
      <4> QED
        BY <3>1, <4>1
    <3> QED
      BY <2>3, <3>2, <3>3
  <2> QED
    BY <2>2, <2>3
<1>2. CASE N = 0
  <2> DEFINE h == [p \in 1..N |-> v]
  <2>1. h \in [1..N -> V] /\ \A p \in 1..N : FALSE
    BY <1>2
  <2> HIDE DEF h
  <2> QED
    BY <2>1, Zenon
<1>3. CASE N # 0
  <2>1. N \in T
    <3>1. [p \in 1..N |-> v] \in [1..N -> V] /\ N \in 1..N
      BY <1>3
    <3>2. Right([p \in 1..N |-> v], N + 1)
      OBVIOUS
    <3> HIDE DEF T, Right
    <3> QED
      BY <1>1, <3>1, <3>2
  <2>2. \A p \in 1..N : (\A j \in 1..N : p < j => j \in T) => p \in T
    <3> SUFFICES ASSUME NEW p \in 1..N, \A j \in 1..N : p < j => j \in T
                 PROVE  p \in T
      OBVIOUS
    <3>1. CASE p = N
      BY <2>1, <3>1
    <3>2. CASE p < N
      <4>1. p + 1 \in T
        <5>1. p + 1 \in 1..N /\ p < p + 1
          BY <3>2
        <5> HIDE DEF T
        <5> QED
          BY <5>1
      <4>2. PICK g \in [1..N -> V] : Right(g, p + 1)
        BY <4>1
      <4> HIDE DEF T, Right
      <4> QED
        BY <1>1, <4>2
    <3> HIDE DEF T
    <3> QED
      BY <3>1, <3>2
  <2>3. 1 \in T
    <3> HIDE DEF T
    <3>1. \A p \in 1..N : p \in T
      BY <2>2, FromBehind
    <3> QED
      BY <1>3, <3>1
  <2>4. PICK g \in [1..N -> V] : Right(g, 1)
    BY <2>3
  <2>5. \A p \in 1..N : g[p] = step[p][g]
    BY <2>4
  <2> QED
    BY <2>5
<1> QED
  BY <1>2, <1>3

-----------------------------------------------------------------------------
\* What Meaning says of a place.
Meanings == [rc : {"ok", "EINVAL"}, text : Texts]

Rest(x, asked) == CHOOSE g : g = [k \in 1..Len(x) + 1 |-> Meaning(x, asked, k, g)]

\* The braces, by names that the provers can read.
Brace == "{"
Shut == "}"

LEMMA BracePlain == Brace \notin Reserved
BY DEF Brace, Reserved

\* A construct that starts at k: where it may end, where it ends, its key, and
\* what it stands for.
Closing(x, k) == {q \in k + 2..Len(x) : x[q] = Shut}
CloseOf(x, k) == CHOOSE q \in Closing(x, k) : \A y \in Closing(x, k) : q <= y
KeyOf(x, k) == SubSeq(x, k + 2, CloseOf(x, k) - 1)
ValueIn(table, key) == IF key \in DOMAIN table THEN table[key] ELSE <<>>
ValueOf(x, asked, k) ==
    CASE x[k] = "#" /\ "keywords" \in asked -> ValueIn(Keywords, KeyOf(x, k))
      [] x[k] = "$" /\ "env" \in asked -> ValueIn(Env, KeyOf(x, k))
      [] x[k] = "!" /\ "shell" \in asked -> ValueIn(Shell, KeyOf(x, k))
      [] OTHER -> SubSeq(x, k, CloseOf(x, k))

\* The meaning of a place ends the text, or is that of a character or a
\* construct followed by the meaning of a place behind.
Construct(x, k) == k < Len(x) /\ x[k] \in Reserved /\ x[k + 1] = Brace
Stops(x, k) == k > Len(x) \/ (Construct(x, k) /\ (k + 1 = Len(x) \/ Closing(x, k) = {}))
StopRc(x, k) == IF k >= Len(x) \/ k + 1 = Len(x) THEN "ok" ELSE "EINVAL"
ShownAt(x, asked, k) == IF Construct(x, k) THEN ValueOf(x, asked, k) ELSE <<x[k]>>
NextOf(x, k) ==
    IF Construct(x, k) THEN CloseOf(x, k) + 1
    ELSE IF x[k] \in Reserved /\ k < Len(x) /\ x[k + 1] = x[k] THEN k + 2 ELSE k + 1

MeansWhat(x, asked, k, g) ==
    IF Stops(x, k) THEN [rc |-> StopRc(x, k), text |-> <<>>]
    ELSE [rc |-> g[NextOf(x, k)].rc, text |-> ShownAt(x, asked, k) \o g[NextOf(x, k)].text]

LEMMA MeaningIs ==
    ASSUME NEW x, Len(x) \in Nat, NEW asked, NEW k \in 1..Len(x) + 1, NEW g
    PROVE  Meaning(x, asked, k, g) = MeansWhat(x, asked, k, g)
<1>1. CASE k > Len(x)
  BY <1>1 DEF Meaning, MeansWhat, Stops, StopRc
<1>2. CASE k <= Len(x) /\ (x[k] \notin Reserved \/ k = Len(x))
  <2>1. ~(k > Len(x)) /\ ~Construct(x, k) /\ ~(x[k] \in Reserved /\ k < Len(x) /\ x[k + 1] = x[k])
    BY <1>2 DEF Construct
  <2>2. MeansWhat(x, asked, k, g) = [rc |-> g[k + 1].rc, text |-> <<x[k]>> \o g[k + 1].text]
    BY <2>1, Zenon DEF MeansWhat, Stops, ShownAt, NextOf
  <2>3. Meaning(x, asked, k, g) = [rc |-> g[k + 1].rc, text |-> <<x[k]>> \o g[k + 1].text]
    BY <2>1, <1>2, Zenon DEF Meaning, Brace
  <2> QED
    BY <2>2, <2>3
<1>3. CASE k < Len(x) /\ x[k] \in Reserved /\ x[k + 1] = x[k]
  <2>0. ~Construct(x, k)
    BY <1>3, BracePlain DEF Construct
  <2>1. ~(k > Len(x)) /\ k # Len(x)
    BY <1>3
  <2>2. MeansWhat(x, asked, k, g) = [rc |-> g[k + 2].rc, text |-> <<x[k]>> \o g[k + 2].text]
    BY <2>0, <2>1, <1>3, Zenon DEF MeansWhat, Stops, ShownAt, NextOf
  <2>3. Meaning(x, asked, k, g) = [rc |-> g[k + 2].rc, text |-> <<x[k]>> \o g[k + 2].text]
    BY <2>1, <1>3, Zenon DEF Meaning, Brace
  <2> QED
    BY <2>2, <2>3
<1>4. CASE k < Len(x) /\ x[k] \in Reserved /\ x[k + 1] # x[k] /\ x[k + 1] # Brace
  <2>1. ~(k > Len(x)) /\ k # Len(x) /\ ~Construct(x, k)
    BY <1>4 DEF Construct
  <2>2. MeansWhat(x, asked, k, g) = [rc |-> g[k + 1].rc, text |-> <<x[k]>> \o g[k + 1].text]
    BY <2>1, <1>4, Zenon DEF MeansWhat, Stops, ShownAt, NextOf
  <2>3. Meaning(x, asked, k, g) = [rc |-> g[k + 1].rc, text |-> <<x[k]>> \o g[k + 1].text]
    BY <2>1, <1>4, Zenon DEF Meaning, Brace
  <2> QED
    BY <2>2, <2>3
<1>5. CASE Construct(x, k)
  <2>0. k < Len(x) /\ x[k] \in Reserved /\ x[k + 1] = Brace
    BY <1>5, Zenon DEF Construct
  <2>1. ~(k > Len(x)) /\ k # Len(x) /\ ~(k >= Len(x)) /\ x[k + 1] # x[k]
    BY <2>0, BracePlain
  <2>2. CASE k + 1 = Len(x)
    BY <2>0, <2>1, <2>2, <1>5, Zenon DEF Meaning, MeansWhat, Stops, StopRc, Brace
  <2>3. CASE k + 1 # Len(x) /\ Closing(x, k) = {}
    BY <2>0, <2>1, <2>3, <1>5, Zenon DEF Meaning, MeansWhat, Stops, StopRc, Closing, Brace, Shut
  <2>4. CASE k + 1 # Len(x) /\ Closing(x, k) # {}
    <3>1. MeansWhat(x, asked, k, g) = [rc |-> g[CloseOf(x, k) + 1].rc,
                                       text |-> ValueOf(x, asked, k) \o g[CloseOf(x, k) + 1].text]
      BY <2>1, <2>4, <1>5, Zenon DEF MeansWhat, Stops, ShownAt, NextOf
    <3>2. Meaning(x, asked, k, g) = [rc |-> g[CloseOf(x, k) + 1].rc,
                                     text |-> ValueOf(x, asked, k) \o g[CloseOf(x, k) + 1].text]
      BY <2>0, <2>1, <2>4, Zenon DEF Meaning, Closing, CloseOf, ValueOf, ValueIn, KeyOf, Brace, Shut
    <3> QED
      BY <3>1, <3>2
  <2> QED
    BY <2>2, <2>3, <2>4
<1> QED
  BY <1>1, <1>2, <1>3, <1>4, <1>5 DEF Construct

\* A construct closes behind its brace.
LEMMA CloseBehind ==
    ASSUME NEW x \in Texts, NEW k \in 1..Len(x), Closing(x, k) # {}
    PROVE  /\ CloseOf(x, k) \in k + 2..Len(x) /\ x[CloseOf(x, k)] = Shut
           /\ \A y \in Closing(x, k) : CloseOf(x, k) <= y
<1>1. Len(x) \in Nat
  BY LenProperties DEF Texts
<1>2. Closing(x, k) \in SUBSET Nat
  <2>1. k + 2..Len(x) \subseteq Nat
    BY <1>1
  <2> QED
    BY <2>1, Zenon DEF Closing
<1>3. \E q \in Closing(x, k) : \A y \in Closing(x, k) : q <= y
  BY <1>2, LeastOne
<1>4. CloseOf(x, k) \in Closing(x, k) /\ \A y \in Closing(x, k) : CloseOf(x, k) <= y
  BY <1>3, Zenon DEF CloseOf
<1>5. CloseOf(x, k) \in k + 2..Len(x) /\ x[CloseOf(x, k)] = Shut
  BY <1>4, Zenon DEF Closing
<1> QED
  BY <1>4, <1>5

LEMMA CutText ==
    ASSUME NEW x \in Texts, NEW a \in Nat \ {0}, NEW b \in 1..Len(x)
    PROVE  SubSeq(x, a, b) \in Texts
<1>1. \A q \in a..b : x[q] \in Char
  <2> TAKE q \in a..b
  <2>1. q \in 1..Len(x)
    BY LenProperties DEF Texts
  <2> QED
    BY <2>1, ElementOfSeq DEF Texts
<1>2. a \in Int /\ b \in Int
  BY LenProperties DEF Texts
<1> QED
  BY <1>1, <1>2, SubSeqProperties DEF Texts

\* What is shown of a place is a text, and what comes next is behind.
LEMMA ShownNext ==
    ASSUME NEW x \in Texts, NEW asked, NEW k \in 1..Len(x) + 1, ~Stops(x, k)
    PROVE  ShownAt(x, asked, k) \in Texts /\ NextOf(x, k) \in k + 1..Len(x) + 1 /\ k <= Len(x)
<1>0. Len(x) \in Nat
  BY LenProperties DEF Texts
<1>1. k \in 1..Len(x)
  BY <1>0 DEF Stops
<1>2. CASE Construct(x, k)
  <2>1. Closing(x, k) # {}
    BY <1>2 DEF Stops
  <2>2. CloseOf(x, k) \in k + 2..Len(x)
    BY <1>1, <2>1, CloseBehind
  <2>3. NextOf(x, k) \in k + 1..Len(x) + 1
    BY <1>0, <1>1, <1>2, <2>2 DEF NextOf
  <2>4. \A table \in {Keywords, Env, Shell} : \A key : ValueIn(table, key) \in Texts
    <3> TAKE table \in {Keywords, Env, Shell}
    <3> TAKE key
    <3>1. <<>> \in Texts
      BY EmptySeq DEF Texts
    <3>2. key \in DOMAIN table => table[key] \in Texts
      BY SubstAssumption, StringsAreTexts
    <3> QED
      BY <3>1, <3>2 DEF ValueIn
  <2>5. SubSeq(x, k, CloseOf(x, k)) \in Texts
    <3>1. CloseOf(x, k) \in 1..Len(x) /\ k \in Nat \ {0}
      BY <1>0, <1>1, <2>2
    <3> QED
      BY <3>1, CutText
  <2>6. ShownAt(x, asked, k) \in Texts
    BY <1>2, <2>4, <2>5, Zenon DEF ShownAt, ValueOf
  <2> QED
    BY <2>3, <2>6, <1>1
<1>3. CASE ~Construct(x, k)
  <2>1. NextOf(x, k) \in k + 1..Len(x) + 1
    BY <1>0, <1>1, <1>3 DEF NextOf
  <2>2. x[k] \in Char
    BY <1>1, ElementOfSeq DEF Texts
  <2>3. ShownAt(x, asked, k) \in Texts
    BY <1>3, <2>2, SingleSeq DEF ShownAt, Texts
  <2> QED
    BY <2>1, <2>3, <1>1
<1> QED
  BY <1>2, <1>3

\* Every text has a meaning at every place.
LEMMA RestMeans ==
    ASSUME NEW x \in Texts, NEW asked
    PROVE  /\ Rest(x, asked) \in [1..Len(x) + 1 -> Meanings]
           /\ \A k \in 1..Len(x) + 1 : Rest(x, asked)[k] = MeansWhat(x, asked, k, Rest(x, asked))
<1> DEFINE N == Len(x) + 1
<1>1. Len(x) \in Nat /\ N \in Nat
  BY LenProperties DEF Texts
<1>2. <<>> \in Texts /\ [rc |-> "ok", text |-> <<>>] \in Meanings
  BY EmptySeq DEF Meanings, Texts
<1>3. ASSUME NEW k \in 1..N, NEW g \in [1..N -> Meanings] PROVE MeansWhat(x, asked, k, g) \in Meanings
  <2>1. CASE Stops(x, k)
    <3>1. StopRc(x, k) \in {"ok", "EINVAL"}
      BY DEF StopRc
    <3> QED
      BY <2>1, <3>1, <1>2 DEF MeansWhat, Meanings
  <2>2. CASE ~Stops(x, k)
    <3>0. ShownAt(x, asked, k) \in Texts /\ NextOf(x, k) \in k + 1..N
      BY <2>2, ShownNext
    <3>1. ShownAt(x, asked, k) \in Texts /\ NextOf(x, k) \in 1..N
      BY <1>1, <3>0
    <3> DEFINE v == g[NextOf(x, k)]
    <3>2. v \in Meanings
      BY <3>1
    <3>3. v.rc \in {"ok", "EINVAL"} /\ v.text \in Texts
      BY <3>2 DEF Meanings
    <3>4. ShownAt(x, asked, k) \o v.text \in Texts
      BY <3>1, <3>3, ConcatProperties DEF Texts
    <3>5. [rc |-> v.rc, text |-> ShownAt(x, asked, k) \o v.text] \in Meanings
      BY <3>3, <3>4 DEF Meanings
    <3> QED
      BY <2>2, <3>5, Zenon DEF MeansWhat
  <2> QED
    BY <2>1, <2>2
<1> DEFINE step == [k \in 1..N |-> [g \in [1..N -> Meanings] |-> MeansWhat(x, asked, k, g)]]
<1>4. step \in [1..N -> [[1..N -> Meanings] -> Meanings]]
  BY <1>3
<1>5. LooksBehind(N, Meanings, step)
  <2> SUFFICES ASSUME NEW k \in 1..N, NEW g \in [1..N -> Meanings], NEW h \in [1..N -> Meanings],
                      \A j \in 1..N : k < j => g[j] = h[j]
               PROVE  MeansWhat(x, asked, k, g) = MeansWhat(x, asked, k, h)
    BY DEF LooksBehind
  <2>1. CASE Stops(x, k)
    BY <2>1 DEF MeansWhat
  <2>2. CASE ~Stops(x, k)
    <3>1. NextOf(x, k) \in k + 1..N
      BY <1>1, <2>2, ShownNext
    <3>2. NextOf(x, k) \in 1..N /\ k < NextOf(x, k)
      BY <3>1, <1>1
    <3>3. g[NextOf(x, k)] = h[NextOf(x, k)]
      BY <3>2
    <3> QED
      BY <2>2, <3>3, Zenon DEF MeansWhat
  <2> QED
    BY <2>1, <2>2
<1>6. PICK g \in [1..N -> Meanings] : Solution(g, N, step)
  <2> HIDE DEF N, step
  <2> QED
    BY <1>1, <1>2, <1>4, <1>5, Solvable
<1>7. \A k \in 1..N : g[k] = MeansWhat(x, asked, k, g)
  BY <1>6 DEF Solution
<1>8. \A k \in 1..N : \A h : Meaning(x, asked, k, h) = MeansWhat(x, asked, k, h)
  BY <1>1, MeaningIs
<1>9. g = [k \in 1..N |-> Meaning(x, asked, k, g)]
  BY <1>7, <1>8
<1>10. Rest(x, asked) = [k \in 1..N |-> Meaning(x, asked, k, Rest(x, asked))]
  BY <1>9, Zenon DEF Rest
<1>11. Rest(x, asked) = [k \in 1..N |-> MeansWhat(x, asked, k, Rest(x, asked))]
  BY <1>10, <1>8
<1>12. \A k \in 1..N : Rest(x, asked)[k] = MeansWhat(x, asked, k, Rest(x, asked))
  BY <1>11
<1> DEFINE T == {k \in 1..N : Rest(x, asked)[k] \in Meanings}
<1> DEFINE R == Rest(x, asked)
<1>13. ASSUME NEW k \in 1..N, \A j \in 1..N : k < j => j \in T PROVE k \in T
  <2>1. R[k] = MeansWhat(x, asked, k, R)
    BY <1>12
  <2>2. CASE Stops(x, k)
    <3>1. StopRc(x, k) \in {"ok", "EINVAL"}
      BY DEF StopRc
    <3>2. [rc |-> StopRc(x, k), text |-> <<>>] \in Meanings
      BY <3>1, <1>2 DEF Meanings
    <3> QED
      BY <2>1, <2>2, <3>2, Zenon DEF MeansWhat
  <2>3. CASE ~Stops(x, k)
    <3>1. ShownAt(x, asked, k) \in Texts /\ NextOf(x, k) \in k + 1..N
      BY <1>1, <2>3, ShownNext
    <3>0. NextOf(x, k) \in 1..N /\ k < NextOf(x, k)
      BY <3>1, <1>1
    <3>2. R[NextOf(x, k)] \in Meanings
      BY <3>0, <1>13
    <3> DEFINE v == R[NextOf(x, k)]
    <3>3. v.rc \in {"ok", "EINVAL"} /\ v.text \in Texts
      BY <3>2 DEF Meanings
    <3>4. ShownAt(x, asked, k) \o v.text \in Texts
      BY <3>1, <3>3, ConcatProperties DEF Texts
    <3>5. [rc |-> v.rc, text |-> ShownAt(x, asked, k) \o v.text] \in Meanings
      BY <3>3, <3>4 DEF Meanings
    <3> QED
      BY <2>1, <2>3, <3>5, Zenon DEF MeansWhat
  <2> QED
    BY <2>2, <2>3
<1>14. \A k \in 1..N : k \in T
  <2> HIDE DEF T, N
  <2> QED
    BY <1>1, <1>13, FromBehind
<1> QED
  BY <1>11, <1>12, <1>14

LEMMA ExpansionIs == ASSUME NEW x, NEW asked PROVE Expansion(x, asked) = Rest(x, asked)[1]
BY Zenon DEF Expansion, Rest

\* What the writes still to do will add, of which there are at most four
\* unless the template is about colors.
WriteText(ws, k) == IF k <= Len(ws) THEN ws[k].text ELSE <<>>
Said(ws) == WriteText(ws, 1) \o (WriteText(ws, 2) \o (WriteText(ws, 3) \o WriteText(ws, 4)))

LEMMA WriteTexts ==
    ASSUME NEW ws \in Seq(Writes), NEW k \in Nat \ {0}
    PROVE  WriteText(ws, k) \in Texts
<1>0. Len(ws) \in Nat
  BY LenProperties
<1>1. <<>> \in Texts
  BY EmptySeq DEF Texts
<1>2. CASE k <= Len(ws)
  <2>1. ws[k] \in Writes
    BY <1>0, <1>2, ElementOfSeq
  <2> QED
    BY <1>2, <2>1 DEF WriteText, Writes
<1> QED
  BY <1>0, <1>1, <1>2 DEF WriteText

LEMMA SaidText == ASSUME NEW ws \in Seq(Writes) PROVE Said(ws) \in Texts
<1>1. /\ WriteText(ws, 1) \in Texts /\ WriteText(ws, 2) \in Texts
      /\ WriteText(ws, 3) \in Texts /\ WriteText(ws, 4) \in Texts
  BY WriteTexts
<1>2. WriteText(ws, 3) \o WriteText(ws, 4) \in Texts
  BY <1>1, ConcatProperties DEF Texts
<1>3. WriteText(ws, 2) \o (WriteText(ws, 3) \o WriteText(ws, 4)) \in Texts
  BY <1>1, <1>2, ConcatProperties DEF Texts
<1> QED
  BY <1>1, <1>3, ConcatProperties DEF Texts, Said

LEMMA JoinEmpty == ASSUME NEW txt \in Texts PROVE txt \o <<>> = txt /\ <<>> \o txt = txt
BY ConcatEmptySeq DEF Texts

LEMMA JoinAssociates ==
    ASSUME NEW txt \in Texts, NEW u \in Texts, NEW v \in Texts
    PROVE  (txt \o u) \o v = txt \o (u \o v)
BY ConcatAssociative DEF Texts

LEMMA SaidNothing == Said(<<>>) = <<>>
<1>1. <<>> \in Texts
  BY EmptySeq DEF Texts
<1>2. \A k \in {1, 2, 3, 4} : WriteText(<<>>, k) = <<>>
  BY DEF WriteText
<1>3. <<>> \o <<>> = <<>>
  BY <1>1, JoinEmpty
<1> QED
  BY <1>2, <1>3, Zenon DEF Said

LEMMA SaidHead ==
    ASSUME NEW ws \in Seq(Writes), ws # <<>>, Len(ws) <= 4
    PROVE  Said(ws) = Head(ws).text \o Said(Tail(ws))
<1>1. Len(ws) \in Nat /\ Tail(ws) \in Seq(Writes) /\ Len(Tail(ws)) = Len(ws) - 1 /\ Len(ws) >= 1
      /\ Head(ws) = ws[1]
  BY HeadTailProperties, LenProperties
<1>2. \A k \in 1..Len(Tail(ws)) : Tail(ws)[k] = ws[k + 1]
  BY HeadTailProperties
<1>3. \A k \in {1, 2, 3} : WriteText(Tail(ws), k) = WriteText(ws, k + 1)
  <2> TAKE k \in {1, 2, 3}
  <2>1. CASE k <= Len(ws) - 1
    <3>1. k \in 1..Len(Tail(ws)) /\ k + 1 <= Len(ws) /\ k <= Len(Tail(ws))
      BY <1>1, <2>1
    <3>2. Tail(ws)[k] = ws[k + 1]
      BY <3>1, <1>2
    <3> QED
      BY <3>1, <3>2, Zenon DEF WriteText
  <2>2. CASE ~(k <= Len(ws) - 1)
    <3>1. ~(k <= Len(Tail(ws))) /\ ~(k + 1 <= Len(ws))
      BY <1>1, <2>2
    <3> QED
      BY <3>1, Zenon DEF WriteText
  <2> QED
    BY <2>1, <2>2
<1>4. WriteText(Tail(ws), 4) = <<>>
  <2>1. ~(4 <= Len(Tail(ws)))
    BY <1>1
  <2> QED
    BY <2>1 DEF WriteText
<1>5. WriteText(ws, 1) = Head(ws).text
  BY <1>1 DEF WriteText
<1>6. /\ WriteText(Tail(ws), 1) = WriteText(ws, 2) /\ WriteText(Tail(ws), 2) = WriteText(ws, 3)
      /\ WriteText(Tail(ws), 3) = WriteText(ws, 4)
  <2>1. 1 + 1 = 2 /\ 2 + 1 = 3 /\ 3 + 1 = 4
    OBVIOUS
  <2>2. WriteText(Tail(ws), 1) = WriteText(ws, 1 + 1) /\ WriteText(Tail(ws), 2) = WriteText(ws, 2 + 1)
        /\ WriteText(Tail(ws), 3) = WriteText(ws, 3 + 1)
    BY <1>3
  <2> QED
    BY <2>1, <2>2
<1>7. WriteText(ws, 4) \o <<>> = WriteText(ws, 4)
  BY WriteTexts, JoinEmpty
<1>8. Said(Tail(ws)) = WriteText(ws, 2) \o (WriteText(ws, 3) \o WriteText(ws, 4))
  BY <1>4, <1>6, <1>7, Zenon DEF Said
<1> QED
  BY <1>5, <1>8, Zenon DEF Said

LEMMA SaidOne ==
    ASSUME NEW w \in Writes
    PROVE  Said(<<w>>) = w.text /\ <<w>> \in Seq(Writes) /\ Len(<<w>>) = 1
<1>1. <<w>> \in Seq(Writes) /\ <<w>> # <<>> /\ Len(<<w>>) <= 4 /\ Head(<<w>>) = w /\ Tail(<<w>>) = <<>>
  BY SingleSeq
<1>2. w.text \in Texts
  BY DEF Writes
<1>3. Said(<<w>>) = w.text \o <<>>
  BY <1>1, SaidHead, SaidNothing
<1> QED
  BY <1>1, <1>2, <1>3, JoinEmpty

LEMMA SaidFour ==
    ASSUME NEW ws, Len(ws) = 4
    PROVE  Said(ws) = ws[1].text \o (ws[2].text \o (ws[3].text \o ws[4].text))
<1>1. WriteText(ws, 1) = ws[1].text /\ WriteText(ws, 2) = ws[2].text
      /\ WriteText(ws, 3) = ws[3].text /\ WriteText(ws, 4) = ws[4].text
  BY DEF WriteText
<1> QED
  BY <1>1, Zenon DEF Said

-----------------------------------------------------------------------------
(* The invariant of the expansion.                                         *)

\* The template is that of the caller, with its date once subst_date ran.
Origin ==
    /\ given \in Texts
    /\ rc = "date" => in = given /\ i = 1 /\ todo = <<>> /\ out = <<>>
    /\ rc # "date" => in = given \/ in = Dated(given)

Want == Expansion(in, flags)
Ahead == Rest(in, flags)[i]
Cut == "shell" \in flags /\ Len(Want.text) >= Size

\* The template is what is written, what the writes still to do add, and what
\* its rest stands for; unless an output was cut.
Going ==
    /\ i \in 1..Len(in) + 1 /\ Len(todo) <= 4
    /\ \A k \in 1..Len(in) : in[k] # "@"
    /\ \A k \in 1..Len(todo) : todo[k].op = "fread" => "shell" \in flags
    /\ Want.rc = Ahead.rc
    /\ Want.text = out \o (Said(todo) \o Ahead.text) \/ Cut

Ended ==
    /\ rc = "ok" => out = Want.text \/ Cut
    /\ rc = "EINVAL" => Want.rc = "EINVAL"
    /\ rc = "ENOMEM" => \/ Len(Want.text) >= Size \/ LongKey
                        \/ "date" \in flags /\ Len(given) \notin 1..Size - 1

TextInv == BufferInv /\ Origin /\ (~Colored => (rc = "run" => Going) /\ Ended)

LEMMA InitText == SubstInit => TextInv
<1> SUFFICES ASSUME SubstInit PROVE TextInv
  OBVIOUS
<1>1. BufferInv
  BY InitBuffer
<1>2. given \in Texts
  BY SubstAssumption, StringsAreTexts DEF SubstInit
<1> QED
  BY <1>1, <1>2 DEF SubstInit, TextInv, Origin, Ended

\* What the meanings are made of.
LEMMA AheadTyped ==
    ASSUME in \in Texts, i \in 1..Len(in) + 1
    PROVE  /\ Ahead.text \in Texts /\ Ahead.rc \in {"ok", "EINVAL"}
           /\ Ahead = MeansWhat(in, flags, i, Rest(in, flags))
<1>1. Rest(in, flags)[i] \in Meanings /\ Rest(in, flags)[i] = MeansWhat(in, flags, i, Rest(in, flags))
  BY RestMeans
<1> QED
  BY <1>1 DEF Meanings, Ahead

LEMMA WantTyped ==
    ASSUME in \in Texts
    PROVE  Want = Rest(in, flags)[1] /\ Want.text \in Texts /\ Len(Want.text) \in Nat
<1>1. Want = Rest(in, flags)[1]
  BY ExpansionIs DEF Want
<1>2. 1 \in 1..Len(in) + 1
  BY LenProperties DEF Texts
<1>3. Rest(in, flags)[1] \in Meanings
  BY <1>2, RestMeans
<1>4. Want.text \in Texts
  BY <1>1, <1>3 DEF Meanings
<1> QED
  BY <1>1, <1>4, LenProperties DEF Texts

\* A step that leaves the template and the results alone.
LEMMA OriginKept ==
    ASSUME Origin, rc # "date", rc' # "date", UNCHANGED <<in, given>>
    PROVE  Origin'
BY DEF Origin

LEMMA DateText == TextInv /\ subst_date => TextInv'
<1> SUFFICES ASSUME TextInv, subst_date PROVE TextInv'
  OBVIOUS
<1>1. BufferInv /\ BufferInv'
  BY DateKeeps DEF TextInv
<1>2. rc = "date" /\ in = given /\ i = 1 /\ todo = <<>> /\ out = <<>> /\ given \in Texts /\ in' \in Texts
  BY <1>1 DEF subst_date, TextInv, Origin, BufferInv, SubstTypeOK
<1>3. CASE Fail("ENOMEM") /\ "date" \in flags /\ Len(in) \notin 1..Size - 1
  <2>1. rc' = "ENOMEM" /\ in' = in /\ given' = given /\ flags' = flags
    BY <1>3 DEF Fail
  <2>2. Origin'
    BY <2>1, <1>2 DEF Origin
  <2>3. Ended'
    BY <2>1, <1>2, <1>3 DEF Ended
  <2> QED
    BY <1>1, <2>1, <2>2, <2>3 DEF TextInv
<1>4. CASE (in' = in \/ in' = Dated(in)) /\ rc' = "run" /\ UNCHANGED <<flags, i, todo, out, given>>
  <2>1. Origin'
    BY <1>2, <1>4 DEF Origin
  <2>2. Ended'
    BY <1>4 DEF Ended
  <2>3. ASSUME ~Colored' PROVE Going'
    <3>0. Len(given) \in Nat /\ \A k \in 1..Len(given) : given[k] # "@"
      BY <2>3, <1>2, <1>4, LenProperties DEF Colored, Texts
    <3>1. Len(in') = Len(given) /\ \A k \in 1..Len(in') : in'[k] # "@"
      <4>1. CASE in' = in
        BY <4>1, <3>0, <1>2
      <4>2. CASE in' = Dated(in)
        <5>1. \A k \in 1..Len(given) : Dated(given)[k] # "@"
          BY <3>0, SubstAssumption DEF Dated
        <5>2. Len(Dated(given)) = Len(given)
          BY <3>0 DEF Dated
        <5> QED
          BY <5>1, <5>2, <4>2, <1>2
      <4> QED
        BY <4>1, <4>2, <1>4
    <3>2. i' = 1 /\ todo' = <<>> /\ out' = <<>> /\ Len(todo') = 0
      BY <1>2, <1>4
    <3>3. i' \in 1..Len(in') + 1
      BY <3>0, <3>1, <3>2
    <3>4. Want' = Rest(in', flags')[1]
      BY ExpansionIs DEF Want
    <3>5. Ahead' = Rest(in', flags')[1]
      BY <3>2 DEF Ahead
    <3>6. Rest(in', flags')[1] \in Meanings
      <4>1. 1 \in 1..Len(in') + 1
        BY <3>0, <3>1
      <4> QED
        BY <4>1, <1>2, RestMeans
    <3>7. Ahead'.text \in Texts
      BY <3>5, <3>6 DEF Meanings
    <3>8. out' \o (Said(todo') \o Ahead'.text) = Ahead'.text
      BY <3>2, <3>7, SaidNothing, JoinEmpty
    <3> QED
      BY <3>1, <3>2, <3>3, <3>4, <3>5, <3>8 DEF Going
  <2> QED
    BY <1>1, <1>4, <2>1, <2>2, <2>3 DEF TextInv
<1> QED
  BY <1>3, <1>4 DEF subst_date

\* A step with which the function fails, for a reason.
LEMMA FailText ==
    ASSUME TextInv, NEW why \in {"ENOMEM", "EINVAL", "overflow"}, Fail(why), rc = "run",
           ~Colored => /\ why = "ENOMEM" => Len(Want.text) >= Size \/ LongKey
                       /\ why = "EINVAL" => Want.rc = "EINVAL"
    PROVE  TextInv'
<1>1. BufferInv'
  BY FailKeeps DEF TextInv
<1>2. rc' = why /\ UNCHANGED <<in, flags, i, todo, given>>
  BY DEF Fail
<1>3. Origin'
  BY <1>2, OriginKept DEF TextInv
<1>4. rc' # "run" /\ rc' # "ok"
  BY <1>2
<1>5. Want' = Want /\ LongKey' = LongKey /\ Colored' = Colored
  BY <1>2 DEF Want, LongKey, Colored
<1>6. ~Colored' => Ended'
  BY <1>2, <1>4, <1>5 DEF Ended
<1> QED
  BY <1>1, <1>3, <1>4, <1>6 DEF TextInv

\* A write takes what it adds from what was still to be said.
LEMMA WriteSaid == TextInv /\ Write => TextInv'
<1> SUFFICES ASSUME TextInv, Write PROVE TextInv'
  OBVIOUS
<1> DEFINE w == Head(todo)
           txt == w.text
           cut == SubSeq(txt, 1, Size - Len(out) - 1)
<1>1. BufferInv /\ BufferInv' /\ Origin
  BY WriteKeeps DEF TextInv
<1>2. rc = "run" /\ todo # <<>>
  BY DEF Write
<1>3. /\ w \in Writes /\ todo \in Seq(Writes) /\ Tail(todo) \in Seq(Writes) /\ Len(todo) \in Nat
      /\ Len(Tail(todo)) = Len(todo) - 1 /\ w = todo[1] /\ Len(todo) >= 1
      /\ \A k \in 1..Len(Tail(todo)) : Tail(todo)[k] = todo[k + 1]
  BY <1>1, <1>2, HeadTailProperties, LenProperties DEF BufferInv, SubstTypeOK
<1>4. /\ w.op \in {"ccat", "scat", "fread"} /\ txt \in Texts /\ Len(txt) \in Nat
      /\ w.op = "ccat" => Len(txt) = 1
  BY <1>3, LenProperties DEF Writes, Texts
<1>5. out \in Texts /\ Len(out) \in Nat /\ Len(out) <= Size /\ Size \in Nat /\ in \in Texts
  BY <1>1, LenProperties, SubstAssumption DEF BufferInv, SubstTypeOK, BufferKept, Texts
<1>6. Want.text \in Texts /\ Len(Want.text) \in Nat
  BY <1>5, WantTyped
<1> HIDE DEF w, txt, cut
\* What is written, what is to be written and what comes behind.
<1>7. ASSUME ~Colored
      PROVE  /\ Going /\ Ahead.text \in Texts /\ Said(Tail(todo)) \in Texts
             /\ out \o (Said(todo) \o Ahead.text) = (out \o txt) \o (Said(Tail(todo)) \o Ahead.text)
             /\ Len(out) + Len(txt) <= Len(out \o (Said(todo) \o Ahead.text))
  <2>1. Going
    BY <1>2, <1>7 DEF TextInv
  <2>2. Ahead.text \in Texts
    BY <2>1, <1>5, AheadTyped DEF Going
  <2>3. Said(todo) = txt \o Said(Tail(todo))
    BY <1>2, <1>3, <2>1, SaidHead DEF Going, w, txt
  <2>4. Said(Tail(todo)) \in Texts /\ Said(Tail(todo)) \o Ahead.text \in Texts
    BY <1>3, <2>2, SaidText, ConcatProperties DEF Texts
  <2>5. Said(todo) \o Ahead.text = txt \o (Said(Tail(todo)) \o Ahead.text)
    <3>1. (txt \o Said(Tail(todo))) \o Ahead.text = txt \o (Said(Tail(todo)) \o Ahead.text)
      BY <1>4, <2>2, <2>4, JoinAssociates
    <3> QED
      BY <2>3, <3>1, Zenon
  <2>6. out \o (txt \o (Said(Tail(todo)) \o Ahead.text)) = (out \o txt) \o (Said(Tail(todo)) \o Ahead.text)
    BY <1>4, <1>5, <2>4, JoinAssociates
  <2> DEFINE u == Said(Tail(todo)) \o Ahead.text
  <2>7. out \o txt \in Texts /\ Len(out \o txt) = Len(out) + Len(txt) /\ u \in Texts /\ Len(u) \in Nat
    BY <1>4, <1>5, <2>4, ConcatProperties, LenProperties DEF Texts
  <2> HIDE DEF u
  <2>8. Len((out \o txt) \o u) = Len(out) + Len(txt) + Len(u)
    BY <2>7, ConcatProperties DEF Texts
  <2>9. Len(out) + Len(txt) <= Len((out \o txt) \o u)
    BY <2>7, <2>8, <1>4, <1>5
  <2> QED
    BY <2>1, <2>2, <2>4, <2>5, <2>6, <2>9 DEF u
<1>8. ASSUME ~Colored, Len(out) + Len(txt) >= Size PROVE Len(Want.text) >= Size
  <2>1. CASE Cut
    BY <2>1 DEF Cut
  <2>2. CASE Want.text = out \o (Said(todo) \o Ahead.text)
    <3>1. Len(out) + Len(txt) <= Len(Want.text)
      BY <1>7, <1>8, <2>2
    <3> QED
      BY <3>1, <1>4, <1>5, <1>6, <1>8
  <2> QED
    BY <1>7, <1>8, <2>1, <2>2 DEF Going
\* A write that goes on, if what it leaves out is an output that is cut.
<1>9. ASSUME UNCHANGED <<in, flags, i, rc, given>>, todo' = Tail(todo),
             ~Colored => out' = out \o txt \/ Cut
      PROVE  TextInv'
  <2>1. Want' = Want /\ Ahead' = Ahead /\ Cut' = Cut /\ Colored' = Colored
    BY <1>9 DEF Want, Ahead, Cut, Colored
  <2>2. Origin'
    BY <1>1, <1>2, <1>9, OriginKept
  <2>3. Ended'
    BY <1>2, <1>9 DEF Ended
  <2>4. ASSUME ~Colored PROVE Going'
    <3>1. i' \in 1..Len(in') + 1 /\ Len(todo') <= 4 /\ \A k \in 1..Len(in') : in'[k] # "@"
      BY <1>3, <1>7, <1>9, <2>4 DEF Going
    <3>2. \A k \in 1..Len(todo') : todo'[k].op = "fread" => "shell" \in flags'
      <4> SUFFICES ASSUME NEW k \in 1..Len(todo') PROVE todo'[k].op = "fread" => "shell" \in flags'
        OBVIOUS
      <4>1. k + 1 \in 1..Len(todo) /\ k \in 1..Len(Tail(todo))
        BY <1>3, <1>9
      <4>2. todo'[k] = todo[k + 1]
        BY <4>1, <1>3, <1>9
      <4> QED
        BY <4>1, <4>2, <1>7, <1>9, <2>4 DEF Going
    <3>3. Want'.text = out' \o (Said(todo') \o Ahead'.text) \/ Cut'
      BY <1>7, <1>9, <2>1, <2>4 DEF Going
    <3> QED
      BY <3>1, <3>2, <3>3, <1>7, <2>1, <2>4 DEF Going
  <2> QED
    BY <1>1, <2>1, <2>2, <2>3, <2>4 DEF TextInv
<1>10. CASE Fits(w)
  BY <1>9, <1>10 DEF Write, w, txt
<1>11. CASE ~Fits(w) /\ w.op = "fread"
  <2>1. out' = out \o cut /\ todo' = Tail(todo) /\ UNCHANGED <<in, flags, i, rc, given>>
    BY <1>11 DEF Write, w, txt, cut
  <2>2. Len(out) + Len(txt) >= Size
    BY <1>11, <1>4, <1>5 DEF Fits, txt
  <2>3. ASSUME ~Colored PROVE Cut
    <3>1. 1 \in 1..Len(todo)
      BY <1>3
    <3>2. "shell" \in flags
      BY <1>3, <1>7, <1>11, <2>3, <3>1 DEF Going
    <3> QED
      BY <1>8, <2>2, <2>3, <3>2 DEF Cut
  <2> QED
    BY <1>9, <2>1, <2>3
<1>12. CASE ~Fits(w) /\ w.op # "fread"
  <2>1. Fail("ENOMEM")
    BY <1>12 DEF Write, w
  <2>2. Len(out) + Len(txt) >= Size
    BY <1>12, <1>4, <1>5 DEF Fits, txt
  <2> QED
    BY <1>2, <1>8, <2>1, <2>2, FailText
<1> QED
  BY <1>10, <1>11, <1>12

\* The loop takes the character or construct that is ahead, and has it written.
LEMMA GoText ==
    ASSUME TextInv, More, NEW next, NEW writes \in Seq(Writes), Go(next, writes), BufferInv',
           ~Colored => /\ ~Stops(in, i) /\ next = NextOf(in, i) /\ Said(writes) = ShownAt(in, flags, i)
                       /\ Len(writes) <= 4
                       /\ \A k \in 1..Len(writes) : writes[k].op = "fread" => "shell" \in flags
    PROVE  TextInv'
<1>1. rc = "run" /\ todo = <<>> /\ i' = next /\ todo' = writes /\ UNCHANGED <<in, flags, out, rc, given>>
  BY DEF More, Go
<1>2. Want' = Want /\ Cut' = Cut /\ Colored' = Colored
  BY <1>1 DEF Want, Cut, Colored
<1>3. Origin'
  BY <1>1, OriginKept DEF TextInv
<1>4. Ended'
  BY <1>1 DEF Ended
<1>5. ASSUME ~Colored PROVE Going'
  <2>1. Going /\ in \in Texts /\ out \in Texts
    BY <1>1, <1>5 DEF TextInv, BufferInv, SubstTypeOK
  <2>2. i \in 1..Len(in) + 1
    BY <2>1 DEF Going
  <2> DEFINE R == Rest(in, flags)
  <2>3. Ahead = MeansWhat(in, flags, i, R) /\ Ahead.text \in Texts
    BY <2>1, <2>2, AheadTyped
  <2>4. ShownAt(in, flags, i) \in Texts /\ next \in i + 1..Len(in) + 1 /\ Len(in) \in Nat
    BY <2>1, <2>2, <1>5, ShownNext, LenProperties DEF Texts
  <2>5. next \in 1..Len(in) + 1
    BY <2>2, <2>4
  <2>6. R[next] \in Meanings /\ Ahead' = R[next]
    BY <2>1, <2>5, <1>1, RestMeans DEF Ahead
  <2>7. Ahead = [rc |-> R[next].rc, text |-> ShownAt(in, flags, i) \o R[next].text]
    BY <2>3, <1>5, Zenon DEF MeansWhat
  <2> HIDE DEF R
  <2>8. Ahead'.rc = Ahead.rc /\ Ahead.text = Said(writes) \o Ahead'.text
    BY <2>6, <2>7, <1>5
  <2>9. Said(todo) \o Ahead.text = Ahead.text
    BY <1>1, <2>3, SaidNothing, JoinEmpty
  <2>10. out \o (Said(todo) \o Ahead.text) = out' \o (Said(todo') \o Ahead'.text)
    BY <2>8, <2>9, <1>1
  <2> QED
    BY <1>1, <1>2, <1>5, <2>1, <2>5, <2>8, <2>10 DEF Going
<1> QED
  BY <1>1, <1>2, <1>3, <1>4, <1>5 DEF TextInv

\* A character that is written as it is.
LEMMA CharSaid ==
    ASSUME TextInv, i \in 1..Len(in)
    PROVE  /\ <<c(in[i])>> \in Seq(Writes) /\ Said(<<c(in[i])>>) = <<in[i]>> /\ Len(<<c(in[i])>>) <= 4
           /\ \A k \in 1..Len(<<c(in[i])>>) : <<c(in[i])>>[k].op # "fread"
<1>1. in[i] \in Char
  BY ElementOfSeq DEF TextInv, BufferInv, SubstTypeOK, Texts
<1>2. c(in[i]) \in Writes /\ c(in[i]).text = <<in[i]>> /\ c(in[i]).op = "ccat"
  BY <1>1, CharWrite DEF c
<1>3. Len(<<c(in[i])>>) = 1 /\ <<c(in[i])>>[1] = c(in[i])
  OBVIOUS
<1> QED
  BY <1>2, <1>3, SaidOne

LEMMA MorePlace ==
    ASSUME TextInv, More
    PROVE  i \in 1..Len(in) /\ Len(in) \in Nat /\ i \in Nat /\ in \in Texts
<1>1. in \in Texts /\ i \in Nat \ {0} /\ Len(in) \in Nat
  BY LenProperties DEF TextInv, BufferInv, SubstTypeOK, Texts
<1> QED
  BY <1>1 DEF More

LEMMA NulPlain == "NUL" \notin Reserved
BY DEF Reserved

LEMMA PlainText == TextInv /\ (literal \/ escape) => TextInv'
<1> SUFFICES ASSUME TextInv, literal \/ escape PROVE TextInv'
  OBVIOUS
<1>1. BufferInv' /\ More
  BY LoopKeeps DEF TextInv, literal, escape
<1>2. i \in 1..Len(in) /\ Len(in) \in Nat /\ i \in Nat
  BY <1>1, MorePlace
<1>3. ASSUME ~Construct(in, i), NEW next, Go(next, <<c(in[i])>>), next = NextOf(in, i)
      PROVE  TextInv'
  <2>1. ~Stops(in, i)
    BY <1>2, <1>3 DEF Stops
  <2>2. ShownAt(in, flags, i) = <<in[i]>>
    BY <1>3 DEF ShownAt
  <2>3. /\ <<c(in[i])>> \in Seq(Writes) /\ Said(<<c(in[i])>>) = <<in[i]>> /\ Len(<<c(in[i])>>) <= 4
        /\ \A k \in 1..Len(<<c(in[i])>>) : <<c(in[i])>>[k].op # "fread"
    BY <1>2, CharSaid
  <2> QED
    BY <1>1, <1>3, <2>1, <2>2, <2>3, GoText
<1>4. CASE literal
  <2>1. in[i] \notin Reserved /\ Go(i + 1, <<c(in[i])>>)
    BY <1>4 DEF literal
  <2>2. ~Construct(in, i) /\ NextOf(in, i) = i + 1
    BY <2>1 DEF Construct, NextOf
  <2> QED
    BY <1>3, <2>1, <2>2
<1>5. CASE escape
  <2>1. /\ in[i] \in Reserved /\ At(i + 1) # Brace
        /\ Go(IF At(i + 1) = in[i] THEN i + 2 ELSE i + 1, <<c(in[i])>>)
    BY <1>5, Zenon DEF escape, Brace
  <2>2. CASE i < Len(in)
    <3>1. i + 1 <= Len(in)
      BY <1>2, <2>2
    <3>2. At(i + 1) = in[i + 1]
      BY <3>1 DEF At
    <3>3. ~Construct(in, i)
      BY <2>1, <3>2 DEF Construct
    <3>4. NextOf(in, i) = IF At(i + 1) = in[i] THEN i + 2 ELSE i + 1
      BY <2>1, <2>2, <3>2, <3>3, Zenon DEF NextOf
    <3> QED
      BY <2>1, <3>3, <3>4, <1>3
  <2>3. CASE ~(i < Len(in))
    <3>1. ~(i + 1 <= Len(in))
      BY <1>2, <2>3
    <3>2. At(i + 1) = "NUL"
      BY <3>1 DEF At
    <3>3. At(i + 1) # in[i]
      BY <2>1, <3>2, NulPlain
    <3>4. ~Construct(in, i) /\ NextOf(in, i) = i + 1
      BY <2>3, Zenon DEF NextOf, Construct
    <3>5. Go(i + 1, <<c(in[i])>>)
      BY <2>1, <3>3, Zenon
    <3> QED
      BY <3>4, <3>5, <1>3
  <2> QED
    BY <2>2, <2>3
<1> QED
  BY <1>4, <1>5

\* A construct that is copied is written as it stands.
LEMMA CopySaid ==
    ASSUME NEW x \in Texts, NEW k \in 1..Len(x), Construct(x, k), Closing(x, k) # {}
    PROVE  /\ Said(subst_default(x[k], KeyOf(x, k))) = SubSeq(x, k, CloseOf(x, k))
           /\ Len(subst_default(x[k], KeyOf(x, k))) = 4
           /\ \A q \in 1..4 : subst_default(x[k], KeyOf(x, k))[q].op # "fread"
<1> DEFINE key == KeyOf(x, k)
           e == CloseOf(x, k)
<1>1. Len(x) \in Nat /\ k \in Nat /\ k >= 1
  BY LenProperties DEF Texts
<1>2. e \in k + 2..Len(x) /\ x[e] = Shut /\ x[k + 1] = Brace
  BY CloseBehind DEF Construct
<1>3. e \in Nat /\ e - 1 \in 1..Len(x) /\ e \in 1..Len(x) /\ k + 2 \in Nat \ {0} /\ k \in Nat \ {0}
  BY <1>1, <1>2
<1>4. key \in Texts
  BY <1>3, CutText DEF KeyOf
<1>5. x[k] \in Char
  BY ElementOfSeq DEF Texts
<1>6. Brace \in Char /\ Shut \in Char
  BY Zenon DEF Char, Brace, Shut
<1>7. c(x[k]) \in Writes /\ c(Brace) \in Writes /\ c(Shut) \in Writes /\ s(key) \in Writes
  BY <1>4, <1>5, <1>6, CharWrite, TextWrite
<1>8. subst_default(x[k], key) = <<c(x[k]), c(Brace), s(key), c(Shut)>>
  BY Zenon DEF subst_default, Brace, Shut
<1>9. Said(subst_default(x[k], key)) = <<x[k]>> \o (<<Brace>> \o (key \o <<Shut>>))
  <2> HIDE DEF key
  <2>1. Said(subst_default(x[k], key)) = c(x[k]).text \o (c(Brace).text \o (s(key).text \o c(Shut).text))
    <3> DEFINE ws == <<c(x[k]), c(Brace), s(key), c(Shut)>>
    <3>2. Len(ws) = 4 /\ ws[1] = c(x[k]) /\ ws[2] = c(Brace) /\ ws[3] = s(key) /\ ws[4] = c(Shut)
      OBVIOUS
    <3> HIDE DEF ws
    <3>3. Said(ws) = ws[1].text \o (ws[2].text \o (ws[3].text \o ws[4].text))
      BY <3>2, SaidFour
    <3>1. Said(<<c(x[k]), c(Brace), s(key), c(Shut)>>)
            = c(x[k]).text \o (c(Brace).text \o (s(key).text \o c(Shut).text))
      BY <3>2, <3>3 DEF ws
    <3> QED
      BY <1>8, <3>1, Zenon
  <2>2. \A y : c(y).text = <<y>>
    BY DEF c
  <2>3. s(key).text = key
    BY DEF s
  <2> QED
    BY <2>1, <2>2, <2>3, Zenon
<1>10. /\ Len(key) = e - k - 2
       /\ \A q \in 1..e - k - 2 : key[q] = x[k + 1 + q]
  <2>1. k + 2 \in Int /\ e - 1 \in Int /\ \A q \in k + 2..e - 1 : x[q] \in Char
    <3>1. \A q \in k + 2..e - 1 : q \in 1..Len(x)
      BY <1>1, <1>2, <1>3
    <3> QED
      BY <1>3, <3>1, ElementOfSeq DEF Texts
  <2>2. /\ Len(key) = IF k + 2 <= e - 1 THEN e - 1 - (k + 2) + 1 ELSE 0
        /\ \A q \in 1..e - 1 - (k + 2) + 1 : key[q] = x[k + 2 + q - 1]
    BY <2>1, SubSeqProperties DEF KeyOf
  <2> HIDE DEF key, e
  <2>3. Len(key) = e - k - 2
    BY <2>2, <1>1, <1>2, <1>3
  <2>4. \A q \in 1..e - k - 2 : key[q] = x[k + 1 + q]
    <3> TAKE q \in 1..e - k - 2
    <3>1. q \in 1..e - 1 - (k + 2) + 1 /\ k + 2 + q - 1 = k + 1 + q
      BY <1>1, <1>3
    <3> QED
      BY <2>2, <3>1
  <2> QED
    BY <2>3, <2>4
<1>11. <<x[k]>> \o (<<Brace>> \o (key \o <<Shut>>)) = SubSeq(x, k, e)
  <2> DEFINE a == <<x[k]>> \o (<<Brace>> \o (key \o <<Shut>>))
             b == SubSeq(x, k, e)
             L == e - k + 1
  <2>0. key \o <<Shut>> \in Texts /\ Len(key \o <<Shut>>) = e - k - 1
        /\ \A q \in 1..e - k - 1 : (key \o <<Shut>>)[q] = IF q <= e - k - 2 THEN key[q] ELSE Shut
    <3>0. <<Shut>> \in Texts /\ Len(<<Shut>>) = 1 /\ <<Shut>>[1] = Shut
      BY <1>6, SingleSeq DEF Texts
    <3>1. /\ key \o <<Shut>> \in Texts /\ Len(key \o <<Shut>>) = Len(key) + 1
          /\ \A q \in 1..Len(key) + 1 : (key \o <<Shut>>)[q] = IF q <= Len(key) THEN key[q] ELSE <<Shut>>[q - Len(key)]
      BY <1>4, <3>0, ConcatProperties DEF Texts
    <3>2. Len(key) + 1 = e - k - 1 /\ Len(key) = e - k - 2
      BY <1>10, <1>1, <1>3
    <3> HIDE DEF key, e
    <3>3. \A q \in 1..e - k - 1 : q <= e - k - 2 \/ q - (e - k - 2) = 1
      BY <1>1, <1>3
    <3> QED
      BY <3>0, <3>1, <3>2, <3>3
  <2>1. b \in Texts /\ Len(b) = L /\ \A q \in 1..L : b[q] = x[k + q - 1]
    <3>1. b \in Texts
      BY <1>3, CutText
    <3>2. \A q \in k..e : x[q] \in Char
      <4>1. \A q \in k..e : q \in 1..Len(x)
        BY <1>1, <1>2, <1>3
      <4> QED
        BY <4>1, ElementOfSeq DEF Texts
    <3>3. k \in Int /\ e \in Int /\ k <= e
      BY <1>1, <1>2, <1>3
    <3>4. Len(b) = (IF k <= e THEN e - k + 1 ELSE 0) /\ \A q \in 1..e - k + 1 : b[q] = x[k + q - 1]
      BY <3>2, <3>3, SubSeqProperties
    <3> QED
      BY <3>1, <3>3, <3>4
  <2> DEFINE txt == key \o <<Shut>>
             u == <<Brace>> \o txt
  <2>2. u \in Texts /\ Len(u) = e - k /\ u[1] = Brace /\ \A q \in 2..e - k : u[q] = txt[q - 1]
    <3>0. <<Brace>> \in Texts /\ Len(<<Brace>>) = 1 /\ <<Brace>>[1] = Brace
      BY <1>6, SingleSeq DEF Texts
    <3> HIDE DEF txt, key, e
    <3>1. /\ u \in Texts /\ Len(u) = 1 + Len(txt)
          /\ \A q \in 1..1 + Len(txt) : u[q] = IF q <= 1 THEN <<Brace>>[q] ELSE txt[q - 1]
      BY <2>0, <3>0, ConcatProperties DEF Texts, txt
    <3>2. 1 + Len(txt) = e - k /\ 1 \in 1..1 + Len(txt)
      BY <2>0, <1>1, <1>2, <1>3 DEF txt
    <3>3. \A q \in 2..e - k : q \in 1..1 + Len(txt) /\ ~(q <= 1)
      BY <3>2, <1>1, <1>3
    <3> QED
      BY <3>0, <3>1, <3>2, <3>3
  <2>3. a \in Texts /\ Len(a) = L /\ a[1] = x[k] /\ \A q \in 2..L : a[q] = u[q - 1]
    <3>0. <<x[k]>> \in Texts /\ Len(<<x[k]>>) = 1 /\ <<x[k]>>[1] = x[k]
      BY <1>5, SingleSeq DEF Texts
    <3> HIDE DEF u, txt, key, e
    <3>1. /\ <<x[k]>> \o u \in Texts /\ Len(<<x[k]>> \o u) = 1 + Len(u)
          /\ \A q \in 1..1 + Len(u) : (<<x[k]>> \o u)[q] = IF q <= 1 THEN <<x[k]>>[q] ELSE u[q - 1]
      BY <2>2, <3>0, ConcatProperties DEF Texts
    <3>2. 1 + Len(u) = L /\ 1 \in 1..1 + Len(u)
      BY <2>2, <1>1, <1>2, <1>3
    <3>3. \A q \in 2..L : q \in 1..1 + Len(u) /\ ~(q <= 1)
      BY <3>2, <1>1, <1>3
    <3>4. a = <<x[k]>> \o u
      BY DEF u, txt
    <3> HIDE DEF a, L
    <3> QED
      BY <3>0, <3>1, <3>2, <3>3, <3>4
  <2>4. \A q \in 1..L : a[q] = b[q]
    <3> TAKE q \in 1..L
    <3> HIDE DEF a, b, txt, u, key, e
    <3>0. q \in Nat /\ q >= 1 /\ q <= e - k + 1 /\ b[q] = x[k + q - 1]
      BY <2>1, <1>1, <1>3
    <3>1. CASE q = 1
      <4>1. k + q - 1 = k
        BY <3>1, <1>1
      <4> QED
        BY <4>1, <3>0, <3>1, <2>3
    <3>2. CASE q = 2
      <4>1. k + q - 1 = k + 1 /\ q - 1 = 1 /\ q \in 2..L
        BY <3>0, <3>2, <1>1, <1>3
      <4> QED
        BY <4>1, <3>0, <2>2, <2>3, <1>2
    <3>3. CASE q > 2
      <4>1. q \in 2..L /\ q - 1 \in 2..e - k /\ q - 1 - 1 = q - 2 /\ q - 2 \in 1..e - k - 1
        BY <3>0, <3>3, <1>1, <1>3
      <4>2. a[q] = txt[q - 2]
        BY <4>1, <2>2, <2>3
      <4>3. CASE q = e - k + 1
        <5>1. ~(q - 2 <= e - k - 2) /\ k + q - 1 = e
          BY <4>3, <1>1, <1>3
        <5> QED
          BY <4>1, <4>2, <5>1, <3>0, <2>0, <1>2 DEF txt
      <4>4. CASE q # e - k + 1
        <5>0. q <= e - k
          BY <4>4, <3>0, <1>1, <1>3
        <5>1. q - 2 <= e - k - 2 /\ q - 2 \in 1..e - k - 2 /\ k + q - 1 = k + 1 + (q - 2)
          <6>1. q \in Nat /\ k \in Nat /\ e \in Nat /\ q <= e - k /\ q > 2
            BY <5>0, <3>3, <3>0, <1>1, <1>3, Zenon
          <6> HIDE DEF L
          <6> QED
            BY <6>1
        <5> QED
          BY <4>1, <4>2, <5>1, <3>0, <2>0, <1>10 DEF txt
      <4> QED
        BY <4>3, <4>4
    <3> QED
      BY <3>0, <3>1, <3>2, <3>3
  <2> HIDE DEF a, b, L
  <2>5. a = b
    BY <2>1, <2>3, <2>4, SeqEqual DEF Texts
  <2> QED
    BY <2>5 DEF a, b
<1> HIDE DEF key, e
<1>12. Len(subst_default(x[k], key)) = 4 /\ \A q \in 1..4 : subst_default(x[k], key)[q].op # "fread"
  <2> DEFINE ws == <<c(x[k]), c(Brace), s(key), c(Shut)>>
  <2>1. Len(ws) = 4 /\ ws[1] = c(x[k]) /\ ws[2] = c(Brace) /\ ws[3] = s(key) /\ ws[4] = c(Shut)
    OBVIOUS
  <2>2. \A y : c(y).op # "fread" /\ s(y).op # "fread"
    BY DEF c, s
  <2> HIDE DEF ws
  <2>3. \A q \in 1..4 : ws[q].op # "fread"
    BY <2>1, <2>2
  <2> QED
    BY <2>1, <2>3, <1>8 DEF ws
<1> QED
  BY <1>9, <1>11, <1>12 DEF key, e

LEMMA BraceNul == Brace # "NUL"
BY Zenon DEF Brace

\* The names that the code and the meaning have for a construct.
LEMMA SameConstruct ==
    /\ Closes = Closing(in, i) /\ End = CloseOf(in, i) /\ Key = KeyOf(in, i)
<1>1. Closes = Closing(in, i)
  BY Zenon DEF Closes, Closing, Shut
<1>2. End = CloseOf(in, i)
  BY <1>1, Zenon DEF End, CloseOf
<1> QED
  BY <1>1, <1>2, Zenon DEF Key, KeyOf

LEMMA AtConstruct ==
    ASSUME TextInv, substitute
    PROVE  Construct(in, i) /\ i + 1 <= Len(in) /\ in[i] \in Reserved
<1>1. More /\ in[i] \in Reserved /\ At(i + 1) = Brace
  BY Zenon DEF substitute, Brace
<1>2. i \in 1..Len(in) /\ Len(in) \in Nat
  BY <1>1, MorePlace
<1>3. i + 1 <= Len(in)
  BY <1>1, BraceNul DEF At
<1>4. in[i + 1] = Brace
  BY <1>1, <1>3 DEF At
<1> QED
  BY <1>1, <1>2, <1>3, <1>4 DEF Construct

\* What replaces a construct that is not about colors is what it stands for.
LEMMA ReplacementSaid ==
    ASSUME in \in Texts, i \in 1..Len(in), Construct(in, i), Closing(in, i) # {}, in[i] # "@"
    PROVE  /\ Said(Replacement(in[i], Key)) = ValueOf(in, flags, i)
           /\ Replacement(in[i], Key) \in Seq(Writes) /\ Len(Replacement(in[i], Key)) <= 4
           /\ \A k \in 1..Len(Replacement(in[i], Key)) :
                 Replacement(in[i], Key)[k].op = "fread" => "shell" \in flags
<1> DEFINE key == KeyOf(in, i)
           token == in[i]
           r == Replacement(token, key)
<1>1. Key = key
  BY SameConstruct
<1>2. Len(in) \in Nat /\ CloseOf(in, i) \in i + 2..Len(in)
  BY CloseBehind, LenProperties DEF Texts
<1>3. key \in Texts
  <2>1. CloseOf(in, i) - 1 \in 1..Len(in) /\ i + 2 \in Nat \ {0}
    BY <1>2
  <2> QED
    BY <2>1, CutText DEF KeyOf
<1> HIDE DEF key
\* One write of a value.
<1>4. ASSUME NEW w \in Writes, r = <<w>>, w.text = ValueOf(in, flags, i),
             w.op = "fread" => "shell" \in flags
      PROVE  /\ Said(r) = ValueOf(in, flags, i) /\ r \in Seq(Writes) /\ Len(r) <= 4
             /\ \A k \in 1..Len(r) : r[k].op = "fread" => "shell" \in flags
  <2>1. Said(<<w>>) = w.text /\ <<w>> \in Seq(Writes) /\ Len(<<w>>) = 1 /\ <<w>>[1] = w
    BY SaidOne
  <2> HIDE DEF r
  <2> QED
    BY <1>4, <2>1
<1>5. \A table \in {Keywords, Env} : /\ find(table, key) \in Writes /\ find(table, key).op = "scat"
                                    /\ find(table, key).text = ValueIn(table, key)
  BY FindWrite DEF find, s, ValueIn
<1>6. CASE token = "#" /\ "keywords" \in flags
  <2>1. r = <<find(Keywords, key)>>
    BY <1>6 DEF Replacement
  <2>2. ValueOf(in, flags, i) = ValueIn(Keywords, key)
    BY <1>6 DEF ValueOf, key
  <2> HIDE DEF r
  <2> QED
    BY <1>1, <1>4, <1>5, <2>1, <2>2 DEF r
<1>7. CASE token = "$" /\ "env" \in flags
  <2>1. r = <<find(Env, key)>>
    BY <1>7 DEF Replacement
  <2>2. ValueOf(in, flags, i) = ValueIn(Env, key)
    BY <1>7 DEF ValueOf, key
  <2> HIDE DEF r
  <2> QED
    BY <1>1, <1>4, <1>5, <2>1, <2>2 DEF r
<1>8. CASE token = "!" /\ "shell" \in flags
  <2>1. r = <<f(ValueIn(Shell, key))>>
    BY <1>8 DEF Replacement, ValueIn
  <2>2. ValueOf(in, flags, i) = ValueIn(Shell, key)
    BY <1>8 DEF ValueOf, key
  <2>3. ValueIn(Shell, key) \in Texts
    <3>1. key \in DOMAIN Shell => Shell[key] \in Texts
      BY SubstAssumption, StringsAreTexts
    <3>2. <<>> \in Texts
      BY EmptySeq DEF Texts
    <3> QED
      BY <3>1, <3>2 DEF ValueIn
  <2>4. f(ValueIn(Shell, key)) \in Writes /\ f(ValueIn(Shell, key)).text = ValueIn(Shell, key)
    BY <2>3, TextWrite DEF f
  <2> HIDE DEF r
  <2> QED
    BY <1>1, <1>4, <1>8, <2>1, <2>2, <2>4 DEF r
<1>9. CASE /\ ~(token = "#" /\ "keywords" \in flags) /\ ~(token = "$" /\ "env" \in flags)
           /\ ~(token = "!" /\ "shell" \in flags)
  <2>1. r = subst_default(token, key)
    BY <1>9, Zenon DEF Replacement
  <2>2. ValueOf(in, flags, i) = SubSeq(in, i, CloseOf(in, i))
    BY <1>9, Zenon DEF ValueOf
  <2>3. /\ Said(subst_default(token, key)) = SubSeq(in, i, CloseOf(in, i))
        /\ Len(subst_default(token, key)) = 4
        /\ \A q \in 1..4 : subst_default(token, key)[q].op # "fread"
    BY CopySaid DEF key
  <2>4. subst_default(token, key) \in Seq(Writes)
    <3>1. token \in Char
      BY ElementOfSeq DEF Texts
    <3> QED
      BY <1>3, <3>1, DefaultWrites
  <2> HIDE DEF r, token
  <2>5. /\ Said(r) = ValueOf(in, flags, i) /\ r \in Seq(Writes) /\ Len(r) <= 4
        /\ \A k \in 1..Len(r) : r[k].op = "fread" => "shell" \in flags
    BY <2>1, <2>2, <2>3, <2>4
  <2> QED
    BY <1>1, <2>5 DEF r, token
<1> QED
  BY <1>6, <1>7, <1>8, <1>9

\* The meaning of a construct that is not closed, and of one that is cut
\* behind its brace.
LEMMA StopMeans ==
    ASSUME TextInv, ~Colored, rc = "run", Stops(in, i)
    PROVE  Going /\ Ahead.text = <<>> /\ Ahead.rc = StopRc(in, i)
<1>1. Going /\ in \in Texts
  BY DEF TextInv, BufferInv, SubstTypeOK
<1>2. Ahead = MeansWhat(in, flags, i, Rest(in, flags))
  BY <1>1, AheadTyped DEF Going
<1>3. Ahead = [rc |-> StopRc(in, i), text |-> <<>>]
  BY <1>2, Zenon DEF MeansWhat
<1> QED
  BY <1>1, <1>3

LEMMA DropText ==
    ASSUME TextInv, substitute, i + 2 > Len(in), Go(i + 2, <<>>)
    PROVE  TextInv'
<1>1. More /\ BufferInv'
  BY LoopKeeps DEF TextInv, substitute
<1>2. /\ i \in 1..Len(in) /\ Len(in) \in Nat /\ in \in Texts /\ Construct(in, i) /\ i + 1 <= Len(in)
  BY <1>1, MorePlace, AtConstruct
<1>3. rc = "run" /\ todo = <<>> /\ i' = i + 2 /\ todo' = <<>> /\ UNCHANGED <<in, flags, out, rc, given>>
  BY <1>1 DEF More, Go
<1>4. Want' = Want /\ Cut' = Cut /\ Colored' = Colored
  BY <1>3 DEF Want, Cut, Colored
<1>5. Origin' /\ Ended'
  BY <1>3, OriginKept DEF TextInv, Ended
<1>6. i + 1 = Len(in) /\ i + 2 = Len(in) + 1 /\ i + 2 \in 1..Len(in) + 1 /\ i + 2 > Len(in)
  BY <1>2
<1>7. Stops(in, i) /\ StopRc(in, i) = "ok" /\ Stops(in, i + 2) /\ StopRc(in, i + 2) = "ok"
  <2>1. i + 2 >= Len(in)
    BY <1>6, <1>2
  <2> QED
    BY <1>2, <1>6, <2>1, Zenon DEF Stops, StopRc
<1>8. ASSUME ~Colored PROVE Going'
  <2>1. Going /\ Ahead.text = <<>> /\ Ahead.rc = "ok"
    BY <1>3, <1>7, <1>8, StopMeans
  <2>2. Ahead' = Rest(in, flags)[i + 2]
    BY <1>3 DEF Ahead
  <2>3. Rest(in, flags)[i + 2] = MeansWhat(in, flags, i + 2, Rest(in, flags))
    BY <1>2, <1>6, RestMeans
  <2>4. Ahead' = [rc |-> "ok", text |-> <<>>]
    BY <1>7, <2>2, <2>3, Zenon DEF MeansWhat
  <2>5. Ahead'.text = Ahead.text /\ Ahead'.rc = Ahead.rc
    BY <2>1, <2>4
  <2> QED
    BY <1>3, <1>4, <1>6, <1>8, <2>1, <2>5 DEF Going
<1> QED
  BY <1>1, <1>3, <1>4, <1>5, <1>8 DEF TextInv

LEMMA ConstructText == TextInv /\ substitute => TextInv'
<1> SUFFICES ASSUME TextInv, substitute PROVE TextInv'
  OBVIOUS
<1>1. More /\ BufferInv' /\ rc = "run"
  BY LoopKeeps DEF TextInv, substitute, More
<1>2. /\ i \in 1..Len(in) /\ Len(in) \in Nat /\ in \in Texts /\ Construct(in, i) /\ i + 1 <= Len(in)
      /\ in[i] \in Reserved
  BY <1>1, MorePlace, AtConstruct
<1>3. Closes = Closing(in, i) /\ End = CloseOf(in, i) /\ Key = KeyOf(in, i)
  BY SameConstruct
<1>4. CASE i + 2 > Len(in)
  <2>1. Go(i + 2, <<>>)
    BY <1>4 DEF substitute
  <2> QED
    BY <1>4, <2>1, DropText
<1>5. CASE ~(i + 2 > Len(in)) /\ Closes = {}
  <2>1. Fail("EINVAL")
    BY <1>5 DEF substitute
  <2>2. Stops(in, i) /\ StopRc(in, i) = "EINVAL"
    <3>1. ~(i >= Len(in)) /\ i + 1 # Len(in)
      BY <1>2, <1>5
    <3> QED
      BY <1>2, <1>3, <1>5, <3>1, Zenon DEF Stops, StopRc
  <2>3. ~Colored => Want.rc = "EINVAL"
    BY <1>1, <2>2, StopMeans DEF Going
  <2> QED
    BY <1>1, <2>1, <2>3, FailText
<1>6. CASE ~(i + 2 > Len(in)) /\ Closes # {} /\ Len(Key) >= KeyMax
  <2>1. Fail("ENOMEM")
    BY <1>6 DEF substitute
  <2>2. /\ CloseOf(in, i) \in i + 2..Len(in) /\ in[CloseOf(in, i)] = Shut
        /\ \A y \in Closing(in, i) : CloseOf(in, i) <= y
    BY <1>2, <1>3, <1>6, CloseBehind
  <2> DEFINE e == CloseOf(in, i)
  <2>3. e \in Nat /\ e - 1 \in 1..Len(in) /\ KeyMax \in Nat \ {0} /\ e \in i + 2..Len(in)
    BY <1>2, <2>2, SubstAssumption
  <2> HIDE DEF e
  <2>4. e >= i + 2 + KeyMax
    <3>1. Len(SubSeq(in, i + 2, e - 1)) = IF i + 2 <= e - 1 THEN e - 1 - (i + 2) + 1 ELSE 0
      <4>1. \A q \in i + 2..e - 1 : in[q] \in Char
        <5>1. \A q \in i + 2..e - 1 : q \in 1..Len(in)
          BY <1>2, <2>3
        <5> QED
          BY <1>2, <5>1, ElementOfSeq DEF Texts
      <4>2. i + 2 \in Int /\ e - 1 \in Int
        BY <1>2, <2>3
      <4> QED
        BY <4>1, <4>2, SubSeqProperties
    <3>2. Len(SubSeq(in, i + 2, e - 1)) >= KeyMax
      BY <1>3, <1>6 DEF KeyOf, e
    <3> QED
      BY <3>1, <3>2, <2>3, <1>2
  <2>5. \A y \in i + 2..e - 1 : in[y] # Shut
    <3> SUFFICES ASSUME NEW y \in i + 2..e - 1, in[y] = Shut PROVE FALSE
      OBVIOUS
    <3>1. y \in i + 2..Len(in) /\ ~(e <= y)
      BY <1>2, <2>3
    <3>2. y \in Closing(in, i)
      BY <3>1 DEF Closing
    <3> QED
      BY <2>2, <3>1, <3>2 DEF e
  <2>6. i \in 1..Len(in) - 1 /\ e \in i + 2 + KeyMax..Len(in)
    BY <1>2, <2>3, <2>4
  <2>7. in[i] \in Reserved /\ in[i + 1] = Brace /\ in[e] = Shut
    BY <1>2, <2>2 DEF Construct, e
  <2>8. LongKey
    BY <2>5, <2>6, <2>7, Zenon DEF LongKey, Brace, Shut
  <2> QED
    BY <1>1, <2>1, <2>8, FailText
<1>7. CASE /\ ~(i + 2 > Len(in)) /\ Closes # {} /\ ~(Len(Key) >= KeyMax)
           /\ Overflows(in[i], Key)
  <2>1. Fail("overflow")
    BY <1>7, Zenon DEF substitute
  <2> QED
    BY <1>1, <2>1, FailText
<1>8. CASE ~(i + 2 > Len(in)) /\ Closes # {} /\ ~(Len(Key) >= KeyMax) /\ ~Overflows(in[i], Key)
  <2>1. Go(End + 1, Replacement(in[i], Key))
    BY <1>8, Zenon DEF substitute
  <2>2. Replacement(in[i], Key) \in Seq(Writes)
    <3>1. Key \in Texts
      BY <1>8, KeyText DEF TextInv, BufferInv
    <3>2. in[i] \in Char
      BY <1>2, ElementOfSeq DEF Texts
    <3> QED
      BY <3>1, <3>2, ReplacementWrites
  <2>3. ASSUME ~Colored
        PROVE  /\ ~Stops(in, i) /\ End + 1 = NextOf(in, i)
               /\ Said(Replacement(in[i], Key)) = ShownAt(in, flags, i)
               /\ Len(Replacement(in[i], Key)) <= 4
               /\ \A k \in 1..Len(Replacement(in[i], Key)) :
                     Replacement(in[i], Key)[k].op = "fread" => "shell" \in flags
    <3>1. Going
      BY <1>1, <2>3 DEF TextInv
    <3>2. in[i] # "@"
      BY <1>2, <3>1 DEF Going
    <3>3. ~(i > Len(in)) /\ i + 1 # Len(in)
      BY <1>2, <1>8
    <3>4. ~Stops(in, i) /\ End + 1 = NextOf(in, i) /\ ShownAt(in, flags, i) = ValueOf(in, flags, i)
      BY <1>2, <1>3, <1>8, <3>3, Zenon DEF Stops, NextOf, ShownAt
    <3> QED
      BY <1>2, <1>3, <1>8, <3>2, <3>4, ReplacementSaid
  <2> QED
    BY <1>1, <2>1, <2>2, <2>3, GoText
<1> QED
  BY <1>4, <1>5, <1>6, <1>7, <1>8

\* At the end of the input nothing is ahead; in a full buffer too much is.
LEMMA EndText == TextInv /\ irc_subst => TextInv'
<1> SUFFICES ASSUME TextInv, irc_subst PROVE TextInv'
  OBVIOUS
<1>1. BufferInv' /\ rc = "run" /\ todo = <<>> /\ ~More
  BY EndKeeps DEF TextInv, irc_subst
<1>2. out \in Texts /\ Len(out) \in Nat /\ in \in Texts /\ Len(in) \in Nat /\ Size \in Nat
  BY LenProperties, SubstAssumption DEF TextInv, BufferInv, SubstTypeOK, Texts
<1>3. ASSUME ~Colored
      PROVE  /\ Going /\ Ahead.text \in Texts /\ i \in 1..Len(in) + 1
             /\ Want.text = out \o Ahead.text \/ Cut
  <2>1. Going
    BY <1>1, <1>3 DEF TextInv
  <2>2. Ahead.text \in Texts
    BY <1>2, <2>1, AheadTyped DEF Going
  <2>3. Said(todo) \o Ahead.text = Ahead.text
    BY <1>1, <2>2, SaidNothing, JoinEmpty
  <2> QED
    BY <2>1, <2>2, <2>3 DEF Going
<1>4. CASE Len(out) >= Size
  <2>1. Fail("ENOMEM")
    BY <1>4 DEF irc_subst
  <2>2. ASSUME ~Colored PROVE Len(Want.text) >= Size
    <3>1. CASE Cut
      BY <3>1 DEF Cut
    <3>2. CASE Want.text = out \o Ahead.text
      <4>1. Len(Want.text) = Len(out) + Len(Ahead.text) /\ Len(Ahead.text) \in Nat
        BY <1>2, <1>3, <2>2, <3>2, ConcatProperties, LenProperties DEF Texts
      <4> QED
        BY <4>1, <1>2, <1>4
    <3> QED
      BY <1>3, <2>2, <3>1, <3>2
  <2> QED
    BY <1>1, <2>1, <2>2, FailText
<1>5. CASE ~(Len(out) >= Size)
  <2>1. rc' = "ok" /\ UNCHANGED <<in, flags, i, todo, out, given>>
    BY <1>5 DEF irc_subst
  <2>2. Want' = Want /\ Cut' = Cut /\ Colored' = Colored
    BY <2>1 DEF Want, Cut, Colored
  <2>3. Origin'
    BY <1>1, <2>1, OriginKept DEF TextInv
  <2>4. ASSUME ~Colored PROVE out = Want.text \/ Cut
    <3>1. i > Len(in)
      BY <1>1, <1>2, <1>3, <1>5, <2>4 DEF More
    <3>2. Stops(in, i)
      BY <3>1 DEF Stops
    <3>3. Ahead.text = <<>>
      BY <1>1, <2>4, <3>2, StopMeans
    <3>4. out \o Ahead.text = out
      BY <1>2, <3>3, JoinEmpty
    <3> QED
      BY <1>3, <2>4, <3>4
  <2>5. ~Colored => Ended'
    BY <2>1, <2>2, <2>4 DEF Ended
  <2> QED
    BY <1>1, <2>1, <2>2, <2>3, <2>5 DEF TextInv
<1> QED
  BY <1>4, <1>5

LEMMA TextStep == TextInv /\ [SubstNext]_substVars => TextInv'
<1> SUFFICES ASSUME TextInv, [SubstNext]_substVars PROVE TextInv'
  OBVIOUS
<1>1. CASE UNCHANGED substVars
  <2>1. UNCHANGED <<in, flags, i, todo, out, rc, given>>
    BY <1>1 DEF substVars
  <2>2. BufferInv'
    BY <1>1, BufferStep DEF TextInv
  <2>3. Origin'
    BY <2>1 DEF TextInv, Origin
  <2>4. Want' = Want /\ Cut' = Cut /\ Ahead' = Ahead /\ LongKey' = LongKey /\ Colored' = Colored
    BY <2>1 DEF Want, Cut, Ahead, LongKey, Colored
  <2>5. Going' = Going
    BY <2>1, <2>4 DEF Going
  <2>6. Ended' = Ended
    BY <2>1, <2>4 DEF Ended
  <2> QED
    BY <2>1, <2>2, <2>3, <2>4, <2>5, <2>6 DEF TextInv
<1> QED
  BY <1>1, DateText, WriteSaid, PlainText, ConstructText, EndText DEF SubstNext

Twice(x) == CHOOSE g : g = [k \in 1..Len(x) + 1 |-> Doubled(x, k, g)]

\* Every text can be doubled, from every character on.
LEMMA TwiceIs ==
    ASSUME NEW x \in Texts
    PROVE  /\ Twice(x) \in [1..Len(x) + 1 -> Texts]
           /\ \A k \in 1..Len(x) + 1 : Twice(x)[k] = Doubled(x, k, Twice(x))
<1> DEFINE N == Len(x) + 1
<1>1. Len(x) \in Nat /\ N \in Nat
  BY LenProperties DEF Texts
<1>2. <<>> \in Texts
  BY EmptySeq DEF Texts
<1>3. ASSUME NEW k \in 1..N, NEW g, k <= Len(x) => g[k + 1] \in Texts
      PROVE  Doubled(x, k, g) \in Texts
  <2>1. CASE k > Len(x)
    BY <1>2, <2>1 DEF Doubled
  <2>2. CASE ~(k > Len(x))
    <3>0. k \in 1..Len(x) /\ k <= Len(x)
      BY <1>1, <2>2
    <3>1. x[k] \in Char
      BY <3>0, ElementOfSeq DEF Texts
    <3>2. <<x[k]>> \in Texts /\ <<x[k], x[k]>> \in Texts
      BY <3>1, SingleSeq, PairSeq DEF Texts
    <3> DEFINE a == IF x[k] \in Reserved THEN <<x[k], x[k]>> ELSE <<x[k]>>
    <3>3. a \in Texts /\ g[k + 1] \in Texts
      BY <3>0, <3>2, <1>3
    <3> HIDE DEF a
    <3>4. a \o g[k + 1] \in Texts
      BY <3>3, ConcatProperties DEF Texts
    <3> QED
      BY <2>2, <3>4, Zenon DEF Doubled, a
  <2> QED
    BY <2>1, <2>2
<1> DEFINE step == [k \in 1..N |-> [g \in [1..N -> Texts] |-> Doubled(x, k, g)]]
<1>4. step \in [1..N -> [[1..N -> Texts] -> Texts]]
  <2> SUFFICES ASSUME NEW k \in 1..N, NEW g \in [1..N -> Texts] PROVE Doubled(x, k, g) \in Texts
    OBVIOUS
  <2>1. k <= Len(x) => k + 1 \in 1..N
    BY <1>1
  <2> QED
    BY <1>3, <2>1
<1>5. LooksBehind(N, Texts, step)
  <2> SUFFICES ASSUME NEW k \in 1..N, NEW g \in [1..N -> Texts], NEW h \in [1..N -> Texts],
                      \A j \in 1..N : k < j => g[j] = h[j]
               PROVE  Doubled(x, k, g) = Doubled(x, k, h)
    BY DEF LooksBehind
  <2>1. CASE k > Len(x)
    BY <2>1 DEF Doubled
  <2>2. CASE ~(k > Len(x))
    <3>1. k + 1 \in 1..N /\ k < k + 1
      BY <1>1, <2>2
    <3>2. g[k + 1] = h[k + 1]
      BY <3>1
    <3> QED
      BY <2>2, <3>2, Zenon DEF Doubled
  <2> QED
    BY <2>1, <2>2
<1>6. PICK g \in [1..N -> Texts] : Solution(g, N, step)
  <2> HIDE DEF N, step
  <2> QED
    BY <1>1, <1>2, <1>4, <1>5, Solvable
<1>7. \A k \in 1..N : g[k] = Doubled(x, k, g)
  BY <1>6 DEF Solution
<1>8. g = [k \in 1..N |-> Doubled(x, k, g)]
  BY <1>7
<1> DEFINE R == Twice(x)
<1>9. R = [k \in 1..N |-> Doubled(x, k, R)]
  BY <1>8, Zenon DEF Twice
<1>10. \A k \in 1..N : R[k] = Doubled(x, k, R)
  <2> HIDE DEF R
  <2> QED
    BY <1>9
<1> DEFINE T == {k \in 1..N : R[k] \in Texts}
<1>11. ASSUME NEW k \in 1..N, \A j \in 1..N : k < j => j \in T PROVE k \in T
  <2> HIDE DEF R
  <2>1. k <= Len(x) => R[k + 1] \in Texts
    <3> SUFFICES ASSUME k <= Len(x) PROVE R[k + 1] \in Texts
      OBVIOUS
    <3>1. k + 1 \in 1..N /\ k < k + 1
      BY <1>1
    <3> QED
      BY <3>1, <1>11
  <2>2. Doubled(x, k, R) \in Texts
    BY <1>3, <2>1
  <2> QED
    BY <1>10, <2>2
<1>12. \A k \in 1..N : k \in T
  <2> HIDE DEF T, N
  <2> QED
    BY <1>1, <1>11, FromBehind
<1> HIDE DEF R
<1>13. R \in [1..N -> Texts]
  BY <1>9, <1>12
<1> QED
  BY <1>10, <1>13 DEF R

LEMMA EscapeIs == ASSUME NEW x PROVE Escape(x) = Twice(x)[1]
BY Zenon DEF Escape, Twice

\* What a text holds from k on.
Matches(txt, k, r) ==
    /\ Len(txt) = Len(r) + (k - 1)
    /\ \A j \in 1..Len(r) : txt[k + j - 1] = r[j]

\* A text that matches behind k a character, or two, and then r matches r behind.
LEMMA MatchOne ==
    ASSUME NEW txt, NEW k \in Nat \ {0}, NEW a \in Char, NEW r \in Texts, Matches(txt, k, <<a>> \o r)
    PROVE  txt[k] = a /\ Matches(txt, k + 1, r) /\ k + 1 \in 1..Len(txt) + 1
<1>1. /\ Len(r) \in Nat /\ Len(<<a>> \o r) = 1 + Len(r)
      /\ \A j \in 1..1 + Len(r) : (<<a>> \o r)[j] = IF j <= 1 THEN a ELSE r[j - 1]
  <2>1. <<a>> \in Texts /\ Len(<<a>>) = 1 /\ <<a>>[1] = a
    BY SingleSeq DEF Texts
  <2>2. Len(r) \in Nat
    BY LenProperties DEF Texts
  <2>3. /\ Len(<<a>> \o r) = 1 + Len(r)
        /\ \A j \in 1..1 + Len(r) : (<<a>> \o r)[j] = IF j <= 1 THEN <<a>>[j] ELSE r[j - 1]
    BY <2>1, ConcatProperties DEF Texts
  <2> QED
    BY <2>1, <2>2, <2>3
<1> DEFINE u == <<a>> \o r
<1> HIDE DEF u
<1>2. Len(u) = 1 + Len(r) /\ \A j \in 1..1 + Len(r) : u[j] = IF j <= 1 THEN a ELSE r[j - 1]
  BY <1>1 DEF u
<1>3. Len(txt) = Len(u) + (k - 1) /\ \A j \in 1..Len(u) : txt[k + j - 1] = u[j]
  BY DEF Matches, u
<1>4. Len(txt) = Len(r) + (k + 1 - 1) /\ Len(txt) \in Nat
  BY <1>1, <1>2, <1>3
<1>5. txt[k] = a
  <2>1. 1 \in 1..Len(u) /\ k + 1 - 1 = k
    BY <1>1, <1>2
  <2>2. txt[k + 1 - 1] = u[1] /\ u[1] = a
    BY <1>2, <1>3, <2>1
  <2> QED
    BY <2>1, <2>2
<1>6. \A j \in 1..Len(r) : txt[k + 1 + j - 1] = r[j]
  <2> TAKE j \in 1..Len(r)
  <2>1. j + 1 \in 1..Len(u) /\ k + (j + 1) - 1 = k + 1 + j - 1 /\ ~(j + 1 <= 1) /\ j + 1 - 1 = j
    BY <1>1, <1>2
  <2>2. txt[k + (j + 1) - 1] = u[j + 1] /\ u[j + 1] = r[j + 1 - 1]
    BY <1>2, <1>3, <2>1
  <2> QED
    BY <2>1, <2>2
<1> QED
  BY <1>1, <1>4, <1>5, <1>6 DEF Matches

LEMMA MatchTwo ==
    ASSUME NEW txt, NEW k \in Nat \ {0}, NEW a \in Char, NEW r \in Texts, Matches(txt, k, <<a, a>> \o r)
    PROVE  /\ txt[k] = a /\ txt[k + 1] = a /\ Matches(txt, k + 2, r)
           /\ k + 2 \in 1..Len(txt) + 1 /\ k + 1 <= Len(txt)
<1>1. <<a>> \in Texts
  BY SingleSeq DEF Texts
<1>2. <<a, a>> \o r = <<a>> \o (<<a>> \o r)
  <2>1. <<a, a>> = <<a>> \o <<a>>
    OBVIOUS
  <2> QED
    BY <1>1, <2>1, JoinAssociates
<1>3. <<a>> \o r \in Texts
  BY <1>1, ConcatProperties DEF Texts
<1>4. txt[k] = a /\ Matches(txt, k + 1, <<a>> \o r)
  BY <1>2, <1>3, MatchOne
<1>5. txt[k + 1] = a /\ Matches(txt, k + 1 + 1, r) /\ k + 1 + 1 \in 1..Len(txt) + 1
  BY <1>4, MatchOne
<1>6. k + 1 + 1 = k + 2 /\ Len(txt) \in Nat
  <2>1. Len(txt) = Len(r) + (k + 1 + 1 - 1) /\ Len(r) \in Nat
    BY <1>5, LenProperties DEF Matches, Texts
  <2> QED
    BY <2>1
<1> QED
  BY <1>4, <1>5, <1>6

\* The first characters of a text.
Until(x, q) == SubSeq(x, 1, q)

LEMMA UntilIs ==
    ASSUME NEW x \in Texts, NEW q \in 0..Len(x)
    PROVE  Until(x, q) \in Texts /\ Len(Until(x, q)) = q /\ \A k \in 1..q : Until(x, q)[k] = x[k]
<1>1. Len(x) \in Nat /\ q \in Nat
  BY LenProperties DEF Texts
<1>2. 1 \in Int /\ q \in Int /\ \A k \in 1..q : x[k] \in Char
  <2>1. \A k \in 1..q : k \in 1..Len(x)
    BY <1>1
  <2> QED
    BY <1>1, <2>1, ElementOfSeq DEF Texts
<1>3. /\ SubSeq(x, 1, q) \in Seq(Char)
      /\ Len(SubSeq(x, 1, q)) = IF 1 <= q THEN q - 1 + 1 ELSE 0
      /\ \A k \in 1..q - 1 + 1 : SubSeq(x, 1, q)[k] = x[1 + k - 1]
  BY <1>2, SubSeqProperties
<1>4. \A k \in 1..q : k \in 1..q - 1 + 1 /\ 1 + k - 1 = k
  BY <1>1
<1>5. Len(SubSeq(x, 1, q)) = q
  BY <1>1, <1>3
<1>6. \A k \in 1..q : SubSeq(x, 1, q)[k] = x[k]
  BY <1>3, <1>4
<1> QED
  BY <1>3, <1>5, <1>6 DEF Until, Texts

LEMMA UntilAll == ASSUME NEW x \in Texts PROVE Until(x, Len(x)) = x
<1>1. Len(x) \in Nat /\ Len(x) \in 0..Len(x)
  BY LenProperties DEF Texts
<1>2. Until(x, Len(x)) \in Texts /\ Len(Until(x, Len(x))) = Len(x)
      /\ \A k \in 1..Len(x) : Until(x, Len(x))[k] = x[k]
  BY <1>1, UntilIs
<1> QED
  BY <1>2, SeqEqual DEF Texts

LEMMA UntilNext ==
    ASSUME NEW x \in Texts, NEW q \in 1..Len(x)
    PROVE  Until(x, q - 1) \o <<x[q]>> = Until(x, q)
<1>1. Len(x) \in Nat /\ q \in Nat /\ q - 1 \in 0..Len(x) /\ q \in 0..Len(x)
  BY LenProperties DEF Texts
<1> DEFINE a == Until(x, q - 1)
           b == Until(x, q)
           d == a \o <<x[q]>>
<1>2. /\ a \in Texts /\ Len(a) = q - 1 /\ \A k \in 1..q - 1 : a[k] = x[k]
      /\ b \in Texts /\ Len(b) = q /\ \A k \in 1..q : b[k] = x[k]
  BY <1>1, UntilIs
<1>3. <<x[q]>> \in Texts /\ Len(<<x[q]>>) = 1 /\ <<x[q]>>[1] = x[q]
  BY ElementOfSeq, SingleSeq DEF Texts
<1> HIDE DEF a, b
<1>4. /\ d \in Texts /\ Len(d) = q - 1 + 1
      /\ \A k \in 1..q - 1 + 1 : d[k] = IF k <= q - 1 THEN a[k] ELSE <<x[q]>>[k - (q - 1)]
  BY <1>2, <1>3, ConcatProperties DEF Texts
<1> HIDE DEF d
<1>5. Len(d) = q
  BY <1>1, <1>4
<1>6. \A k \in 1..q : d[k] = b[k]
  <2> TAKE k \in 1..q
  <2>0. k \in 1..q - 1 + 1
    BY <1>1
  <2>1. CASE k = q
    <3>1. ~(k <= q - 1) /\ k - (q - 1) = 1
      BY <2>1, <1>1
    <3> QED
      BY <2>0, <2>1, <3>1, <1>2, <1>3, <1>4
  <2>2. CASE k # q
    <3>1. k <= q - 1 /\ k \in 1..q - 1
      BY <2>2, <1>1
    <3> QED
      BY <2>0, <3>1, <1>2, <1>4
  <2> QED
    BY <2>1, <2>2
<1>7. d = b
  BY <1>2, <1>4, <1>5, <1>6, SeqEqual DEF Texts
<1> QED
  BY <1>7 DEF a, b, d

-----------------------------------------------------------------------------
\* A doubled text is read up to its n-th character: the rest of the input is
\* the rest of it doubled, and the output what is before, or will be after the
\* write of one character.
ReadTo(x, q) ==
    /\ q \in 1..Len(x) + 1 /\ i \in 1..Len(in) + 1 /\ Matches(in, i, Twice(x)[q])
    /\ \/ todo = <<>> /\ out = Until(x, q - 1)
       \/ q > 1 /\ todo = <<c(x[q - 1])>> /\ out = Until(x, q - 2)

LiteralOf(x) ==
    /\ rc = "run" => \E q \in Nat : ReadTo(x, q)
    /\ rc = "ok" => out = x

LiteralInv == TextInv /\ \A x \in Templates : in = Escape(x) => LiteralOf(x)

LEMMA TemplateText == ASSUME NEW x \in Templates PROVE x \in Texts
BY SubstAssumption, StringsAreTexts

LEMMA DateLiteral == LiteralInv /\ subst_date => LiteralInv'
<1> SUFFICES ASSUME LiteralInv, subst_date PROVE LiteralInv'
  OBVIOUS
<1>1. TextInv /\ TextInv' /\ i = 1 /\ todo = <<>> /\ out = <<>>
  BY DateText DEF LiteralInv, TextInv, Origin, subst_date
<1>2. ASSUME NEW x \in Templates, in' = Escape(x) PROVE LiteralOf(x)'
  <2>1. CASE Fail("ENOMEM")
    BY <2>1 DEF Fail, LiteralOf
  <2>2. CASE rc' = "run" /\ UNCHANGED <<flags, i, todo, out, given>>
    <3>1. i' = 1 /\ todo' = <<>> /\ out' = <<>>
      BY <1>1, <2>2
    <3>2. x \in Texts /\ Len(x) \in Nat
      BY TemplateText, LenProperties DEF Texts
    <3>3. in' \in Texts /\ Len(in') \in Nat
      BY <1>1, LenProperties DEF TextInv, BufferInv, SubstTypeOK, Texts
    <3>4. Twice(x)[1] = in'
      BY <1>2, EscapeIs
    <3>5. Matches(in', 1, in')
      BY <3>3 DEF Matches
    <3>6. 1 \in 1..Len(x) + 1 /\ 1 \in 1..Len(in') + 1 /\ 1 - 1 = 0 /\ 0 \in 0..Len(x)
      BY <3>2, <3>3
    <3>7. Until(x, 0) = <<>>
      BY <3>2, <3>6, UntilIs, EmptySeq DEF Texts
    <3>8. ReadTo(x, 1)'
      BY <3>1, <3>4, <3>5, <3>6, <3>7 DEF ReadTo
    <3> QED
      BY <2>2, <3>8 DEF LiteralOf
  <2> QED
    BY <2>1, <2>2 DEF subst_date
<1> QED
  BY <1>1, <1>2 DEF LiteralInv

LEMMA WriteLiteral == LiteralInv /\ Write => LiteralInv'
<1> SUFFICES ASSUME LiteralInv, Write PROVE LiteralInv'
  OBVIOUS
<1>1. TextInv' /\ rc = "run" /\ todo # <<>>
  BY WriteSaid DEF LiteralInv, Write
<1>2. ASSUME NEW x \in Templates, in' = Escape(x) PROVE LiteralOf(x)'
  <2>0. in' = in
    BY DEF Write, Fail
  <2>1. PICK q \in Nat : ReadTo(x, q)
    BY <1>1, <1>2, <2>0 DEF LiteralInv, LiteralOf
  <2>2. q \in 1..Len(x) + 1 /\ q > 1 /\ todo = <<c(x[q - 1])>> /\ out = Until(x, q - 2)
    BY <1>1, <2>1 DEF ReadTo
  <2>3. Head(todo) = c(x[q - 1]) /\ Tail(todo) = <<>>
    BY <2>2
  <2>4. c(x[q - 1]).op # "fread" /\ c(x[q - 1]).text = <<x[q - 1]>>
    BY DEF c
  <2>5. CASE Fail("ENOMEM")
    BY <2>5 DEF Fail, LiteralOf
  <2>6. CASE ~Fail("ENOMEM")
    <3>1. out' = out \o <<x[q - 1]>> /\ todo' = <<>> /\ UNCHANGED <<in, flags, i, rc, given>>
      BY <2>3, <2>4, <2>6 DEF Write
    <3>2. x \in Texts /\ Len(x) \in Nat
      BY TemplateText, LenProperties DEF Texts
    <3>3. q - 1 \in 1..Len(x) /\ q - 1 - 1 = q - 2
      BY <2>2, <3>2
    <3>4. out' = Until(x, q - 1)
      BY <2>2, <3>1, <3>2, <3>3, UntilNext
    <3>5. ReadTo(x, q)'
      BY <2>1, <3>1, <3>4 DEF ReadTo
    <3> QED
      BY <1>1, <3>1, <3>5 DEF LiteralOf
  <2> QED
    BY <2>5, <2>6
<1> QED
  BY <1>1, <1>2 DEF LiteralInv

\* In the loop the next character of the text is ahead, once or twice.
LEMMA NextLiteral ==
    ASSUME NEW x \in Texts, NEW q \in Nat, ReadTo(x, q), More, in \in Texts
    PROVE  /\ q \in 1..Len(x) /\ out = Until(x, q - 1) /\ in[i] = x[q] /\ x[q] \in Char
           /\ q + 1 \in 1..Len(x) + 1 /\ i \in Nat /\ q + 1 - 1 = q /\ q + 1 - 2 = q - 1 /\ q + 1 > 1
           /\ IF x[q] \in Reserved
              THEN /\ i + 1 <= Len(in) /\ in[i + 1] = x[q] /\ i + 2 \in 1..Len(in) + 1
                   /\ Matches(in, i + 2, Twice(x)[q + 1])
              ELSE i + 1 \in 1..Len(in) + 1 /\ Matches(in, i + 1, Twice(x)[q + 1])
<1>1. Len(x) \in Nat /\ Len(in) \in Nat /\ q \in 1..Len(x) + 1 /\ i \in 1..Len(in) /\ i \in Nat \ {0}
  BY LenProperties DEF ReadTo, More, Texts
<1>2. out = Until(x, q - 1) /\ Matches(in, i, Twice(x)[q])
  <2>1. todo = <<>> /\ <<c(x[q - 1])>> # <<>>
    BY DEF More
  <2> QED
    BY <2>1 DEF ReadTo
<1>3. Twice(x)[q] = Doubled(x, q, Twice(x))
  BY <1>1, TwiceIs
<1>4. q <= Len(x)
  <2> SUFFICES ASSUME q > Len(x) PROVE FALSE
    BY <1>1
  <2>1. Twice(x)[q] = <<>>
    BY <1>3 DEF Doubled
  <2>2. Len(in) = 0 + (i - 1)
    BY <1>2, <2>1 DEF Matches
  <2> QED
    BY <1>1, <2>2
<1>5. q \in 1..Len(x) /\ q + 1 \in 1..Len(x) + 1 /\ ~(q > Len(x))
      /\ q + 1 - 1 = q /\ q + 1 - 2 = q - 1 /\ q + 1 > 1
  BY <1>1, <1>4
<1>6. x[q] \in Char /\ Twice(x)[q + 1] \in Texts
  BY <1>5, ElementOfSeq, TwiceIs DEF Texts
<1>7. CASE x[q] \in Reserved
  <2>1. Matches(in, i, <<x[q], x[q]>> \o Twice(x)[q + 1])
    BY <1>2, <1>3, <1>5, <1>7, Zenon DEF Doubled
  <2>2. /\ in[i] = x[q] /\ in[i + 1] = x[q] /\ Matches(in, i + 2, Twice(x)[q + 1])
        /\ i + 2 \in 1..Len(in) + 1 /\ i + 1 <= Len(in)
    <3> DEFINE a == x[q]
               r == Twice(x)[q + 1]
    <3>1. a \in Char /\ r \in Texts /\ Matches(in, i, <<a, a>> \o r) /\ i \in Nat \ {0}
      BY <1>1, <1>6, <2>1
    <3> HIDE DEF a, r
    <3>2. /\ in[i] = a /\ in[i + 1] = a /\ Matches(in, i + 2, r)
          /\ i + 2 \in 1..Len(in) + 1 /\ i + 1 <= Len(in)
      BY <3>1, MatchTwo
    <3> QED
      BY <3>2 DEF a, r
  <2> QED
    BY <1>1, <1>2, <1>5, <1>6, <1>7, <2>2
<1>8. CASE x[q] \notin Reserved
  <2>1. Matches(in, i, <<x[q]>> \o Twice(x)[q + 1])
    BY <1>2, <1>3, <1>5, <1>8, Zenon DEF Doubled
  <2>2. in[i] = x[q] /\ Matches(in, i + 1, Twice(x)[q + 1]) /\ i + 1 \in 1..Len(in) + 1
    <3> DEFINE a == x[q]
               r == Twice(x)[q + 1]
    <3>1. a \in Char /\ r \in Texts /\ Matches(in, i, <<a>> \o r) /\ i \in Nat \ {0}
      BY <1>1, <1>6, <2>1
    <3> HIDE DEF a, r
    <3>2. in[i] = a /\ Matches(in, i + 1, r) /\ i + 1 \in 1..Len(in) + 1
      BY <3>1, MatchOne
    <3> QED
      BY <3>2 DEF a, r
  <2> QED
    BY <1>1, <1>2, <1>5, <1>6, <1>8, <2>2
<1> QED
  BY <1>7, <1>8

LEMMA LoopLiteral == LiteralInv /\ (literal \/ escape \/ substitute) => LiteralInv'
<1> SUFFICES ASSUME LiteralInv, literal \/ escape \/ substitute PROVE LiteralInv'
  OBVIOUS
<1>1. TextInv /\ TextInv' /\ More /\ rc = "run" /\ in \in Texts
  BY PlainText, ConstructText DEF LiteralInv, literal, escape, substitute, More, TextInv, BufferInv, SubstTypeOK
<1>2. ASSUME NEW x \in Templates, in' = Escape(x) PROVE LiteralOf(x)'
  <2>0. in' = in
    BY DEF literal, escape, substitute, Go, Fail
  <2>1. PICK q \in Nat : ReadTo(x, q)
    BY <1>1, <1>2, <2>0 DEF LiteralInv, LiteralOf
  <2>2. x \in Texts
    BY TemplateText
  <2>3. /\ q \in 1..Len(x) /\ out = Until(x, q - 1) /\ in[i] = x[q] /\ x[q] \in Char
        /\ q + 1 \in 1..Len(x) + 1 /\ i \in Nat /\ q + 1 - 1 = q /\ q + 1 - 2 = q - 1 /\ q + 1 > 1
        /\ IF x[q] \in Reserved
           THEN /\ i + 1 <= Len(in) /\ in[i + 1] = x[q] /\ i + 2 \in 1..Len(in) + 1
                /\ Matches(in, i + 2, Twice(x)[q + 1])
           ELSE i + 1 \in 1..Len(in) + 1 /\ Matches(in, i + 1, Twice(x)[q + 1])
    BY <1>1, <2>1, <2>2, NextLiteral
  <2>4. ASSUME NEW next, next \in 1..Len(in) + 1, Matches(in, next, Twice(x)[q + 1]),
               Go(next, <<c(in[i])>>)
        PROVE  LiteralOf(x)'
    <3>1. i' = next /\ todo' = <<c(x[q])>> /\ out' = Until(x, q - 1) /\ in' = in /\ rc' = rc
      BY <2>3, <2>4 DEF Go
    <3> DEFINE m == q + 1
    <3>4. /\ m \in 1..Len(x) + 1 /\ i' \in 1..Len(in') + 1 /\ Matches(in', i', Twice(x)[m])
          /\ m > 1 /\ m - 1 = q /\ m - 2 = q - 1
      <4>0. q + 1 \in 1..Len(x) + 1 /\ q + 1 - 1 = q /\ q + 1 - 2 = q - 1 /\ q + 1 > 1
        BY <2>3, Zenon
      <4>1. m \in 1..Len(x) + 1 /\ m > 1 /\ m - 1 = q /\ m - 2 = q - 1
        BY <4>0 DEF m
      <4>2. Matches(in', i', Twice(x)[m])
        BY <2>4, <3>1
      <4>3. i' \in 1..Len(in') + 1
        BY <2>4, <3>1
      <4> HIDE DEF m
      <4> QED
        BY <4>1, <4>2, <4>3
    <3> HIDE DEF m
    <3>5. todo' = <<c(x[m - 1])>> /\ out' = Until(x, m - 2)
      BY <3>1, <3>4
    <3>6. ReadTo(x, m)'
      BY <3>4, <3>5, Zenon DEF ReadTo
    <3>2. ReadTo(x, q + 1)'
      BY <3>6 DEF m
    <3>3. q + 1 \in Nat
      OBVIOUS
    <3> QED
      BY <1>1, <3>1, <3>2, <3>3 DEF LiteralOf
  <2>5. CASE literal
    <3>1. x[q] \notin Reserved /\ Go(i + 1, <<c(in[i])>>)
      BY <2>3, <2>5 DEF literal
    <3> QED
      BY <2>3, <2>4, <3>1
  <2>6. CASE escape
    <3>1. x[q] \in Reserved
      BY <2>3, <2>6 DEF escape
    <3>2. At(i + 1) = in[i]
      BY <2>3, <3>1 DEF At
    <3>3. Go(i + 2, <<c(in[i])>>)
      BY <2>6, <3>2, Zenon DEF escape
    <3> QED
      BY <2>3, <2>4, <3>1, <3>3
  <2>7. CASE substitute
    <3>1. x[q] \in Reserved /\ At(i + 1) = Brace
      BY <2>3, <2>7, Zenon DEF substitute, Brace
    <3>2. At(i + 1) = x[q]
      BY <2>3, <3>1 DEF At
    <3> QED
      BY <3>1, <3>2, BracePlain
  <2> QED
    BY <2>5, <2>6, <2>7
<1> QED
  BY <1>1, <1>2 DEF LiteralInv

LEMMA EndLiteral == LiteralInv /\ irc_subst => LiteralInv'
<1> SUFFICES ASSUME LiteralInv, irc_subst PROVE LiteralInv'
  OBVIOUS
<1>1. TextInv' /\ rc = "run" /\ todo = <<>> /\ ~More /\ in \in Texts
  BY EndText DEF LiteralInv, irc_subst, TextInv, BufferInv, SubstTypeOK
<1>2. ASSUME NEW x \in Templates, in' = Escape(x) PROVE LiteralOf(x)'
  <2>1. CASE Fail("ENOMEM")
    BY <2>1 DEF Fail, LiteralOf
  <2>2. CASE ~Fail("ENOMEM")
    <3>1. ~(Len(out) >= Size) /\ rc' = "ok" /\ UNCHANGED <<in, flags, i, todo, out, given>>
      BY <2>2 DEF irc_subst
    <3>2. PICK q \in Nat : ReadTo(x, q)
      BY <1>1, <1>2, <3>1 DEF LiteralInv, LiteralOf
    <3>3. x \in Texts /\ Len(x) \in Nat /\ Len(in) \in Nat /\ Len(out) \in Nat /\ Size \in Nat
      BY <1>1, TemplateText, LenProperties, SubstAssumption
         DEF LiteralInv, TextInv, BufferInv, SubstTypeOK, Texts
    <3>4. /\ q \in 1..Len(x) + 1 /\ i \in 1..Len(in) + 1 /\ Matches(in, i, Twice(x)[q])
          /\ out = Until(x, q - 1)
      <4>1. <<c(x[q - 1])>> # <<>>
        OBVIOUS
      <4> QED
        BY <1>1, <3>2, <4>1 DEF ReadTo
    <3>5. i = Len(in) + 1
      BY <1>1, <3>1, <3>3, <3>4 DEF More
    <3>6. Len(Twice(x)[q]) = 0
      <4>1. Twice(x)[q] \in Texts
        BY <3>3, <3>4, TwiceIs
      <4>2. Len(Twice(x)[q]) \in Nat
        BY <4>1, LenProperties DEF Texts
      <4>3. Len(in) = Len(Twice(x)[q]) + (i - 1)
        BY <3>4 DEF Matches
      <4> QED
        BY <3>3, <3>5, <4>2, <4>3
    <3>7. ~(q <= Len(x))
      <4> SUFFICES ASSUME q <= Len(x) PROVE FALSE
        OBVIOUS
      <4>1. q \in 1..Len(x) /\ q + 1 \in 1..Len(x) + 1 /\ ~(q > Len(x))
        BY <3>3, <3>4
      <4>2. x[q] \in Char /\ Twice(x)[q + 1] \in Texts /\ Twice(x)[q] = Doubled(x, q, Twice(x))
        BY <3>3, <3>4, <4>1, ElementOfSeq, TwiceIs DEF Texts
      <4> DEFINE a == IF x[q] \in Reserved THEN <<x[q], x[q]>> ELSE <<x[q]>>
      <4>3. Twice(x)[q] = a \o Twice(x)[q + 1]
        BY <4>1, <4>2, Zenon DEF Doubled
      <4>4. a \in Texts /\ Len(a) >= 1 /\ Len(a) \in Nat
        BY <4>2, SingleSeq, PairSeq DEF Texts
      <4> HIDE DEF a
      <4>5. Len(a \o Twice(x)[q + 1]) = Len(a) + Len(Twice(x)[q + 1]) /\ Len(Twice(x)[q + 1]) \in Nat
        BY <4>2, <4>4, ConcatProperties, LenProperties DEF Texts
      <4> QED
        BY <3>6, <4>3, <4>4, <4>5
    <3>8. q - 1 = Len(x)
      BY <3>3, <3>4, <3>7
    <3>9. out = x
      BY <3>3, <3>4, <3>8, UntilAll
    <3> QED
      BY <3>1, <3>9 DEF LiteralOf
  <2> QED
    BY <2>1, <2>2
<1> QED
  BY <1>1, <1>2 DEF LiteralInv

LEMMA LiteralStep == LiteralInv /\ [SubstNext]_substVars => LiteralInv'
<1> SUFFICES ASSUME LiteralInv, [SubstNext]_substVars PROVE LiteralInv'
  OBVIOUS
<1>1. CASE UNCHANGED substVars
  <2>1. UNCHANGED <<in, flags, i, todo, out, rc, given>>
    BY <1>1 DEF substVars
  <2>2. TextInv'
    BY <1>1, TextStep DEF LiteralInv
  <2>3. \A x \in Templates : LiteralOf(x)' = LiteralOf(x)
    BY <2>1 DEF LiteralOf, ReadTo
  <2> QED
    BY <2>1, <2>2, <2>3 DEF LiteralInv
<1> QED
  BY <1>1, DateLiteral, WriteLiteral, LoopLiteral, EndLiteral DEF SubstNext

LEMMA LiteralExpanded == LiteralInv => Expanded
<1> SUFFICES ASSUME LiteralInv PROVE Expanded
  OBVIOUS
<1>1. Literal
  BY DEF LiteralInv, LiteralOf, Literal
<1>2. ~Colored => Ended
  BY DEF LiteralInv, TextInv
<1> QED
  BY <1>1, <1>2 DEF Expanded, Ended, Want, Cut

\* A template is expanded to what it stands for, and a text whose reserved
\* characters are doubled to itself, whatever the template, the tables, the
\* flags and the sizes of the buffers; it is refused only where the text, a
\* key or a date does not fit or a construct is left open.
THEOREM TemplatesExpanded == SubstSpec => []Expanded
<1>1. SubstInit => LiteralInv
  <2> SUFFICES ASSUME SubstInit PROVE LiteralInv
    OBVIOUS
  <2>1. TextInv /\ rc = "date"
    BY InitText DEF SubstInit
  <2> QED
    BY <2>1 DEF LiteralInv, LiteralOf
<1>2. LiteralInv /\ [SubstNext]_substVars => LiteralInv'
  BY LiteralStep
<1>3. LiteralInv => Expanded
  BY LiteralExpanded
<1> QED
  BY <1>1, <1>2, <1>3, PTL DEF SubstSpec

-----------------------------------------------------------------------------
(* Unicode.                                                                *)

UniTypeOK ==
    /\ point \in Nat /\ tables \in Tables
    /\ which \in 1..2 /\ t \in Nat /\ n \in Nat
    /\ found \in {"search", "yes", "no"}

\* The part that is left lies in the table.
Within == 1 <= t /\ t + n <= Len(Table) + 1

\* The character lies behind what is before that part, and before the rest.
Enclosed ==
    /\ \A k \in 1..Len(Table) : k < t => Table[k].hi < point
    /\ \A k \in 1..Len(Table) : t + n <= k => point < Table[k].lo

\* No entry of the table w holds the character.
Missed(w) == \A k \in 1..Len(tables[w]) : ~Holds(tables[w][k])

SearchInv ==
    /\ UniTypeOK
    /\ found # "no" => Within
    /\ found = "search" => Enclosed
    /\ which = 2 => Missed(1)
    /\ found = "no" => which = 2 /\ Missed(2)
    /\ found = "yes" => n = 1 /\ Holds(Table[t])

\* The tables are sorted, with bounds that are numbers.
LEMMA TablesSorted ==
    ASSUME NEW pair \in Tables, NEW w \in 1..2
    PROVE  /\ Len(pair[w]) \in Nat
           /\ \A k \in 1..Len(pair[w]) : /\ pair[w][k].lo \in Nat /\ pair[w][k].hi \in Nat
                                        /\ pair[w][k].lo <= pair[w][k].hi
           /\ \A j, k \in 1..Len(pair[w]) : j < k => pair[w][j].hi < pair[w][k].lo
<1>1. Sorted(pair[w])
  <2>1. w = 1 \/ w = 2
    OBVIOUS
  <2> QED
    BY <2>1, UnicodeAssumption
<1>2. pair[w] \in Seq([lo : Nat, hi : Nat])
  BY <1>1 DEF Sorted
<1>3. \A k \in 1..Len(pair[w]) : pair[w][k] \in [lo : Nat, hi : Nat]
  BY <1>2, ElementOfSeq
<1>4. Len(pair[w]) \in Nat
  BY <1>2, LenProperties
<1> QED
  BY <1>1, <1>3, <1>4 DEF Sorted

LEMMA InitSearch == UniInit => SearchInv
<1> SUFFICES ASSUME UniInit PROVE SearchInv
  OBVIOUS
<1>1. point \in Nat /\ tables \in Tables
  BY UnicodeAssumption DEF UniInit
<1>2. Len(tables[1]) \in Nat
  BY <1>1, TablesSorted
<1> QED
  BY <1>1, <1>2 DEF UniInit, SearchInv, UniTypeOK, Within, Enclosed, Table

\* The half that search keeps encloses the character as the whole did.
LEMMA SearchHalves == SearchInv /\ search => SearchInv'
<1> SUFFICES ASSUME SearchInv, search PROVE SearchInv'
  OBVIOUS
<1> DEFINE m == n \div 2
<1>1. /\ m \in Nat /\ 1 <= m /\ m < n
      /\ t \in Nat /\ n \in Nat /\ point \in Nat /\ 1 <= t /\ t + n <= Len(Table) + 1
  BY DEF SearchInv, UniTypeOK, Within, search
<1>2. Table' = Table /\ Len(Table) \in Nat
  <2>1. tables' = tables /\ which' = which /\ tables \in Tables /\ which \in 1..2
    BY DEF search, SearchInv, UniTypeOK
  <2> QED
    BY <2>1, TablesSorted DEF Table
<1>3. /\ \A k \in 1..Len(Table) : /\ Table[k].lo \in Nat /\ Table[k].hi \in Nat
                                 /\ Table[k].lo <= Table[k].hi
      /\ \A j, k \in 1..Len(Table) : j < k => Table[j].hi < Table[k].lo
  BY TablesSorted DEF SearchInv, UniTypeOK, Table
<1>4. Enclosed
  BY DEF SearchInv, search
<1>5. t + m \in 1..Len(Table)
  BY <1>1, <1>2
<1>6. t' \in Nat /\ n' \in Nat /\ Within' /\ Enclosed'
  <2>1. CASE Reaches(Table[t + m])
    <3>1. t' = t + m /\ n' = n - m
      BY <2>1 DEF search
    <3>2. Table[t + m].lo <= point
      BY <2>1, <1>1, <1>3, <1>5 DEF Reaches
    <3>3. Within' /\ t' \in Nat /\ n' \in Nat
      BY <3>1, <1>1, <1>2 DEF Within
    <3>4. \A k \in 1..Len(Table) : k < t + m => Table[k].hi < point
      BY <3>2, <1>1, <1>3, <1>5
    <3>5. \A k \in 1..Len(Table) : (t + m) + (n - m) <= k => point < Table[k].lo
      BY <1>1, <1>4 DEF Enclosed
    <3>6. point' = point
      BY DEF search
    <3> QED
      BY <3>1, <3>3, <3>4, <3>5, <3>6, <1>2 DEF Enclosed
  <2>2. CASE ~Reaches(Table[t + m])
    <3>1. t' = t /\ n' = m
      BY <2>2 DEF search
    <3>2. point < Table[t + m].lo
      BY <2>2, <1>1, <1>3, <1>5 DEF Reaches
    <3>3. Within' /\ t' \in Nat /\ n' \in Nat
      BY <3>1, <1>1, <1>2 DEF Within
    <3>4. \A k \in 1..Len(Table) : t + m <= k => point < Table[k].lo
      <4> SUFFICES ASSUME NEW k \in 1..Len(Table), t + m <= k PROVE point < Table[k].lo
        OBVIOUS
      <4>1. CASE k = t + m
        BY <4>1, <3>2
      <4>2. CASE t + m < k
        <5>1. Table[t + m].hi < Table[k].lo /\ Table[t + m].lo <= Table[t + m].hi
          BY <4>2, <1>3, <1>5
        <5>2. /\ point \in Nat /\ Table[k].lo \in Nat
              /\ Table[t + m].lo \in Nat /\ Table[t + m].hi \in Nat
          BY <1>1, <1>3, <1>5
        <5> QED
          BY <5>1, <5>2, <3>2
      <4> QED
        BY <4>1, <4>2, <1>1, <1>2
    <3>5. point' = point
      BY DEF search
    <3> QED
      BY <3>1, <3>3, <3>4, <3>5, <1>2, <1>4 DEF Enclosed
  <2> QED
    BY <2>1, <2>2
<1>7. found' = "search" /\ which' = which /\ tables' = tables /\ point' = point
  BY DEF search
<1> QED
  BY <1>6, <1>7 DEF SearchInv, UniTypeOK, search, Missed, Holds

\* One entry is left, or none: where it is no hit, no entry holds the character.
LEMMA NoHitMissed ==
    ASSUME SearchInv, found = "search", n <= 1, ~Hit
    PROVE  Missed(which)
<1>1. /\ t \in Nat /\ n \in Nat /\ point \in Nat /\ 1 <= t /\ t + n <= Len(Table) + 1 /\ Enclosed
  BY DEF SearchInv, UniTypeOK, Within
<1>2. /\ Len(Table) \in Nat
      /\ \A k \in 1..Len(Table) : Table[k].lo \in Nat /\ Table[k].hi \in Nat
  BY TablesSorted DEF SearchInv, UniTypeOK, Table
<1> SUFFICES ASSUME NEW k \in 1..Len(Table) PROVE ~Holds(Table[k])
  BY DEF Missed, Table
<1>3. CASE k < t
  BY <1>3, <1>1, <1>2 DEF Enclosed, Holds
<1>4. CASE t + n <= k
  BY <1>4, <1>1, <1>2 DEF Enclosed, Holds
<1>5. CASE k = t /\ n = 1
  BY <1>5, <1>1, <1>2 DEF Hit, Reaches, Holds
<1> QED
  BY <1>1, <1>2, <1>3, <1>4, <1>5

LEMMA AnswerRight == SearchInv /\ uni_is => SearchInv'
<1> SUFFICES ASSUME SearchInv, uni_is PROVE SearchInv'
  OBVIOUS
<1>1. /\ point' = point /\ tables' = tables /\ found = "search" /\ n \in Nat /\ n <= 1
      /\ tables \in Tables /\ point \in Nat /\ which \in 1..2 /\ t \in Nat /\ Within
  BY DEF uni_is, SearchInv, UniTypeOK
<1>2. Missed(1)' = Missed(1) /\ Missed(2)' = Missed(2)
  BY <1>1 DEF Missed, Holds
<1>3. CASE Hit
  <2>1. found' = "yes" /\ which' = which /\ t' = t /\ n' = n
    BY <1>3 DEF uni_is
  <2>2. n = 1 /\ Holds(Table[t])
    <3>1. Table[t].lo \in Nat
      BY <1>1, <1>3, TablesSorted DEF Hit, Within, Table
    <3> QED
      BY <3>1, <1>1, <1>3 DEF Hit, Reaches, Holds
  <2>3. Holds(Table[t])' /\ Within'
    BY <2>1, <2>2, <1>1 DEF Holds, Table, Within
  <2> QED
    BY <2>1, <2>2, <2>3, <1>1, <1>2 DEF SearchInv, UniTypeOK
<1>4. CASE ~Hit /\ which = 1
  <2>1. found' = "search" /\ which' = 2 /\ t' = 1 /\ n' = Len(tables[2])
    BY <1>4, <1>1 DEF uni_is
  <2>2. Missed(1)
    BY <1>1, <1>4, NoHitMissed
  <2>3. Len(tables[2]) \in Nat
    BY <1>1, TablesSorted
  <2>4. Within' /\ Enclosed'
    BY <2>1, <2>3, <1>1 DEF Within, Enclosed, Table
  <2> QED
    BY <2>1, <2>2, <2>3, <2>4, <1>1, <1>2 DEF SearchInv, UniTypeOK
<1>5. CASE ~Hit /\ which = 2
  <2>1. found' = "no" /\ which' = 2 /\ t' = t /\ n' = n
    BY <1>5 DEF uni_is
  <2>2. Missed(2) /\ Missed(1)
    BY <1>1, <1>5, NoHitMissed DEF SearchInv
  <2> QED
    BY <2>1, <2>2, <1>1, <1>2 DEF SearchInv, UniTypeOK
<1> QED
  BY <1>1, <1>3, <1>4, <1>5

LEMMA SearchKept == SearchInv /\ [UniNext]_uniVars => SearchInv'
<1> SUFFICES ASSUME SearchInv, [UniNext]_uniVars PROVE SearchInv'
  OBVIOUS
<1>1. CASE UNCHANGED uniVars
  BY <1>1 DEF uniVars, SearchInv, UniTypeOK, Within, Enclosed, Missed, Holds, Table
<1> QED
  BY <1>1, SearchHalves, AnswerRight DEF UniNext

LEMMA SearchAnswers == SearchInv => RangesFound
<1> SUFFICES ASSUME SearchInv PROVE RangesFound
  OBVIOUS
<1>1. found = "no" => Missed(1) /\ Missed(2)
  BY DEF SearchInv
<1>2. Missed(1) /\ Missed(2) => ~Listed
  BY DEF Missed, Listed
<1> QED
  BY <1>1, <1>2 DEF RangesFound, SearchInv

\* The lookups of uni_isalpha and its like are right for every sorted table and
\* every character: "yes" comes with the entry that holds it, "no" means that
\* no entry does.
THEOREM LookupsRight == UniSpec => []RangesFound
<1>1. UniInit => SearchInv
  BY InitSearch
<1>2. SearchInv /\ [UniNext]_uniVars => SearchInv'
  BY SearchKept
<1>3. SearchInv => RangesFound
  BY SearchAnswers
<1> QED
  BY <1>1, <1>2, <1>3, PTL DEF UniSpec

-----------------------------------------------------------------------------
(* Walk: the paths.                                                        *)

Names == {Name[nd] : nd \in Nodes}

\* What a node has: the first of its own in the base, elsewhere a step from
\* what its directory has.
Grown(first, step, g, nd) == IF Parent[nd] = Base THEN first[nd] ELSE step[nd][g[Parent[nd]]]

\* The nodes of C have what g says, and so have the directories above them.
Placed(first, step, C, g) ==
    /\ C \subseteq Nodes /\ \A nd \in C : Parent[nd] \in C \cup {Base}
    /\ \A nd \in C : g[nd] = Grown(first, step, g, nd)

\* Two such functions agree where both are.
LEMMA PlacesAgree ==
    ASSUME NEW first, NEW step, NEW C, NEW g, NEW D, NEW h,
           Placed(first, step, C, g), Placed(first, step, D, h)
    PROVE  \A nd \in C \cap D : g[nd] = h[nd]
<1> DEFINE S == {nd \in C \cap D : g[nd] # h[nd]}
<1> SUFFICES ASSUME S # {} PROVE FALSE
  OBVIOUS
<1>1. S \in SUBSET Nodes
  BY DEF Placed
<1>2. PICK nd \in S : Parent[nd] \notin S
  BY <1>1, TreeAssumption
<1>3. nd \in C /\ nd \in D /\ g[nd] # h[nd] /\ nd \in Nodes
  BY <1>1
<1>4. g[nd] = Grown(first, step, g, nd) /\ h[nd] = Grown(first, step, h, nd)
  BY <1>3 DEF Placed
<1>5. CASE Parent[nd] = Base
  BY <1>3, <1>4, <1>5 DEF Grown
<1>6. CASE Parent[nd] # Base
  <2>1. Parent[nd] \in C /\ Parent[nd] \in D
    BY <1>3, <1>6 DEF Placed
  <2>2. g[Parent[nd]] = h[Parent[nd]]
    BY <1>2, <2>1
  <2> QED
    BY <1>3, <1>4, <1>6, <2>2 DEF Grown
<1> QED
  BY <1>5, <1>6

\* A function that goes down from the base exists.
LEMMA PlacesExist ==
    ASSUME NEW V, NEW any \in V, NEW first \in [Nodes -> V], NEW step \in [Nodes -> [V -> V]]
    PROVE  \E g \in [Nodes -> V] : \A nd \in Nodes : g[nd] = Grown(first, step, g, nd)
<1> DEFINE Places == [Nodes -> V]
           Has(nd, v) == \E C \in SUBSET Nodes : \E g \in Places : Placed(first, step, C, g) /\ nd \in C /\ v = g[nd]
           U == {nd \in Nodes : \E v : Has(nd, v)}
           G == [nd \in Nodes |-> IF nd \in U THEN CHOOSE v : Has(nd, v) ELSE any]
<1>1. ASSUME NEW C, NEW g \in Places, Placed(first, step, C, g), NEW nd \in C
      PROVE  nd \in U /\ G[nd] = g[nd]
  <2>1. nd \in Nodes /\ Has(nd, g[nd])
    BY <1>1 DEF Placed
  <2>2. nd \in U
    BY <2>1
  <2>3. G[nd] = CHOOSE v : Has(nd, v)
    BY <2>1, <2>2
  <2>4. Has(nd, CHOOSE v : Has(nd, v))
    BY <2>1, Zenon
  <2>5. \A v : Has(nd, v) => v = g[nd]
    <3> SUFFICES ASSUME NEW v, NEW D, NEW h \in Places, Placed(first, step, D, h), nd \in D PROVE h[nd] = g[nd]
      OBVIOUS
    <3> QED
      BY <1>1, PlacesAgree
  <2> QED
    BY <2>2, <2>3, <2>4, <2>5, Zenon
<1>2. \A nd \in U : \E C \in SUBSET Nodes : \E g \in Places : Placed(first, step, C, g) /\ nd \in C
  OBVIOUS
<1>3. U \subseteq Nodes
  OBVIOUS
<1>4. G \in Places
  <2>1. \A nd \in U : G[nd] \in V
    <3> TAKE nd \in U
    <3>1. PICK C \in SUBSET Nodes, g \in Places : Placed(first, step, C, g) /\ nd \in C
      BY <1>2, Zenon
    <3>2. G[nd] = g[nd] /\ nd \in Nodes
      <4> HIDE DEF U, G, Has
      <4> QED
        BY <3>1, <1>1, <1>3
    <3> QED
      BY <3>1, <3>2
  <2>2. \A nd \in Nodes \ U : G[nd] = any
    OBVIOUS
  <2>3. any \in V
    OBVIOUS
  <2>4. \A nd \in Nodes : G[nd] \in V
    BY <2>1, <2>2, <2>3, Zenon
  <2>5. G = [nd \in Nodes |-> G[nd]]
    OBVIOUS
  <2> HIDE DEF G
  <2> QED
    BY <2>4, <2>5
<1> HIDE DEF U, G, Has
<1>5. \A nd \in U : (Parent[nd] \in U \cup {Base}) /\ G[nd] = Grown(first, step, G, nd)
  <2> TAKE nd \in U
  <2>1. PICK C \in SUBSET Nodes, g \in Places : Placed(first, step, C, g) /\ nd \in C
    BY <1>2, Zenon
  <2>2. G[nd] = g[nd] /\ g[nd] = Grown(first, step, g, nd)
    BY <1>1, <2>1 DEF Placed
  <2>3. CASE Parent[nd] = Base
    BY <2>2, <2>3 DEF Grown
  <2>4. CASE Parent[nd] # Base
    <3>1. Parent[nd] \in C
      BY <2>1, <2>4 DEF Placed
    <3>2. Parent[nd] \in U /\ G[Parent[nd]] = g[Parent[nd]]
      BY <1>1, <2>1, <3>1
    <3> QED
      BY <2>2, <2>4, <3>2 DEF Grown
  <2> QED
    BY <2>3, <2>4
<1>6. U = Nodes
  <2> SUFFICES ASSUME Nodes \ U # {} PROVE FALSE
    BY <1>3
  <2>1. PICK nd \in Nodes \ U : Parent[nd] \notin Nodes \ U
    BY TreeAssumption
  <2>2. Parent[nd] \in U \cup {Base}
    BY <2>1, TreeAssumption
  <2> DEFINE H == [G EXCEPT ![nd] = Grown(first, step, G, nd)]
             C == U \cup {nd}
  <2>3. Grown(first, step, G, nd) \in V
    <3>1. Parent[nd] # Base => G[Parent[nd]] \in V
      BY <1>3, <1>4, <2>2
    <3> QED
      BY <2>1, <3>1 DEF Grown
  <2>4. H \in Places /\ H[nd] = Grown(first, step, G, nd) /\ \A m \in Nodes : m # nd => H[m] = G[m]
    BY <1>4, <2>1, <2>3
  <2> HIDE DEF H
  <2>5. \A m \in C : (Parent[m] \in U \cup {Base}) /\ H[m] = Grown(first, step, G, m)
    BY <1>3, <1>5, <2>1, <2>2, <2>4
  <2>6. \A m \in C : Grown(first, step, G, m) = Grown(first, step, H, m)
    <3> TAKE m \in C
    <3>1. CASE Parent[m] = Base
      BY <3>1 DEF Grown
    <3>2. CASE Parent[m] # Base
      <4>1. Parent[m] \in U /\ Parent[m] # nd /\ Parent[m] \in Nodes
        BY <1>3, <2>1, <2>5, <3>2
      <4>2. H[Parent[m]] = G[Parent[m]]
        BY <2>4, <4>1
      <4> QED
        BY <4>2 DEF Grown
    <3> QED
      BY <3>1, <3>2
  <2>7. Placed(first, step, C, H)
    BY <1>3, <2>1, <2>5, <2>6 DEF Placed
  <2>8. nd \in U
    BY <1>1, <2>4, <2>7
  <2> QED
    BY <2>1, <2>8
<1>7. \A nd \in Nodes : G[nd] = Grown(first, step, G, nd)
  BY <1>5, <1>6
<1> QED
  BY <1>4, <1>7

\* The path of a node from that of its directory, in names and in characters.
PathStep(g, nd) == IF Parent[nd] = Base THEN <<Name[nd]>> ELSE Append(g[Parent[nd]], Name[nd])
FullStep(g, nd) ==
    IF Parent[nd] = Base THEN Name[nd] ELSE g[Parent[nd]] \o <<"/">> \o Name[nd]

LEMMA PathsExist ==
    \E g \in [Nodes -> Seq(Names)] : g = [nd \in Nodes |-> PathStep(g, nd)]
<1> DEFINE V == Seq(Names)
           first == [nd \in Nodes |-> <<Name[nd]>>]
           step == [nd \in Nodes |-> [p \in V |-> Append(p, Name[nd])]]
<1>1. \A nd \in Nodes : <<Name[nd]>> \in V
  BY DEF Names
<1>2. \A nd \in Nodes, p \in V : Append(p, Name[nd]) \in V
  <2> TAKE nd \in Nodes, p \in V
  <2>1. Name[nd] \in Names
    BY DEF Names
  <2> QED
    BY <2>1, AppendProperties
<1>3. <<>> \in V
  OBVIOUS
<1> HIDE DEF V
<1>4. first \in [Nodes -> V]
  BY <1>1
<1>5. step \in [Nodes -> [V -> V]]
  BY <1>2
<1>6. \E g \in [Nodes -> V] : \A nd \in Nodes : g[nd] = Grown(first, step, g, nd)
  <2> HIDE DEF first, step
  <2> QED
    BY <1>3, <1>4, <1>5, PlacesExist
<1>7. PICK g \in [Nodes -> V] : \A nd \in Nodes : g[nd] = Grown(first, step, g, nd)
  BY <1>6
<1>8. ASSUME NEW nd \in Nodes PROVE g[nd] = PathStep(g, nd)
  <2>1. Parent[nd] # Base => Parent[nd] \in Nodes
    BY TreeAssumption
  <2> QED
    BY <1>7, <2>1 DEF Grown, PathStep
<1> QED
  BY <1>7, <1>8 DEF V

\* What the proofs need of the characters of a path (to the provers a literal
\* is no member of STRING).
Letter == STRING \cup {"/"}

LEMMA NamesAreLetters == \A nd \in Nodes : Name[nd] \in Seq(Letter)
<1> TAKE nd \in Nodes
<1>1. Name[nd] \in Seq(STRING)
  BY TreeAssumption
<1>2. Len(Name[nd]) \in Nat /\ Name[nd] \in [1..Len(Name[nd]) -> STRING]
  BY <1>1, LenProperties
<1>3. Name[nd] \in [1..Len(Name[nd]) -> Letter]
  BY <1>2 DEF Letter
<1> QED
  BY <1>2, <1>3, SeqDef

LEMMA LettersAssociate ==
    ASSUME NEW txt \in Seq(Letter), NEW u \in Seq(Letter), NEW v \in Seq(Letter)
    PROVE  (txt \o u) \o v = txt \o (u \o v)
BY ConcatAssociative

LEMMA SlashIsLetter == <<"/">> \in Seq(Letter)
BY DEF Letter

LEMMA TextsExist ==
    \E g \in [Nodes -> Seq(Letter)] : g = [nd \in Nodes |-> FullStep(g, nd)]
<1> DEFINE V == Seq(Letter)
           first == [nd \in Nodes |-> Name[nd]]
           step == [nd \in Nodes |-> [p \in V |-> p \o <<"/">> \o Name[nd]]]
<1>1. \A nd \in Nodes : Name[nd] \in V
  BY NamesAreLetters
<1>2. \A nd \in Nodes, p \in V : p \o <<"/">> \o Name[nd] \in V
  <2> TAKE nd \in Nodes, p \in V
  <2>1. <<"/">> \in Seq(Letter)
    BY SlashIsLetter
  <2>2. p \o <<"/">> \in Seq(Letter)
    BY <2>1, ConcatProperties
  <2> QED
    BY <1>1, <2>2, ConcatProperties
<1>3. <<>> \in V
  OBVIOUS
<1> HIDE DEF V
<1>4. first \in [Nodes -> V]
  BY <1>1
<1>5. step \in [Nodes -> [V -> V]]
  BY <1>2
<1>6. \E g \in [Nodes -> V] : \A nd \in Nodes : g[nd] = Grown(first, step, g, nd)
  <2> HIDE DEF first, step
  <2> QED
    BY <1>3, <1>4, <1>5, PlacesExist
<1>7. PICK g \in [Nodes -> V] : \A nd \in Nodes : g[nd] = Grown(first, step, g, nd)
  BY <1>6
<1>8. ASSUME NEW nd \in Nodes PROVE g[nd] = FullStep(g, nd)
  <2>1. Parent[nd] # Base => Parent[nd] \in Nodes
    BY TreeAssumption
  <2> QED
    BY <1>7, <2>1 DEF Grown, FullStep
<1> QED
  BY <1>7, <1>8 DEF V

PathOf(d) == IF d = Base THEN <<>> ELSE RealPath[d]

\* A path is that of the directory with the name behind.
LEMMA PathIs ==
    \A nd \in Nodes : /\ RealPath[nd] = Append(PathOf(Parent[nd]), Name[nd])
                       /\ PathOf(Parent[nd]) \in Seq(Names) /\ PathOf(nd) = RealPath[nd]
                       /\ Name[nd] \in Names
<1>1. \E g : g = [nd \in Nodes |-> PathStep(g, nd)]
  BY PathsExist
<1>2. RealPath = [nd \in Nodes |-> PathStep(RealPath, nd)]
  BY <1>1, Zenon DEF RealPath, PathStep
<1> DEFINE S == {nd \in Nodes : RealPath[nd] \notin Seq(Names)}
<1>3. \A nd \in Nodes : RealPath[nd] = PathStep(RealPath, nd)
  BY <1>2
<1>4. S = {}
  <2> SUFFICES ASSUME S # {} PROVE FALSE
    OBVIOUS
  <2>1. PICK nd \in S : Parent[nd] \notin S
    BY TreeAssumption
  <2>2. Parent[nd] # Base => RealPath[Parent[nd]] \in Seq(Names)
    BY <2>1, TreeAssumption
  <2>3. Name[nd] \in Names
    BY DEF Names
  <2>4. PathStep(RealPath, nd) \in Seq(Names)
    BY <2>2, <2>3, AppendProperties DEF PathStep
  <2> QED
    BY <1>3, <2>4
<1>5. ASSUME NEW nd \in Nodes
      PROVE  /\ RealPath[nd] = Append(PathOf(Parent[nd]), Name[nd])
             /\ PathOf(Parent[nd]) \in Seq(Names) /\ PathOf(nd) = RealPath[nd] /\ Name[nd] \in Names
  <2>1. nd # Base /\ Name[nd] \in Names
    BY TreeAssumption DEF Names
  <2>2. CASE Parent[nd] = Base
    <3>1. Append(<<>>, Name[nd]) = <<Name[nd]>> /\ <<>> \in Seq(Names)
      OBVIOUS
    <3> QED
      BY <1>3, <2>1, <2>2, <3>1 DEF PathOf, PathStep
  <2>3. CASE Parent[nd] # Base
    <3>1. Parent[nd] \in Nodes
      BY <2>3, TreeAssumption
    <3> QED
      BY <1>3, <1>4, <2>1, <2>3, <3>1 DEF PathOf, PathStep
  <2> QED
    BY <2>2, <2>3
<1> QED
  BY <1>5

\* What cs->path holds for a directory, and for an entry of it.
Inside(d) == IF d = Base THEN <<>> ELSE FullName[d] \o <<"/">>

LEMMA FullIs ==
    \A nd \in Nodes : /\ FullName[nd] = Inside(Parent[nd]) \o Name[nd]
                       /\ Inside(Parent[nd]) \in Seq(Letter) /\ FullName[nd] \in Seq(Letter)
                       /\ Inside(nd) = FullName[nd] \o <<"/">>
<1>1. \E g : g = [nd \in Nodes |-> FullStep(g, nd)]
  BY TextsExist
<1>2. FullName = [nd \in Nodes |-> FullStep(FullName, nd)]
  BY <1>1, Zenon DEF FullName, FullStep
<1>3. \A nd \in Nodes : FullName[nd] = FullStep(FullName, nd)
  BY <1>2
<1>4. \A nd \in Nodes : Name[nd] \in Seq(Letter)
  BY NamesAreLetters
<1>5. \A p \in Seq(Letter) : p \o <<"/">> \in Seq(Letter)
  <2> TAKE p \in Seq(Letter)
  <2>1. <<"/">> \in Seq(Letter)
    BY SlashIsLetter
  <2> QED
    BY <2>1, ConcatProperties
<1> DEFINE S == {nd \in Nodes : FullName[nd] \notin Seq(Letter)}
<1>6. S = {}
  <2> SUFFICES ASSUME S # {} PROVE FALSE
    OBVIOUS
  <2>1. PICK nd \in S : Parent[nd] \notin S
    BY TreeAssumption
  <2>2. CASE Parent[nd] = Base
    BY <1>3, <1>4, <2>2 DEF FullStep
  <2>3. CASE Parent[nd] # Base
    <3>1. FullName[Parent[nd]] \in Seq(Letter)
      BY <2>1, <2>3, TreeAssumption
    <3>2. FullName[Parent[nd]] \o <<"/">> \in Seq(Letter)
      BY <1>5, <3>1
    <3>3. FullName[Parent[nd]] \o <<"/">> \o Name[nd] \in Seq(Letter)
      BY <1>4, <3>2, ConcatProperties
    <3> QED
      BY <1>3, <2>3, <3>3 DEF FullStep
  <2> QED
    BY <2>2, <2>3
<1>7. ASSUME NEW nd \in Nodes
      PROVE  /\ FullName[nd] = Inside(Parent[nd]) \o Name[nd]
             /\ Inside(Parent[nd]) \in Seq(Letter) /\ FullName[nd] \in Seq(Letter)
             /\ Inside(nd) = FullName[nd] \o <<"/">>
  <2>1. nd # Base /\ FullName[nd] \in Seq(Letter)
    BY <1>6, TreeAssumption
  <2>2. CASE Parent[nd] = Base
    <3>1. <<>> \o Name[nd] = Name[nd]
      BY <1>4, ConcatEmptySeq
    <3> QED
      BY <1>3, <2>1, <2>2, <3>1 DEF FullStep, Inside
  <2>3. CASE Parent[nd] # Base
    <3>1. FullName[Parent[nd]] \o <<"/">> \in Seq(Letter)
      BY <1>5, <1>6, <2>3, TreeAssumption
    <3> QED
      BY <1>3, <2>1, <2>3, <3>1 DEF FullStep, Inside
  <2> QED
    BY <2>2, <2>3
<1> QED
  BY <1>7

\* What is appended to a path is taken off again.
LEMMA FrontOf ==
    ASSUME NEW p \in Seq(Letter), NEW e \in Seq(Letter)
    PROVE  /\ SubSeq(p \o e, 1, Len(p \o e) - Len(e)) = p
           /\ ~(Len(p \o e) < Len(e)) /\ Len(p) \in Nat /\ Len(e) \in Nat
<1> DEFINE q == p \o e
<1>1. /\ q \in Seq(Letter) /\ Len(q) = Len(p) + Len(e)
      /\ \A k \in 1..Len(p) + Len(e) : q[k] = IF k <= Len(p) THEN p[k] ELSE e[k - Len(p)]
  BY ConcatProperties
<1>2. Len(p) \in Nat /\ Len(e) \in Nat
  BY LenProperties
<1> HIDE DEF q
<1>3. Len(q) - Len(e) = Len(p) /\ ~(Len(q) < Len(e)) /\ Len(p) \in 0..Len(q)
  BY <1>1, <1>2
<1>4. SubSeq(q, 1, Len(p)) = p
  <2>1. \A k \in 1..Len(p) : q[k] = p[k] /\ k \in 1..Len(q)
    BY <1>1, <1>2
  <2>2. \A k \in 1..Len(p) : q[k] \in Letter
    BY <1>1, <2>1, ElementOfSeq
  <2>3. 1 \in Int /\ Len(p) \in Int
    BY <1>2
  <2>4. /\ SubSeq(q, 1, Len(p)) \in Seq(Letter)
        /\ Len(SubSeq(q, 1, Len(p))) = IF 1 <= Len(p) THEN Len(p) - 1 + 1 ELSE 0
        /\ \A k \in 1..Len(p) - 1 + 1 : SubSeq(q, 1, Len(p))[k] = q[1 + k - 1]
    BY <2>2, <2>3, SubSeqProperties
  <2>5. Len(SubSeq(q, 1, Len(p))) = Len(p)
    BY <1>2, <2>4
  <2>6. \A k \in 1..Len(p) : SubSeq(q, 1, Len(p))[k] = p[k]
    <3> TAKE k \in 1..Len(p)
    <3>1. k \in 1..Len(p) - 1 + 1 /\ 1 + k - 1 = k
      BY <1>2
    <3> QED
      BY <2>1, <2>4, <3>1
  <2> QED
    BY <2>4, <2>5, <2>6, SeqEqual
<1>5. SubSeq(q, 1, Len(q) - Len(e)) = p
  BY <1>3, <1>4
<1> QED
  BY <1>2, <1>3, <1>5 DEF q

LEMMA PathSize ==
    ASSUME NEW nd \in Nodes
    PROVE  /\ Len(RealPath[nd]) = Len(PathOf(Parent[nd])) + 1
           /\ Len(PathOf(Parent[nd])) \in Nat /\ RealPath[nd] \in Seq(Names)
           /\ RealPath[nd][Len(RealPath[nd])] = Name[nd]
           /\ \A k \in 1..Len(PathOf(Parent[nd])) : RealPath[nd][k] = PathOf(Parent[nd])[k]
           /\ SubSeq(RealPath[nd], 1, Len(RealPath[nd]) - 1) = PathOf(Parent[nd])
<1> DEFINE q == PathOf(Parent[nd])
           p == RealPath[nd]
<1>1. p = Append(q, Name[nd]) /\ q \in Seq(Names) /\ Name[nd] \in Names
  BY PathIs
<1> HIDE DEF p, q
<1>2. /\ p \in Seq(Names) /\ Len(p) = Len(q) + 1 /\ p[Len(p)] = Name[nd]
      /\ \A k \in 1..Len(q) : p[k] = q[k] 
  BY <1>1, AppendProperties
<1>3. Len(q) \in Nat
  BY <1>1, LenProperties
<1>4. SubSeq(p, 1, Len(p) - 1) = q
  <2>1. Len(p) - 1 = Len(q)
    BY <1>2, <1>3
  <2>2. \A k \in 1..Len(q) : p[k] \in Names
    BY <1>1, <1>2, ElementOfSeq
  <2>3. 1 \in Int /\ Len(q) \in Int
    BY <1>3
  <2>4. /\ SubSeq(p, 1, Len(q)) \in Seq(Names)
        /\ Len(SubSeq(p, 1, Len(q))) = IF 1 <= Len(q) THEN Len(q) - 1 + 1 ELSE 0
        /\ \A k \in 1..Len(q) - 1 + 1 : SubSeq(p, 1, Len(q))[k] = p[1 + k - 1]
    BY <2>2, <2>3, SubSeqProperties
  <2>5. Len(SubSeq(p, 1, Len(q))) = Len(q)
    BY <1>3, <2>4
  <2>6. \A k \in 1..Len(q) : SubSeq(p, 1, Len(q))[k] = q[k]
    <3> TAKE k \in 1..Len(q)
    <3>1. k \in 1..Len(q) - 1 + 1 /\ 1 + k - 1 = k
      BY <1>3
    <3> QED
      BY <1>2, <2>4, <3>1
  <2> QED
    BY <1>1, <2>1, <2>4, <2>5, <2>6, SeqEqual
<1> QED
  BY <1>2, <1>3, <1>4 DEF p, q

\* No two nodes are at one path.
LEMMA OnePath ==
    ASSUME NEW nd \in Nodes, NEW m \in Nodes, RealPath[nd] = RealPath[m]
    PROVE  nd = m
<1> DEFINE S == {x \in Nodes : \E y \in Nodes : x # y /\ RealPath[x] = RealPath[y]}
<1>1. S = {}
  <2> SUFFICES ASSUME S # {} PROVE FALSE
    OBVIOUS
  <2>1. PICK x \in S : Parent[x] \notin S
    BY TreeAssumption
  <2>2. PICK y \in Nodes : x # y /\ RealPath[x] = RealPath[y]
    OBVIOUS
  <2>3. Name[x] = Name[y]
    BY <2>2, PathSize
  <2>4. Parent[x] # Parent[y]
    BY <2>2, <2>3, TreeAssumption
  <2>5. /\ SubSeq(RealPath[x], 1, Len(RealPath[x]) - 1) = PathOf(Parent[x])
        /\ SubSeq(RealPath[y], 1, Len(RealPath[y]) - 1) = PathOf(Parent[y])
    BY PathSize
  <2>6. PathOf(Parent[x]) = PathOf(Parent[y])
    BY <2>2, <2>5
  <2>7. \A d \in Nodes : PathOf(d) # <<>> /\ PathOf(d) = RealPath[d]
    <3> TAKE d \in Nodes
    <3>0. Len(RealPath[d]) = Len(PathOf(Parent[d])) + 1 /\ Len(PathOf(Parent[d])) \in Nat
      BY PathSize
    <3>1. Len(RealPath[d]) # 0
      BY <3>0
    <3>2. RealPath[d] # <<>>
      BY <3>1
    <3> QED
      BY <3>2, PathIs
  <2>8. PathOf(Base) = <<>>
    BY DEF PathOf
  <2>9. Parent[x] \in Nodes /\ Parent[y] \in Nodes
    BY <2>4, <2>6, <2>7, <2>8, TreeAssumption
  <2>10. RealPath[Parent[x]] = RealPath[Parent[y]]
    BY <2>6, <2>7, <2>9
  <2> QED
    BY <2>1, <2>4, <2>9, <2>10
<1> QED
  BY <1>1

LEMMA PrefixIs ==
    ASSUME NEW p \in Seq(Names), NEW k \in 1..Len(p)
    PROVE  /\ SubSeq(p, 1, k) \in Seq(Names) /\ Len(SubSeq(p, 1, k)) = k
           /\ \A j \in 1..k : SubSeq(p, 1, k)[j] = p[j]
<1>1. Len(p) \in Nat /\ k \in Nat
  BY LenProperties
<1>2. \A j \in 1..k : p[j] \in Names
  <2>1. \A j \in 1..k : j \in 1..Len(p)
    BY <1>1
  <2> QED
    BY <2>1, ElementOfSeq
<1>3. 1 \in Int /\ k \in Int
  BY <1>1
<1>4. /\ SubSeq(p, 1, k) \in Seq(Names)
      /\ Len(SubSeq(p, 1, k)) = IF 1 <= k THEN k - 1 + 1 ELSE 0
      /\ \A j \in 1..k - 1 + 1 : SubSeq(p, 1, k)[j] = p[1 + j - 1]
  BY <1>2, <1>3, SubSeqProperties
<1>5. Len(SubSeq(p, 1, k)) = k
  BY <1>1, <1>4
<1>6. \A j \in 1..k : SubSeq(p, 1, k)[j] = p[j]
  <2> TAKE j \in 1..k
  <2>1. j \in 1..k - 1 + 1 /\ 1 + j - 1 = j
    BY <1>1
  <2> QED
    BY <1>4, <2>1
<1> QED
  BY <1>4, <1>5, <1>6

\* What is above a node is itself or above its directory.
LEMMA Above ==
    ASSUME NEW a \in Nodes, NEW nd \in Nodes
    PROVE  Hides(a, nd) <=> a = nd \/ (Parent[nd] # Base /\ Hides(a, Parent[nd]))
<1> DEFINE p == RealPath[nd]
           q == PathOf(Parent[nd])
<1>1. /\ Len(p) = Len(q) + 1 /\ Len(q) \in Nat /\ p \in Seq(Names) /\ q \in Seq(Names)
      /\ \A k \in 1..Len(q) : p[k] = q[k]
  BY PathSize, PathIs
<1> HIDE DEF p, q
<1>2. Hides(a, nd) <=> \E k \in 1..Len(p) : SubSeq(p, 1, k) = RealPath[a]
  BY DEF Hides, p
<1>3. ASSUME Parent[nd] # Base
      PROVE  Hides(a, Parent[nd]) <=> \E k \in 1..Len(q) : SubSeq(q, 1, k) = RealPath[a]
  BY <1>3 DEF Hides, q, PathOf
<1>4. \A k \in 1..Len(q) : SubSeq(p, 1, k) = SubSeq(q, 1, k)
  <2> TAKE k \in 1..Len(q)
  <2>1. k \in 1..Len(p) /\ k \in Nat /\ \A j \in 1..k : j \in 1..Len(q)
    BY <1>1
  <2>2. /\ SubSeq(p, 1, k) \in Seq(Names) /\ Len(SubSeq(p, 1, k)) = k
        /\ \A j \in 1..k : SubSeq(p, 1, k)[j] = p[j]
    BY <1>1, <2>1, PrefixIs
  <2>3. /\ SubSeq(q, 1, k) \in Seq(Names) /\ Len(SubSeq(q, 1, k)) = k
        /\ \A j \in 1..k : SubSeq(q, 1, k)[j] = q[j]
    BY <1>1, <2>1, PrefixIs
  <2>4. \A j \in 1..k : SubSeq(p, 1, k)[j] = SubSeq(q, 1, k)[j]
    BY <1>1, <2>1, <2>2, <2>3
  <2> QED
    BY <2>2, <2>3, <2>4, SeqEqual
<1>5. SubSeq(p, 1, Len(p)) = p
  <2>1. Len(p) \in 1..Len(p)
    BY <1>1
  <2>2. /\ SubSeq(p, 1, Len(p)) \in Seq(Names) /\ Len(SubSeq(p, 1, Len(p))) = Len(p)
        /\ \A j \in 1..Len(p) : SubSeq(p, 1, Len(p))[j] = p[j]
    BY <1>1, <2>1, PrefixIs
  <2> QED
    BY <1>1, <2>2, SeqEqual
<1>6. p = RealPath[a] <=> a = nd
  BY OnePath DEF p
<1>7. \A k \in 1..Len(p) : k = Len(p) \/ k \in 1..Len(q)
  BY <1>1
<1>8. Len(p) \in 1..Len(p) /\ 1..Len(q) \subseteq 1..Len(p)
  BY <1>1
<1>9. Parent[nd] = Base => 1..Len(q) = {}
  BY DEF q, PathOf
<1> QED
  BY <1>2, <1>3, <1>4, <1>5, <1>6, <1>7, <1>8, <1>9

\* Of the nodes above nd, all but itself have one in them that is above nd too.
LEMMA Between ==
    ASSUME NEW a \in Nodes, NEW nd \in Nodes, Hides(a, nd), a # nd
    PROVE  \E sub \in Nodes : Parent[sub] = a /\ Hides(sub, nd)
<1> DEFINE Ok(x) == Hides(a, x) /\ a # x => \E sub \in Nodes : Parent[sub] = a /\ Hides(sub, x)
           S == {x \in Nodes : ~Ok(x)}
<1>1. S = {}
  <2> SUFFICES ASSUME S # {} PROVE FALSE
    OBVIOUS
  <2>1. PICK x \in S : Parent[x] \notin S
    BY TreeAssumption
  <2>2. Hides(a, x) /\ a # x /\ x \in Nodes
    OBVIOUS
  <2>3. Parent[x] # Base /\ Hides(a, Parent[x]) /\ Parent[x] \in Nodes
    BY <2>2, Above, TreeAssumption
  <2>4. \A sub \in Nodes : Hides(sub, Parent[x]) => Hides(sub, x)
    BY <2>2, <2>3, Above
  <2>5. CASE a = Parent[x]
    BY <2>2, <2>5, Above
  <2>6. CASE a # Parent[x]
    <3>1. \E sub \in Nodes : Parent[sub] = a /\ Hides(sub, Parent[x])
      BY <2>1, <2>3, <2>6
    <3> QED
      BY <2>4, <3>1
  <2> QED
    BY <2>5, <2>6
<1> QED
  BY <1>1

\* Every node is below one of the first level.
LEMMA FirstLevel ==
    ASSUME NEW nd \in Nodes
    PROVE  \E sub \in Nodes : Parent[sub] = Base /\ Hides(sub, nd)
<1> DEFINE S == {x \in Nodes : ~\E sub \in Nodes : Parent[sub] = Base /\ Hides(sub, x)}
<1>1. S = {}
  <2> SUFFICES ASSUME S # {} PROVE FALSE
    OBVIOUS
  <2>1. PICK x \in S : Parent[x] \notin S
    BY TreeAssumption
  <2>2. CASE Parent[x] = Base
    BY <2>2, Above
  <2>3. CASE Parent[x] # Base
    <3>1. Parent[x] \in Nodes
      BY <2>3, TreeAssumption
    <3>2. PICK sub \in Nodes : Parent[sub] = Base /\ Hides(sub, Parent[x])
      BY <2>1, <3>1
    <3> QED
      BY <2>3, <3>2, Above
  <2> QED
    BY <2>2, <2>3
<1> QED
  BY <1>1

-----------------------------------------------------------------------------
(* Walk: the invariant.                                                    *)

Frames == [dir : Nodes \cup {Base}, left : SUBSET Nodes]

WalkTypeOK ==
    /\ call \in [fn : {"find", "rm"}, recursive : BOOLEAN]
    /\ there \in SUBSET Nodes /\ hidden \in SUBSET Nodes /\ kept \in SUBSET (Nodes \cup {Base})
    /\ stack \in Seq(Frames) /\ Len(stack) >= 1

\* The directories that are read are one in the other, and those above the
\* last are all among them.
OneIn(st, k) ==
    /\ Len(PathOf(st[k].dir)) = k - 1
    /\ \A a \in st[k].left : Parent[a] = st[k].dir
OneAbove(st, k) ==
    /\ st[k].dir \in Dirs /\ Parent[st[k].dir] = st[k - 1].dir
    /\ \A a \in Nodes : Hides(a, st[k].dir) => \E j \in 2..k : a = st[j].dir
    /\ \A j \in 1..Len(st) : st[k].dir \notin st[j].left
Spine(st) ==
    /\ st[1].dir = Base
    /\ \A k \in 1..Len(st) : OneIn(st, k)
    /\ \A k \in 2..Len(st) : OneAbove(st, k)

\* What the walk has still to visit: what is not read yet with all below it,
\* and the directories that are read.
Pending(st, x) ==
    \E k \in 1..Len(st) :
        (\E a \in st[k].left : Hides(a, x)) \/ (k > 1 /\ x = st[k].dir)

\* What it did to what it has visited.
Handled(x) ==
    IF call.fn = "find" THEN Name[x] # Pattern
    ELSE ~call.recursive \/ \E h \in Spared : Hides(x, h)

UpToBase == \A x \in there : Parent[x] # Base => Parent[x] \in there

OnTheWay ==
    /\ path = Inside(Top.dir) /\ Spine(stack) /\ (~call.recursive => Len(stack) = 1)
    /\ (call.fn = "find" => there = Nodes) /\ UpToBase
    /\ \A x \in there : Seen(x) => Pending(stack, x) \/ Handled(x)

WalkInv == WalkTypeOK /\ (~lost => (status = "walk" => OnTheWay) /\ WalkFaithful)

\* A directory of an entry that is left exists if the entry does.
LEMMA AboveThere ==
    ASSUME UpToBase, there \in SUBSET Nodes, NEW x \in there, NEW a \in Nodes, Hides(a, x)
    PROVE  a \in there
<1> DEFINE S == {y \in there : Hides(a, y) /\ a \notin there}
<1>1. S = {}
  <2> SUFFICES ASSUME S # {} PROVE FALSE
    OBVIOUS
  <2>0. S \in SUBSET Nodes
    OBVIOUS
  <2>1. PICK y \in S : Parent[y] \notin S
    BY <2>0, TreeAssumption
  <2>2. y \in Nodes /\ y \in there /\ Hides(a, y) /\ a \notin there
    BY <2>0
  <2>3. Parent[y] # Base /\ Hides(a, Parent[y])
    BY <2>2, Above
  <2>4. Parent[y] \in there
    BY <2>2, <2>3 DEF UpToBase
  <2> QED
    BY <2>1, <2>2, <2>3, <2>4
<1> QED
  BY <1>1

\* An entry that is read leaves all else as it was.
LEMMA ReadIs ==
    ASSUME WalkTypeOK, NEW x \in Nodes
    PROVE  /\ Read(x) \in Seq(Frames) /\ Len(Read(x)) = Len(stack)
           /\ \A k \in 1..Len(stack) : /\ Read(x)[k].dir = stack[k].dir
                                       /\ Read(x)[k].left \subseteq stack[k].left
                                       /\ k # Len(stack) => Read(x)[k].left = stack[k].left
           /\ Read(x)[Len(stack)].left = Top.left \ {x}
<1> DEFINE K == Len(stack)
<1>1. K \in 1..K /\ stack \in Seq(Frames) /\ K \in Nat
  BY LenProperties DEF WalkTypeOK
<1>2. stack[K] \in Frames
  BY <1>1, ElementOfSeq
<1> DEFINE fr == [stack[K] EXCEPT !.left = @ \ {x}]
<1>3. fr \in Frames /\ fr.dir = stack[K].dir /\ fr.left = stack[K].left \ {x}
  BY <1>2 DEF Frames
<1>4. Read(x) = [stack EXCEPT ![K] = fr]
  BY DEF Read
<1> HIDE DEF fr
<1>5. /\ Read(x) \in Seq(Frames) /\ Len(Read(x)) = K
      /\ \A k \in 1..K : Read(x)[k] = IF k = K THEN fr ELSE stack[k]
  BY <1>1, <1>3, <1>4, ExceptSeq
<1> HIDE DEF K
<1>6. \A k \in 1..K : /\ Read(x)[k].dir = stack[k].dir /\ Read(x)[k].left \subseteq stack[k].left
                      /\ k # K => Read(x)[k].left = stack[k].left
  BY <1>3, <1>5
<1>7. Read(x)[K].left = stack[K].left \ {x}
  BY <1>1, <1>3, <1>5
<1> QED
  BY <1>5, <1>6, <1>7 DEF K, Top

LEMMA SpineRead ==
    ASSUME WalkTypeOK, Spine(stack), NEW x \in Nodes
    PROVE  Spine(Read(x))
<1> DEFINE r == Read(x)
<1>1. /\ Len(r) = Len(stack)
      /\ \A k \in 1..Len(stack) : r[k].dir = stack[k].dir /\ r[k].left \subseteq stack[k].left
  BY ReadIs
<1>2. Len(stack) \in Nat /\ 1 \in 1..Len(stack)
  BY LenProperties DEF WalkTypeOK
<1> HIDE DEF r
<1>3. r[1].dir = Base
  BY <1>1, <1>2 DEF Spine
<1>4. \A k \in 1..Len(r) : OneIn(r, k)
  BY <1>1 DEF Spine, OneIn
<1>5. ASSUME NEW k \in 2..Len(r)
      PROVE  OneAbove(r, k)
  <2>1. k \in 2..Len(stack) /\ k \in 1..Len(stack) /\ k - 1 \in 1..Len(stack)
        /\ \A j \in 2..k : j \in 1..Len(stack)
    BY <1>1, <1>2
  <2>2. r[k].dir = stack[k].dir /\ r[k - 1].dir = stack[k - 1].dir
        /\ \A j \in 2..k : r[j].dir = stack[j].dir
    BY <1>1, <2>1
  <2>3. OneAbove(stack, k)
    BY <2>1 DEF Spine
  <2>4. \A j \in 1..Len(r) : r[k].dir \notin r[j].left
    BY <1>1, <2>2, <2>3 DEF OneAbove
  <2>5. \A a \in Nodes : Hides(a, r[k].dir) => \E j \in 2..k : a = r[j].dir
    BY <2>2, <2>3 DEF OneAbove
  <2> QED
    BY <2>2, <2>3, <2>4, <2>5 DEF OneAbove
<1>6. Spine(r)
  BY <1>3, <1>4, <1>5 DEF Spine
<1> QED
  BY <1>6 DEF r

\* Only what is below the entry is no longer pending.
LEMMA PendingRead ==
    ASSUME WalkTypeOK, NEW x \in Nodes, NEW y \in Nodes, Pending(stack, y)
    PROVE  Pending(Read(x), y) \/ Hides(x, y)
<1>1. /\ Len(Read(x)) = Len(stack)
      /\ \A k \in 1..Len(stack) : /\ Read(x)[k].dir = stack[k].dir
                                  /\ k # Len(stack) => Read(x)[k].left = stack[k].left
      /\ Read(x)[Len(stack)].left = Top.left \ {x}
  BY ReadIs
<1>2. PICK k \in 1..Len(stack) :
          (\E a \in stack[k].left : Hides(a, y)) \/ (k > 1 /\ y = stack[k].dir)
  BY DEF Pending
<1>3. CASE k > 1 /\ y = stack[k].dir
  BY <1>1, <1>3 DEF Pending
<1>4. CASE \E a \in stack[k].left : Hides(a, y)
  <2>1. PICK a \in stack[k].left : Hides(a, y)
    BY <1>4
  <2>2. CASE a = x
    BY <2>1, <2>2
  <2>3. CASE a # x
    <3>1. a \in Read(x)[k].left
      BY <1>1, <2>3 DEF Top
    <3> QED
      BY <1>1, <2>1, <3>1 DEF Pending
  <2> QED
    BY <2>2, <2>3
<1> QED
  BY <1>2, <1>3, <1>4

\* A directory in the one that is read last.
LEMMA TopIs ==
    ASSUME WalkTypeOK, Spine(stack)
    PROVE  /\ Len(stack) \in Nat /\ Len(stack) \in 1..Len(stack) /\ Top = stack[Len(stack)]
           /\ \A x \in Top.left : x \in Nodes /\ Parent[x] = Top.dir
           /\ Top \in Frames /\ Len(PathOf(Top.dir)) = Len(stack) - 1
<1>1. Len(stack) \in Nat /\ Len(stack) \in 1..Len(stack) /\ Top = stack[Len(stack)]
  BY LenProperties DEF WalkTypeOK, Top
<1>2. Top \in Frames
  BY <1>1, ElementOfSeq DEF WalkTypeOK
<1> QED
  BY <1>1, <1>2 DEF Spine, OneIn, Frames

LEMMA SpineEnter ==
    ASSUME WalkTypeOK, Spine(stack), NEW x \in Top.left, x \in Dirs
    PROVE  Spine(Append(Read(x), Frame(x))) /\ Append(Read(x), Frame(x)) \in Seq(Frames)
           /\ Len(Append(Read(x), Frame(x))) = Len(stack) + 1
<1> DEFINE r == Read(x)
           e == Append(r, Frame(x))
           K == Len(stack)
<1>1. K \in Nat /\ K \in 1..K /\ x \in Nodes /\ Parent[x] = Top.dir /\ Top = stack[K]
      /\ Len(PathOf(Top.dir)) = K - 1
  BY TopIs
<1>2. r \in Seq(Frames) /\ Len(r) = K /\ r[K].left = Top.left \ {x} /\ Spine(r)
      /\ \A k \in 1..K : r[k].dir = stack[k].dir /\ r[k].left \subseteq stack[k].left
  BY <1>1, ReadIs, SpineRead
<1>3. Frame(x) \in Frames /\ Frame(x).dir = x /\ \A a \in Frame(x).left : Parent[a] = x /\ a \in Nodes
  BY <1>1 DEF Frame, Frames, Children, WalkTypeOK
<1> HIDE DEF r, K
<1>4. /\ e \in Seq(Frames) /\ Len(e) = K + 1 /\ e[K + 1] = Frame(x)
      /\ \A k \in 1..K : e[k] = r[k]
  BY <1>2, <1>3, AppendProperties
<1> HIDE DEF e
<1>5. e[1].dir = Base
  <2>1. 1 \in 1..K /\ r[1].dir = Base
    BY <1>1, <1>2 DEF Spine
  <2> QED
    BY <1>4, <2>1
<1>6. Len(PathOf(x)) = K
  <2>1. Len(RealPath[x]) = Len(PathOf(Parent[x])) + 1 /\ PathOf(x) = RealPath[x]
    BY <1>1, PathSize, PathIs
  <2> QED
    BY <1>1, <2>1
<1>7. ASSUME NEW k \in 1..K + 1
      PROVE  OneIn(e, k)
  <2>1. CASE k \in 1..K
    <3>1. OneIn(r, k) /\ e[k] = r[k]
      BY <1>2, <1>4, <2>1 DEF Spine
    <3> QED
      BY <3>1 DEF OneIn
  <2>2. CASE k = K + 1
    <3>1. k - 1 = K
      BY <1>1, <2>2
    <3> QED
      BY <1>3, <1>4, <1>6, <2>2, <3>1 DEF OneIn
  <2> QED
    BY <1>1, <2>1, <2>2
\* The new directory was in none that is left but the last.
<1>8. \A j \in 1..K : x \notin r[j].left
  <2> SUFFICES ASSUME NEW j \in 1..K, x \in r[j].left PROVE FALSE
    OBVIOUS
  <2>1. Parent[x] = stack[j].dir /\ Len(PathOf(stack[j].dir)) = j - 1
    <3>1. OneIn(stack, j) /\ r[j].left \subseteq stack[j].left
      BY <1>2 DEF Spine, K
    <3> QED
      BY <3>1 DEF OneIn
  <2>2. j = K
    BY <1>1, <2>1
  <2> QED
    BY <1>2, <2>2
\* Its entries are no directory that is read already.
<1>9. \A k \in 1..K : e[k].dir \notin Frame(x).left
  <2> SUFFICES ASSUME NEW k \in 1..K, e[k].dir \in Frame(x).left PROVE FALSE
    OBVIOUS
  <2> DEFINE dd == e[k].dir
  <2>1. Parent[dd] = x /\ dd \in Nodes
    BY <1>3
  <2>2. Len(RealPath[dd]) = Len(PathOf(x)) + 1 /\ PathOf(dd) = RealPath[dd]
    BY <2>1, PathSize, PathIs
  <2>3. Len(PathOf(dd)) = k - 1
    BY <1>1, <1>7 DEF OneIn
  <2> QED
    BY <1>1, <1>6, <2>2, <2>3
<1>10. x \notin Frame(x).left
  <2> SUFFICES ASSUME x \in Frame(x).left PROVE FALSE
    OBVIOUS
  <2>1. Parent[x] = x
    BY <1>3
  <2>2. Len(RealPath[x]) = Len(PathOf(x)) + 1 /\ PathOf(x) = RealPath[x]
    BY <1>1, <2>1, PathSize, PathIs
  <2> QED
    BY <1>1, <1>6, <2>2
<1>11. ASSUME NEW k \in 2..K + 1
       PROVE  OneAbove(e, k)
  <2>1. CASE k \in 2..K
    <3>1. k \in 1..K /\ k - 1 \in 1..K /\ \A j \in 2..k : j \in 1..K
      BY <1>1, <2>1
    <3>2. /\ r[k].dir \in Dirs /\ Parent[r[k].dir] = r[k - 1].dir
          /\ \A a \in Nodes : Hides(a, r[k].dir) => \E j \in 2..k : a = r[j].dir
          /\ \A j \in 1..K : r[k].dir \notin r[j].left
      BY <1>2, <2>1 DEF Spine, OneAbove
    <3>3. e[k] = r[k] /\ e[k - 1] = r[k - 1] /\ \A j \in 2..k : e[j] = r[j]
      BY <1>4, <3>1
    <3>4. \A j \in 1..K + 1 : j \in 1..K \/ j = K + 1
      BY <1>1
    <3>5. \A j \in 1..K + 1 : e[k].dir \notin e[j].left
      BY <1>4, <1>9, <3>1, <3>2, <3>3, <3>4
    <3> QED
      BY <1>4, <3>2, <3>3, <3>5 DEF OneAbove
  <2>2. CASE k = K + 1
    <3>1. e[k].dir = x /\ k - 1 = K
      BY <1>1, <1>3, <1>4, <2>2
    <3>2. e[k - 1].dir = Top.dir
      BY <1>1, <1>2, <1>4, <3>1
    <3>3. ASSUME NEW a \in Nodes, Hides(a, x) PROVE \E j \in 2..k : a = e[j].dir
      <4>1. CASE a = x
        <5>1. k \in 2..k
          BY <1>1
        <5> QED
          BY <3>1, <4>1, <5>1
      <4>2. CASE a # x
        <5>1. Parent[x] # Base /\ Hides(a, Parent[x])
          BY <1>1, <3>3, <4>2, Above
        <5>2. K # 1
          BY <1>1, <1>2, <5>1 DEF Spine, K
        <5>3. K \in 2..K /\ r[K].dir = Parent[x]
          BY <1>1, <1>2, <5>2
        <5>4. PICK j \in 2..K : a = r[j].dir
          <6>1. OneAbove(r, K)
            BY <1>2, <5>3 DEF Spine
          <6>2. Hides(a, r[K].dir)
            BY <5>1, <5>3
          <6> QED
            BY <3>3, <6>1, <6>2 DEF OneAbove
        <5>5. j \in 1..K /\ j \in 2..k
          BY <1>1, <2>2
        <5> QED
          BY <1>4, <5>4, <5>5
      <4> QED
        BY <4>1, <4>2
    <3>4. \A j \in 1..K + 1 : x \notin e[j].left
      <4>1. \A j \in 1..K + 1 : j \in 1..K \/ j = K + 1
        BY <1>1
      <4> QED
        BY <1>4, <1>8, <1>10, <4>1
    <3> QED
      BY <1>1, <1>4, <3>1, <3>2, <3>3, <3>4 DEF OneAbove
  <2> QED
    BY <1>1, <2>1, <2>2
<1>12. Spine(e)
  BY <1>4, <1>5, <1>7, <1>11 DEF Spine
<1> QED
  BY <1>4, <1>12 DEF e, r, K

\* What was pending is so once a directory was entered.
LEMMA PendingEnter ==
    ASSUME WalkTypeOK, Spine(stack), UpToBase, NEW x \in Top.left, x \in Dirs, NEW y \in there,
           Pending(stack, y)
    PROVE  Pending(Append(Read(x), Frame(x)), y)
<1> DEFINE r == Read(x)
           e == Append(r, Frame(x))
           K == Len(stack)
<1>1. K \in Nat /\ x \in Nodes /\ y \in Nodes
  BY TopIs DEF WalkTypeOK
<1>2. r \in Seq(Frames) /\ Len(r) = K /\ Frame(x) \in Frames
  BY <1>1, ReadIs DEF Frame, Frames, Children, WalkTypeOK
<1> HIDE DEF r, K
<1>3. /\ Len(e) = K + 1 /\ e[K + 1] = Frame(x) /\ \A k \in 1..K : e[k] = r[k]
  BY <1>2, AppendProperties
<1> HIDE DEF e
<1>5. CASE Pending(r, y)
  <2>1. PICK k \in 1..K : (\E a \in r[k].left : Hides(a, y)) \/ (k > 1 /\ y = r[k].dir)
    BY <1>2, <1>5 DEF Pending
  <2>2. k \in 1..Len(e) /\ e[k] = r[k]
    BY <1>1, <1>3
  <2>3. Pending(e, y)
    BY <2>1, <2>2 DEF Pending
  <2> QED
    BY <2>3 DEF e, r
<1>6. CASE Hides(x, y)
  <2>0. K + 1 \in 1..Len(e) /\ K + 1 > 1
    BY <1>1, <1>3, TopIs DEF K
  <2>1. CASE x = y
    <3>1. y = e[K + 1].dir
      BY <1>3, <2>1 DEF Frame
    <3>2. Pending(e, y)
      BY <2>0, <3>1 DEF Pending
    <3> QED
      BY <3>2 DEF e, r
  <2>2. CASE x # y
    <3>1. PICK d \in Nodes : Parent[d] = x /\ Hides(d, y)
      BY <1>1, <1>6, <2>2, Between
    <3>2. d \in there
      BY <1>1, <3>1, AboveThere DEF WalkTypeOK
    <3>3. d \in e[K + 1].left
      BY <1>3, <3>1, <3>2 DEF Frame, Children
    <3>4. Pending(e, y)
      BY <2>0, <3>1, <3>3 DEF Pending
    <3> QED
      BY <3>4 DEF e, r
  <2> QED
    BY <2>1, <2>2
<1> QED
  BY <1>1, <1>5, <1>6, PendingRead DEF r

\* The end of a directory.
LEMMA FrontIs ==
    ASSUME WalkTypeOK, Len(stack) > 1
    PROVE  LET fr == SubSeq(stack, 1, Len(stack) - 1)
           IN  /\ fr \in Seq(Frames) /\ Len(fr) = Len(stack) - 1 /\ Len(fr) >= 1
               /\ \A k \in 1..Len(stack) - 1 : fr[k] = stack[k]
<1> DEFINE K == Len(stack)
           fr == SubSeq(stack, 1, K - 1)
<1>1. K \in Nat /\ K > 1 /\ stack \in Seq(Frames)
  BY LenProperties DEF WalkTypeOK
<1>2. 1 \in Int /\ K - 1 \in Int /\ \A k \in 1..K - 1 : stack[k] \in Frames
  <2>1. \A k \in 1..K - 1 : k \in 1..K
    BY <1>1
  <2> QED
    BY <1>1, <2>1, ElementOfSeq
<1> HIDE DEF K
<1>3. /\ fr \in Seq(Frames) /\ Len(fr) = IF 1 <= K - 1 THEN K - 1 - 1 + 1 ELSE 0
      /\ \A k \in 1..K - 1 - 1 + 1 : fr[k] = stack[1 + k - 1]
  BY <1>2, SubSeqProperties
<1> HIDE DEF fr
<1>4. Len(fr) = K - 1 /\ Len(fr) >= 1
  BY <1>1, <1>3
<1>5. \A k \in 1..K - 1 : fr[k] = stack[k]
  <2> TAKE k \in 1..K - 1
  <2>1. k \in 1..K - 1 - 1 + 1 /\ 1 + k - 1 = k
    BY <1>1
  <2> QED
    BY <1>3, <2>1
<1> QED
  BY <1>3, <1>4, <1>5 DEF K, fr

LEMMA SpineLeave ==
    ASSUME WalkTypeOK, Spine(stack), Len(stack) > 1
    PROVE  Spine(SubSeq(stack, 1, Len(stack) - 1))
<1> DEFINE K == Len(stack)
           fr == SubSeq(stack, 1, K - 1)
<1>1. K \in Nat /\ K > 1 /\ Len(fr) = K - 1 /\ \A k \in 1..K - 1 : fr[k] = stack[k]
  BY FrontIs, LenProperties DEF WalkTypeOK
<1> HIDE DEF fr
<1>2. fr[1].dir = Base
  <2>1. 1 \in 1..K - 1
    BY <1>1
  <2> QED
    BY <1>1, <2>1 DEF Spine
<1>3. \A k \in 1..Len(fr) : OneIn(fr, k)
  <2> TAKE k \in 1..Len(fr)
  <2>1. k \in 1..K /\ k \in 1..K - 1
    BY <1>1
  <2>2. OneIn(stack, k)
    BY <2>1 DEF Spine
  <2> QED
    BY <1>1, <2>1, <2>2 DEF OneIn
<1>4. ASSUME NEW k \in 2..Len(fr)
      PROVE  OneAbove(fr, k)
  <2>1. k \in 2..K /\ k \in 1..K - 1 /\ k - 1 \in 1..K - 1 /\ \A j \in 2..k : j \in 1..K - 1
    BY <1>1
  <2>2. /\ stack[k].dir \in Dirs /\ Parent[stack[k].dir] = stack[k - 1].dir
        /\ \A a \in Nodes : Hides(a, stack[k].dir) => \E j \in 2..k : a = stack[j].dir
        /\ \A j \in 1..K : stack[k].dir \notin stack[j].left
    BY <2>1 DEF Spine, OneAbove
  <2>3. fr[k] = stack[k] /\ fr[k - 1] = stack[k - 1] /\ \A j \in 2..k : fr[j] = stack[j]
    BY <1>1, <2>1
  <2>4. \A j \in 1..Len(fr) : j \in 1..K /\ fr[j] = stack[j]
    BY <1>1
  <2> HIDE DEF K
  <2> QED
    BY <2>2, <2>3, <2>4 DEF OneAbove
<1>5. Spine(fr)
  BY <1>2, <1>3, <1>4 DEF Spine
<1> QED
  BY <1>5 DEF fr

LEMMA PendingLeave ==
    ASSUME WalkTypeOK, Len(stack) > 1, Top.left = {}, NEW y, Pending(stack, y)
    PROVE  Pending(SubSeq(stack, 1, Len(stack) - 1), y) \/ y = Top.dir
<1> DEFINE K == Len(stack)
           fr == SubSeq(stack, 1, K - 1)
<1>1. K \in Nat /\ K > 1 /\ Len(fr) = K - 1 /\ \A k \in 1..K - 1 : fr[k] = stack[k]
  BY FrontIs, LenProperties DEF WalkTypeOK
<1>2. PICK k \in 1..K : (\E a \in stack[k].left : Hides(a, y)) \/ (k > 1 /\ y = stack[k].dir)
  BY DEF Pending
<1> HIDE DEF fr
<1>3. CASE k = K
  BY <1>2, <1>3 DEF Top
<1>4. CASE k # K
  <2>1. k \in 1..Len(fr) /\ fr[k] = stack[k]
    BY <1>1, <1>4
  <2>2. Pending(fr, y)
    BY <1>2, <2>1 DEF Pending
  <2> QED
    BY <2>2 DEF fr
<1> QED
  BY <1>3, <1>4

\* Nothing is pending in a directory that was read to its end.
LEMMA NothingBelow ==
    ASSUME WalkTypeOK, Spine(stack), Len(stack) > 1, Top.left = {},
           NEW d \in Nodes, Parent[d] = Top.dir
    PROVE  ~Pending(stack, d)
<1> DEFINE K == Len(stack)
<1>1. /\ K \in Nat /\ K \in 2..K /\ K \in 1..K /\ Top = stack[K] /\ Len(PathOf(Top.dir)) = K - 1
  BY TopIs
<1>2. Len(PathOf(d)) = K
  <2>1. Len(RealPath[d]) = Len(PathOf(Parent[d])) + 1 /\ PathOf(d) = RealPath[d]
    BY PathSize, PathIs
  <2> QED
    BY <1>1, <2>1
<1> SUFFICES ASSUME NEW k \in 1..K,
                    (\E a \in stack[k].left : Hides(a, d)) \/ (k > 1 /\ d = stack[k].dir)
             PROVE  FALSE
  BY DEF Pending
<1>3. Len(PathOf(stack[k].dir)) = k - 1 /\ \A a \in stack[k].left : Parent[a] = stack[k].dir
  BY DEF Spine, OneIn
<1>4. CASE d = stack[k].dir
  BY <1>1, <1>2, <1>3, <1>4
<1>5. CASE \E a \in stack[k].left : Hides(a, d)
  <2>1. PICK a \in stack[k].left : Hides(a, d)
    BY <1>5
  <2>2. a \in Nodes
    <3>1. stack[k] \in Frames
      BY ElementOfSeq DEF WalkTypeOK
    <3> QED
      BY <3>1 DEF Frames
  <2>3. CASE a = d
    <3>1. stack[k].dir = Top.dir
      BY <1>3, <2>1, <2>3
    <3>2. k = K
      BY <1>1, <1>3, <3>1
    <3> QED
      BY <1>1, <2>1, <3>2
  <2>4. CASE a # d
    <3>1. Hides(a, Top.dir)
      BY <2>1, <2>2, <2>4, Above
    <3>2. PICK j \in 2..K : a = stack[j].dir
      BY <1>1, <2>2, <3>1 DEF Spine, OneAbove
    <3> QED
      BY <2>1, <3>2 DEF Spine, OneAbove
  <2> QED
    BY <2>3, <2>4
<1> QED
  BY <1>4, <1>5

-----------------------------------------------------------------------------
(* Walk: the invariant is kept.                                            *)

LEMMA HidesOn ==
    ASSUME NEW a \in Nodes, NEW b \in Nodes, NEW x \in Nodes, Hides(a, b), Hides(b, x)
    PROVE  Hides(a, x)
<1> DEFINE S == {y \in Nodes : Hides(b, y) /\ ~Hides(a, y)}
<1>1. S = {}
  <2> SUFFICES ASSUME S # {} PROVE FALSE
    OBVIOUS
  <2>1. PICK y \in S : Parent[y] \notin S
    BY TreeAssumption
  <2>2. y # b
    OBVIOUS
  <2>3. Parent[y] # Base /\ Hides(b, Parent[y]) /\ Parent[y] \in Nodes
    BY <2>2, Above, TreeAssumption
  <2>4. Hides(a, Parent[y])
    BY <2>1, <2>3
  <2> QED
    BY <2>3, <2>4, Above
<1> QED
  BY <1>1

LEMMA FrameTyped ==
    ASSUME WalkTypeOK, NEW x \in Nodes \cup {Base}
    PROVE  Frame(x) \in Frames
BY DEF Frame, Frames, Children, WalkTypeOK

LEMMA WalkTyped == WalkTypeOK /\ [WalkNext]_walkVars => WalkTypeOK'
<1> SUFFICES ASSUME WalkTypeOK, [WalkNext]_walkVars PROVE WalkTypeOK'
  OBVIOUS
<1>1. ASSUME NEW frames \in Seq(Frames), Len(frames) >= 1, stack' = frames, call' = call,
             hidden' = hidden, kept' = kept, there' \in SUBSET Nodes
      PROVE  WalkTypeOK'
  BY <1>1 DEF WalkTypeOK
<1>2. there \in SUBSET Nodes /\ (\A q : there \ Removed(q) \in SUBSET Nodes)
  BY DEF WalkTypeOK
<1>3. \A x \in Nodes : Read(x) \in Seq(Frames) /\ Len(Read(x)) >= 1
  BY ReadIs DEF WalkTypeOK
<1>4. ASSUME NEW x \in Nodes, skip(x) PROVE WalkTypeOK'
  BY <1>1, <1>2, <1>3, <1>4 DEF skip, givenVars
<1>5. ASSUME NEW x \in Nodes, leaf(x) PROVE WalkTypeOK'
  <2>1. there' \in SUBSET Nodes
    BY <1>2, <1>5 DEF leaf, visit
  <2> QED
    BY <1>1, <1>3, <1>5, <2>1 DEF leaf, visit, givenVars
<1>6. ASSUME NEW x \in Nodes, refuse(x) PROVE WalkTypeOK'
  BY <1>1, <1>2, <1>3, <1>6 DEF refuse, givenVars
<1>7. ASSUME NEW x \in Nodes, enter(x) PROVE WalkTypeOK'
  <2> DEFINE r == Read(x)
             e == Append(r, Frame(x))
  <2>1. r \in Seq(Frames) /\ Len(r) >= 1 /\ Len(r) \in Nat
    BY <1>3, LenProperties
  <2>2. Frame(x) \in Frames
    BY FrameTyped
  <2> HIDE DEF r
  <2>3. e \in Seq(Frames) /\ Len(e) >= 1
    BY <2>1, <2>2, AppendProperties
  <2>4. stack' = e /\ UNCHANGED <<call, hidden, kept, there>>
    BY <1>7 DEF enter, r, givenVars
  <2> HIDE DEF e
  <2> QED
    BY <1>1, <1>2, <2>3, <2>4
<1>8. CASE leave
  <2>1. there' \in SUBSET Nodes
    BY <1>2, <1>8 DEF leave, visit
  <2>2. Len(stack) > 1
    BY <1>8 DEF leave
  <2> QED
    BY <1>1, <1>8, <2>1, <2>2, FrontIs DEF leave, visit, givenVars
<1>9. CASE recurse \/ UNCHANGED walkVars
  BY <1>9 DEF recurse, walkVars, givenVars, WalkTypeOK
<1> QED
  BY <1>4, <1>5, <1>6, <1>7, <1>8, <1>9 DEF WalkNext

\* What is not removed has its directory still.
LEMMA RemovedUp ==
    ASSUME UpToBase, NEW p, there' = there \ Removed(p) \/ there' = there
    PROVE  UpToBase'
<1> SUFFICES ASSUME NEW x \in there', Parent[x] # Base PROVE Parent[x] \in there'
  BY DEF UpToBase
<1>1. x \in there /\ Parent[x] \in there
  BY DEF UpToBase
<1>2. x \in Children(Parent[x])
  BY <1>1 DEF Children
<1>3. Parent[x] \notin Removed(p)
  BY <1>2 DEF Removed
<1> QED
  BY <1>1, <1>3

\* The path of an entry leads to it, and is that of its directory without it.
LEMMA EntryPath ==
    ASSUME WalkTypeOK, NEW x \in Nodes
    PROVE  LET p == Inside(Parent[x]) \o Entry(x)
           IN  /\ p = FullName[x] \/ (x \in Dirs /\ p = FullName[x] \o <<"/">>)
               /\ Trimmed(p, x) = Inside(Parent[x]) /\ ~(Len(p) < Len(Entry(x)))
               /\ x \in Dirs /\ call.recursive => p = Inside(x)
<1> DEFINE a == Inside(Parent[x])
<1>1. /\ FullName[x] = a \o Name[x] /\ a \in Seq(Letter) /\ Inside(x) = FullName[x] \o <<"/">>
      /\ Name[x] \in Seq(Letter) /\ <<"/">> \in Seq(Letter)
  <2>1. Name[x] \in Seq(Letter)
    BY NamesAreLetters
  <2> QED
    BY <2>1, FullIs, SlashIsLetter
<1> HIDE DEF a
<1>2. Name[x] \o <<"/">> \in Seq(Letter) /\ a \o (Name[x] \o <<"/">>) = (a \o Name[x]) \o <<"/">>
  <2>1. Name[x] \o <<"/">> \in Seq(Letter)
    BY <1>1, ConcatProperties
  <2>2. (a \o Name[x]) \o <<"/">> = a \o (Name[x] \o <<"/">>)
    BY <1>1, LettersAssociate
  <2> QED
    BY <2>1, <2>2
<1>3. Entry(x) \in Seq(Letter)
  BY <1>1, <1>2 DEF Entry
<1>4. Trimmed(a \o Entry(x), x) = a /\ ~(Len(a \o Entry(x)) < Len(Entry(x)))
  BY <1>1, <1>3, FrontOf DEF Trimmed
<1>5. IF x \in Dirs /\ call.recursive THEN a \o Entry(x) = Inside(x) ELSE a \o Entry(x) = FullName[x]
  BY <1>1, <1>2 DEF Entry
<1> QED
  BY <1>1, <1>4, <1>5 DEF a

\* The function is called with an entry at its place: what that leaves is
\* right if the frames left are and all but the entry is pending as it was.
LEMMA VisitKeeps ==
    ASSUME WalkInv, WalkTypeOK', Walking, ~lost, NEW x \in Nodes, NEW frames,
           visit(x, Inside(Parent[x]) \o Entry(x), frames), Spine(frames), Len(frames) \in Nat,
           frames[Len(frames)].dir = Parent[x], ~call.recursive => Len(frames) = 1,
           \A y \in there : y # x /\ Seen(y) /\ Pending(stack, y) => Pending(frames, y),
           call.fn = "rm" /\ x \in there /\ Seen(x) => Children(x) = {} \/ Handled(x)
    PROVE  WalkInv'
<1>1. OnTheWay /\ WalkTypeOK /\ status = "walk"
  BY DEF WalkInv, Walking
<1> DEFINE p == Inside(Parent[x]) \o Entry(x)
<1>0. /\ p = FullName[x] \/ (x \in Dirs /\ p = FullName[x] \o <<"/">>)
      /\ Trimmed(p, x) = Inside(Parent[x]) /\ ~(Len(p) < Len(Entry(x)))
  BY <1>1, EntryPath
<1>p. visit(x, p, frames)
  OBVIOUS
<1> HIDE DEF p
<1>2. UNCHANGED <<call, hidden, kept>> /\ stack' = frames
  BY <1>p DEF visit, givenVars
<1>3. \A y : (Seen(y)' <=> Seen(y)) /\ (Handled(y)' <=> Handled(y))
  BY <1>2 DEF Seen, Handled, Spared
<1>4. CASE call.fn = "find" /\ Name[x] = Pattern
  <2>1. path' = p /\ status' = "1" /\ there' = Nodes
    BY <1>1, <1>4, <1>p DEF visit, OnTheWay
  <2>2. x \in Resolve(path)'
    BY <1>0, <2>1 DEF Resolve
  <2>3. WalkFaithful'
    BY <1>4, <2>1, <2>2 DEF WalkFaithful
  <2> QED
    BY <2>1, <2>3 DEF WalkInv
<1>5. CASE ~(call.fn = "find" /\ Name[x] = Pattern)
  <2>1. path' = Inside(Parent[x]) /\ status' = "walk"
        /\ there' = IF call.fn = "rm" THEN there \ Removed(p) ELSE there
    BY <1>0, <1>5, <1>p DEF visit
  <2>2. path' = Inside(Top.dir)'
    <3>1. Top' = frames[Len(frames)]
      BY <1>2 DEF Top
    <3>2. path' = Inside(frames[Len(frames)].dir)
      BY <2>1
    <3> QED
      BY <3>1, <3>2 DEF Inside
  <2>3. UpToBase'
    BY <1>1, <2>1, RemovedUp DEF OnTheWay
  <2>4. call'.fn = "find" => there' = Nodes
    BY <1>1, <1>2, <2>1 DEF OnTheWay
  <2>5. ASSUME NEW y \in there', Seen(y) PROVE Pending(frames, y) \/ Handled(y)
    <3>1. y \in there /\ (Pending(stack, y) \/ Handled(y))
      BY <1>1, <2>1, <2>5 DEF OnTheWay
    <3>2. CASE y # x
      BY <2>5, <3>1, <3>2
    <3>3. CASE y = x
      <4>1. CASE call.fn = "find"
        BY <1>5, <3>3, <4>1 DEF Handled
      <4>2. CASE call.fn # "find"
        <5>1. call.fn = "rm"
          BY <1>1, <4>2 DEF WalkTypeOK
        <5>2. x \notin Removed(p)
          BY <2>1, <2>5, <3>3, <5>1
        <5>3. CASE x \in kept
          <6>1. x \in Spared /\ Hides(x, x)
            BY <5>3, Above, TreeAssumption DEF Spared
          <6> QED
            BY <3>3, <4>2, <6>1 DEF Handled
        <5>4. CASE x \notin kept
          <6>1. Children(x) # {}
            BY <1>0, <3>1, <3>3, <5>2, <5>4 DEF Removed, Resolve
          <6> QED
            BY <2>5, <3>1, <3>3, <5>1, <6>1
        <5> QED
          BY <5>3, <5>4
      <4> QED
        BY <4>1, <4>2
    <3> QED
      BY <3>2, <3>3
  <2>6. \A y \in there' : Seen(y)' => Pending(stack', y) \/ Handled(y)'
    BY <1>2, <1>3, <2>5
  <2>7. Spine(stack') /\ (~call'.recursive => Len(stack') = 1)
    BY <1>2
  <2>8. OnTheWay'
    BY <2>2, <2>3, <2>4, <2>6, <2>7 DEF OnTheWay
  <2>9. WalkFaithful'
    BY <2>1 DEF WalkFaithful
  <2> QED
    BY <2>8, <2>9 DEF WalkInv
<1> QED
  BY <1>4, <1>5

\* What Walking says of the call, and where an entry is that is read.
LEMMA EntryIs ==
    ASSUME WalkInv, ~lost, NEW x \in Nodes, Reading(x)
    PROVE  /\ OnTheWay /\ WalkTypeOK /\ Walking /\ status = "walk" /\ x \in Top.left
           /\ Parent[x] = Top.dir /\ path = Inside(Parent[x])
<1>1. OnTheWay /\ WalkTypeOK /\ Walking /\ status = "walk" /\ x \in Top.left
  BY DEF WalkInv, Reading, Walking
<1>2. Parent[x] = Top.dir
  BY <1>1, TopIs DEF OnTheWay
<1>3. path = Inside(Parent[x])
  BY <1>1, <1>2 DEF OnTheWay
<1> QED
  BY <1>1, <1>2, <1>3

\* The frames after an entry was read, with what they say.
LEMMA ReadFrames ==
    ASSUME WalkInv, ~lost, NEW x \in Nodes, Reading(x)
    PROVE  /\ Spine(Read(x)) /\ Len(Read(x)) \in Nat /\ Read(x)[Len(Read(x))].dir = Top.dir
           /\ ~call.recursive => Len(Read(x)) = 1
<1>1. OnTheWay /\ WalkTypeOK
  BY EntryIs
<1>2. Spine(Read(x))
  BY <1>1, SpineRead DEF OnTheWay
<1>3. Len(Read(x)) = Len(stack) /\ Len(stack) \in 1..Len(stack) /\ Len(stack) \in Nat
      /\ Top = stack[Len(stack)]
  BY <1>1, ReadIs, TopIs DEF OnTheWay
<1>4. Read(x)[Len(stack)].dir = Top.dir
  BY <1>1, <1>3, ReadIs
<1> QED
  BY <1>1, <1>2, <1>3, <1>4 DEF OnTheWay

LEMMA LeafKeeps ==
    ASSUME WalkInv, ~lost, ~lost', WalkTypeOK', NEW x \in Nodes, leaf(x)
    PROVE  WalkInv'
<1>1. Reading(x) /\ ~(x \in Dirs /\ call.recursive) /\ visit(x, path \o Entry(x), Read(x))
  BY DEF leaf, Stated, Extended
<1>2. /\ OnTheWay /\ WalkTypeOK /\ Walking /\ Parent[x] = Top.dir /\ path = Inside(Parent[x])
  BY <1>1, EntryIs
<1>3. /\ Spine(Read(x)) /\ Len(Read(x)) \in Nat /\ Read(x)[Len(Read(x))].dir = Parent[x]
      /\ ~call.recursive => Len(Read(x)) = 1
  BY <1>1, <1>2, ReadFrames
<1>4. visit(x, Inside(Parent[x]) \o Entry(x), Read(x))
  BY <1>1, <1>2
<1>5. ASSUME NEW y \in there, y # x, Seen(y), Pending(stack, y) PROVE Pending(Read(x), y)
  <2> SUFFICES ASSUME Hides(x, y) PROVE FALSE
    BY <1>2, <1>5, PendingRead DEF WalkTypeOK
  <2>1. y \in Nodes
    BY <1>2 DEF WalkTypeOK
  <2>2. PICK sub \in Nodes : Parent[sub] = x
    BY <1>5, <2>1, Between
  <2>3. x \in Dirs
    BY <2>2, TreeAssumption
  <2>4. Parent[y] = Base
    BY <1>1, <1>5, <2>3 DEF Seen
  <2> QED
    BY <1>5, <2>1, <2>4, Above
<1>6. ASSUME call.fn = "rm" PROVE Children(x) = {}
  <2>1. x \notin Dirs /\ x # Base
    BY <1>1, <1>2, <1>6, TreeAssumption DEF Walking
  <2>2. \A y \in Nodes : Parent[y] # x
    BY <2>1, TreeAssumption
  <2> QED
    BY <1>2, <2>2 DEF Children, WalkTypeOK
<1> DEFINE frames == Read(x)
<1> HIDE DEF frames
<1>7. /\ visit(x, Inside(Parent[x]) \o Entry(x), frames) /\ Spine(frames) /\ Len(frames) \in Nat
      /\ frames[Len(frames)].dir = Parent[x] /\ (~call.recursive => Len(frames) = 1)
      /\ \A y \in there : y # x /\ Seen(y) /\ Pending(stack, y) => Pending(frames, y)
  BY <1>3, <1>4, <1>5 DEF frames
<1>8. call.fn = "rm" /\ x \in there /\ Seen(x) => Children(x) = {} \/ Handled(x)
  BY <1>6
<1> QED
  BY <1>2, <1>7, <1>8, VisitKeeps

LEMMA LeaveKeeps ==
    ASSUME WalkInv, ~lost, WalkTypeOK', leave
    PROVE  WalkInv'
<1> DEFINE frames == SubSeq(stack, 1, Len(stack) - 1)
           x == Top.dir
<1>1. Walking /\ Len(stack) > 1 /\ Top.left = {} /\ visit(x, path, frames)
  BY DEF leave
<1>2. OnTheWay /\ WalkTypeOK /\ Spine(stack) /\ call.recursive
  <2>1. OnTheWay /\ WalkTypeOK
    BY <1>1 DEF WalkInv, Walking
  <2>2. Spine(stack) /\ (~call.recursive => Len(stack) = 1)
    BY <2>1 DEF OnTheWay
  <2> HIDE DEF frames, x
  <2>3. Len(stack) # 1
    <3>1. stack \in Seq(Frames)
      BY <2>1 DEF WalkTypeOK
    <3>2. Len(stack) \in Nat /\ Len(stack) > 1
      BY <1>1, <3>1, LenProperties
    <3> DEFINE K == Len(stack)
    <3>3. K \in Nat /\ K > 1
      BY <3>2
    <3> HIDE DEF K
    <3>4. K # 1
      BY <3>3
    <3> QED
      BY <3>4 DEF K
  <2> QED
    BY <2>1, <2>2, <2>3
<1>3. Len(stack) \in Nat /\ Top = stack[Len(stack)]
  BY <1>2, TopIs
<1>4. OneAbove(stack, Len(stack))
  <2>1. Len(stack) \in 2..Len(stack)
    BY <1>1, <1>3
  <2> QED
    BY <1>2, <2>1 DEF Spine
<1>5. x \in Nodes /\ Parent[x] = stack[Len(stack) - 1].dir
  BY <1>3, <1>4, TreeAssumption DEF OneAbove
<1>6. path = Inside(Parent[x]) \o Entry(x)
  <2>1. x \in Dirs
    BY <1>3, <1>4 DEF OneAbove
  <2> HIDE DEF x
  <2>2. path = Inside(x)
    BY <1>2 DEF OnTheWay, x
  <2> QED
    BY <1>2, <1>5, <2>1, <2>2, EntryPath
<1>7. /\ Spine(frames) /\ Len(frames) = Len(stack) - 1
      /\ \A k \in 1..Len(stack) - 1 : frames[k] = stack[k]
  BY <1>1, <1>2, SpineLeave, FrontIs
<1>8. \A y \in there : y # x /\ Seen(y) /\ Pending(stack, y) => Pending(frames, y)
  BY <1>1, <1>2, PendingLeave
<1>9. ASSUME call.fn = "rm", x \in there, Seen(x), Children(x) # {} PROVE Handled(x)
  <2>1. PICK sub \in there : Parent[sub] = x /\ sub \in Nodes
    BY <1>2, <1>9 DEF Children, WalkTypeOK
  <2>2. x # Base /\ Hides(x, x) /\ Hides(x, sub)
    BY <1>5, <2>1, Above, TreeAssumption
  <2>3. (\A h \in hidden : h \in Nodes) /\ (\A h \in Spared : h \in Nodes) /\ hidden \subseteq Spared
    BY <1>2 DEF WalkTypeOK, Spared
  <2>4. CASE Seen(sub)
    <3>1. ~Pending(stack, sub)
      BY <1>1, <1>2, <2>1, NothingBelow
    <3>2. Handled(sub)
      BY <1>2, <2>1, <2>4, <3>1 DEF OnTheWay
    <3>3. PICK h \in Spared : Hides(sub, h)
      BY <1>2, <1>9, <3>2 DEF Handled
    <3>4. Hides(x, h)
      BY <1>5, <2>1, <2>2, <2>3, <3>3, HidesOn
    <3> QED
      BY <1>2, <1>9, <3>4 DEF Handled
  <2>5. CASE ~Seen(sub)
    <3>1. PICK h \in hidden : Hides(h, sub)
      BY <1>2, <2>5 DEF Seen
    <3>h. h \in Nodes /\ h \in Spared
      BY <2>3
    <3>2. ~Hides(h, x)
      BY <1>9 DEF Seen
    <3>3. h = sub
      BY <2>1, <2>3, <3>1, <3>2, Above
    <3> QED
      BY <1>2, <1>9, <2>2, <3>3, <3>h DEF Handled
  <2> QED
    BY <2>4, <2>5
<1> HIDE DEF frames, x
<1>10. Len(frames) \in Nat /\ frames[Len(frames)].dir = Parent[x]
  <2>1. Len(stack) - 1 \in 1..Len(stack) - 1 /\ Len(stack) - 1 \in Nat
    BY <1>1, <1>3
  <2> QED
    BY <1>5, <1>7, <2>1
<1>11. visit(x, Inside(Parent[x]) \o Entry(x), frames)
  BY <1>1, <1>6
<1> QED
  BY <1>1, <1>2, <1>5, <1>7, <1>8, <1>9, <1>10, <1>11, VisitKeeps

\* What goes on with other frames, and nothing else changed.
LEMMA GoesOn ==
    ASSUME WalkInv, WalkTypeOK', status = "walk", ~lost, NEW frames, stack' = frames,
           UNCHANGED <<call, there, hidden, kept, status>>,
           Spine(frames), ~call.recursive => Len(frames) = 1, path' = Inside(Top.dir)',
           \A y \in there : Seen(y) /\ Pending(stack, y) => Pending(frames, y)
    PROVE  WalkInv'
<1>1. OnTheWay
  BY DEF WalkInv
<1>2. \A y : (Seen(y)' <=> Seen(y)) /\ (Handled(y)' <=> Handled(y))
  BY DEF Seen, Handled, Spared
<1>3. \A y \in there' : Seen(y)' => Pending(stack', y) \/ Handled(y)'
  BY <1>1, <1>2 DEF OnTheWay
<1>4. UpToBase' /\ (call'.fn = "find" => there' = Nodes)
  BY <1>1 DEF OnTheWay, UpToBase
<1>5. OnTheWay'
  BY <1>3, <1>4 DEF OnTheWay
<1>6. WalkFaithful'
  BY DEF WalkFaithful
<1> QED
  BY <1>5, <1>6 DEF WalkInv

LEMMA SkipKeeps ==
    ASSUME WalkInv, ~lost, WalkTypeOK', NEW x \in Nodes, skip(x)
    PROVE  WalkInv'
<1> DEFINE frames == Read(x)
<1>1. /\ Reading(x) /\ (x \in hidden \/ x \notin there) /\ stack' = frames
      /\ UNCHANGED <<call, there, hidden, kept, path, status>>
  BY DEF skip, givenVars
<1>2. OnTheWay /\ WalkTypeOK /\ status = "walk"
  BY <1>1, EntryIs
<1>3. /\ Spine(frames) /\ frames[Len(frames)].dir = Top.dir
      /\ ~call.recursive => Len(frames) = 1
  BY <1>1, ReadFrames
<1>4. \A y \in there : Seen(y) /\ Pending(stack, y) => Pending(frames, y)
  <2> SUFFICES ASSUME NEW y \in there, Seen(y), Pending(stack, y), Hides(x, y) PROVE FALSE
    BY <1>2, PendingRead DEF WalkTypeOK
  <2>1. x \notin hidden
    BY DEF Seen
  <2>2. x \in there
    BY <1>2, AboveThere DEF OnTheWay, WalkTypeOK
  <2> QED
    BY <1>1, <2>1, <2>2
<1> HIDE DEF frames
<1>5. path' = Inside(Top.dir)'
  <2>1. Top' = frames[Len(frames)]
    BY <1>1 DEF Top
  <2>2. path' = Inside(frames[Len(frames)].dir)
    BY <1>1, <1>2, <1>3 DEF OnTheWay
  <2> QED
    BY <2>1, <2>2 DEF Inside
<1> QED
  BY <1>1, <1>2, <1>3, <1>4, <1>5, GoesOn

LEMMA EnterKeeps ==
    ASSUME WalkInv, ~lost, ~lost', WalkTypeOK', NEW x \in Nodes, enter(x)
    PROVE  WalkInv'
<1> DEFINE frames == Append(Read(x), Frame(x))
<1>1. /\ Reading(x) /\ x \in Dirs /\ call.recursive /\ stack' = frames
      /\ path' = path \o Entry(x) /\ UNCHANGED <<call, there, hidden, kept, status>>
  BY DEF enter, Stated, Extended, givenVars
<1>2. /\ OnTheWay /\ WalkTypeOK /\ status = "walk" /\ x \in Top.left
      /\ path = Inside(Parent[x]) /\ Spine(stack) /\ UpToBase
  BY <1>1, EntryIs DEF OnTheWay
<1>3. Spine(frames)
  BY <1>1, <1>2, SpineEnter
<1>4. \A y \in there : Seen(y) /\ Pending(stack, y) => Pending(frames, y)
  BY <1>1, <1>2, PendingEnter
<1>5. frames[Len(frames)] = Frame(x)
  <2> DEFINE r == Read(x)
             b == Frame(x)
  <2>1. r \in Seq(Frames) /\ b \in Frames
    BY <1>2, ReadIs, FrameTyped
  <2> HIDE DEF r, b
  <2>2. Append(r, b)[Len(Append(r, b))] = b
    <3>1. Len(Append(r, b)) = Len(r) + 1 /\ Append(r, b)[Len(r) + 1] = b
      BY <2>1, AppendProperties
    <3> QED
      BY <3>1
  <2> QED
    BY <2>2 DEF r, b
<1> HIDE DEF frames
<1>6. path' = Inside(Top.dir)'
  <2>1. Top' = frames[Len(frames)]
    BY <1>1 DEF Top
  <2>2. frames[Len(frames)].dir = x
    BY <1>5 DEF Frame
  <2>3. path' = Inside(x)
    BY <1>1, <1>2, EntryPath
  <2> QED
    BY <2>1, <2>2, <2>3 DEF Inside
<1> QED
  BY <1>1, <1>2, <1>3, <1>4, <1>6, GoesOn

LEMMA EndsWalk ==
    ASSUME WalkInv, ~lost, WalkTypeOK', recurse
    PROVE  WalkInv'
<1>1. /\ status = "walk" /\ (Walking => Len(stack) = 1 /\ Top.left = {}) /\ status' = "0"
      /\ UNCHANGED <<call, there, hidden, kept, stack, path, lost>>
  BY DEF recurse, givenVars
<1>2. OnTheWay /\ WalkTypeOK
  BY <1>1 DEF WalkInv
<1>3. ASSUME Walking, NEW y \in there, Seen(y) PROVE Handled(y)
  <2>0. Len(stack) = 1 /\ Top.left = {} /\ Top = stack[1]
    BY <1>1, <1>3 DEF Top
  <2>1. \A k \in 1..Len(stack) : k = 1
    BY <2>0
  <2>2. ~Pending(stack, y)
    BY <2>0, <2>1 DEF Pending
  <2> QED
    BY <1>2, <1>3, <2>2 DEF OnTheWay
<1>4. \A y : Seen(y)' <=> Seen(y)
  BY <1>1 DEF Seen
<1>5. call.fn = "find" => there = Nodes
  BY <1>2 DEF OnTheWay
<1>6. WalkFaithful'
  <2>1. ASSUME call.fn = "find", NEW y \in Nodes, Seen(y)' PROVE Name[y] # Pattern
    BY <1>1, <1>3, <1>4, <1>5, <2>1 DEF Walking, Handled
  <2>2. ASSUME call.fn = "rm", call.recursive, NEW y \in there
        PROVE  ~Seen(y)' \/ \E h \in Spared : Hides(y, h)
    BY <1>1, <1>3, <1>4, <2>2 DEF Walking, Handled
  <2>3. Spared' = Spared
    BY <1>1 DEF Spared
  <2> QED
    BY <1>1, <2>1, <2>2, <2>3 DEF WalkFaithful
<1> QED
  BY <1>1, <1>6 DEF WalkInv

LEMMA WalkStep == WalkInv /\ [WalkNext]_walkVars => WalkInv'
<1> SUFFICES ASSUME WalkInv, [WalkNext]_walkVars PROVE WalkInv'
  OBVIOUS
<1>1. WalkTypeOK'
  BY WalkTyped DEF WalkInv
<1>2. CASE UNCHANGED walkVars
  <2>1. \A y : (Seen(y)' <=> Seen(y)) /\ (Handled(y)' <=> Handled(y))
    BY <1>2 DEF Seen, Handled, Spared, walkVars, givenVars
  <2>2. UNCHANGED <<Resolve(path), Top>>
    BY <1>2 DEF Resolve, Top, walkVars
  <2>3. OnTheWay => OnTheWay'
    BY <1>2, <2>1, <2>2 DEF OnTheWay, UpToBase, Inside, walkVars, givenVars
  <2>4. WalkFaithful => WalkFaithful'
    BY <1>2, <2>1, <2>2 DEF WalkFaithful, Spared, walkVars, givenVars
  <2> QED
    BY <1>1, <1>2, <2>3, <2>4 DEF WalkInv, walkVars, givenVars
<1>3. CASE lost /\ WalkNext
  <2>1. lost'
    BY <1>3 DEF WalkNext, skip, leaf, refuse, enter, leave, recurse, visit
  <2> QED
    BY <1>1, <2>1 DEF WalkInv
<1>4. CASE ~lost /\ lost' /\ WalkNext
  BY <1>1, <1>4 DEF WalkInv
<1>5. CASE ~lost /\ ~lost' /\ WalkNext
  <2>1. ASSUME NEW x \in Nodes, skip(x) PROVE WalkInv'
    BY <1>1, <1>5, <2>1, SkipKeeps
  <2>2. ASSUME NEW x \in Nodes, leaf(x) PROVE WalkInv'
    BY <1>1, <1>5, <2>2, LeafKeeps
  <2>3. ASSUME NEW x \in Nodes, refuse(x) PROVE WalkInv'
    BY <1>5, <2>3 DEF refuse
  <2>4. ASSUME NEW x \in Nodes, enter(x) PROVE WalkInv'
    BY <1>1, <1>5, <2>4, EnterKeeps
  <2>5. CASE leave
    BY <1>1, <1>5, <2>5, LeaveKeeps
  <2>6. CASE recurse
    BY <1>1, <1>5, <2>6, EndsWalk
  <2> QED
    BY <1>5, <2>1, <2>2, <2>3, <2>4, <2>5, <2>6 DEF WalkNext
<1> QED
  BY <1>2, <1>3, <1>4, <1>5

LEMMA WalkStarts == WalkInit => WalkInv
<1> SUFFICES ASSUME WalkInit PROVE WalkInv
  OBVIOUS
<1> DEFINE b == Frame(Base)
<1>1. /\ call \in [fn : {"find", "rm"}, recursive : BOOLEAN] /\ there = Nodes
      /\ hidden \in SUBSET Nodes /\ kept \in SUBSET (Nodes \cup {Base}) /\ stack = <<b>> /\ path = <<>> /\ status = "walk"
  BY DEF WalkInit
<1>2. b \in Frames /\ b.dir = Base /\ b.left = {x \in Nodes : Parent[x] = Base}
  BY <1>1 DEF Frame, Frames, Children
<1> HIDE DEF b
<1>3. stack \in Seq(Frames) /\ Len(stack) = 1 /\ stack[1] = b /\ Top = b
  BY <1>1, <1>2 DEF Top
<1>4. WalkTypeOK
  BY <1>1, <1>3 DEF WalkTypeOK
<1>5. PathOf(Base) = <<>> /\ Len(<<>>) = 0 /\ Inside(Base) = <<>>
  BY DEF PathOf, Inside
<1>6. Spine(stack)
  <2>1. OneIn(stack, 1)
    BY <1>2, <1>3, <1>5 DEF OneIn
  <2>2. 1..Len(stack) = {1} /\ 2..Len(stack) = {}
    BY <1>3
  <2> QED
    BY <1>2, <1>3, <2>1, <2>2 DEF Spine
<1>7. \A x \in there : Pending(stack, x)
  <2> SUFFICES ASSUME NEW x \in Nodes PROVE \E a \in stack[1].left : Hides(a, x)
    BY <1>1, <1>3 DEF Pending
  <2> QED
    BY <1>2, <1>3, FirstLevel
<1>8. UpToBase
  BY <1>1, TreeAssumption DEF UpToBase
<1>9. OnTheWay
  BY <1>1, <1>2, <1>3, <1>5, <1>6, <1>7, <1>8 DEF OnTheWay
<1> QED
  BY <1>1, <1>4, <1>9 DEF WalkInv, WalkFaithful

\* A walk that could open every directory and whose paths all fit does what it
\* was asked for (jsapi-directory.c, recursedir): find answers with the place of
\* an entry of the name if there is one to be seen, and remove leaves only what
\* it could not look at, what remove(3) fails for and the directories above.
THEOREM WalksFaithful == WalkSpec => []WalkFaithful
<1>1. WalkSpec => []WalkInv
  BY WalkStarts, WalkStep, PTL DEF WalkSpec
<1>2. WalkInv => WalkFaithful
  BY DEF WalkInv, WalkFaithful
<1> QED
  BY <1>1, <1>2, PTL
=============================================================================
