---------------------------- MODULE Daemon_proofs ----------------------------
(***************************************************************************)
(* Theorems about Daemon, for every set of files.                          *)
(*                                                                         *)
(* TokensFaithful compares what the two coroutines of conf.c did with      *)
(* Tokens, which reads the file at once by recursion.  The recursion always *)
(* goes on further behind, so it has exactly one solution (Solvable), and  *)
(* what it says from a place on is the same behind the blanks and comments *)
(* the lexer passes over (BskipFollows, PastFollows).  The invariant then  *)
(* is that the tokens of the file are the ones pulled, the one in the      *)
(* storage of the coroutine and the ones the recursion finds from off on   *)
(* (Counted); and that the text from off on, with the saved character put  *)
(* back, is that of the file (Sound), which is what a conf_lex_string that *)
(* did not restore it would break.                                         *)
(***************************************************************************)
EXTENDS Daemon, SequenceTheorems, WellFoundedInduction, TLAPS

-----------------------------------------------------------------------------
(* Least elements, and recursion towards the end of a text.                *)

\* A set of numbers that is not empty has a least one.
LEMMA LeastOne ==
    ASSUME NEW T \in SUBSET Nat, T # {}
    PROVE  \E x \in T : \A y \in T : x <= y
<1>1. \E x \in T : \A y \in T : ~(<<y, x>> \in OpToRel(<, Nat))
  BY WFMin, NatLessThanWellFounded
<1>2. \A x, y \in T : ~(<<y, x>> \in OpToRel(<, Nat)) => x <= y
  <2> TAKE x, y \in T
  <2>1. x \in Nat /\ y \in Nat /\ <<y, x>> \in Nat \X Nat
    OBVIOUS
  <2>2. y < x => <<y, x>> \in OpToRel(<, Nat)
    BY <2>1 DEF OpToRel
  <2>3. ~(<<y, x>> \in OpToRel(<, Nat)) => ~(y < x)
    BY <2>2, Zenon
  <2>4. ~(y < x) => x <= y
    BY <2>1
  <2> QED
    BY <2>3, <2>4, Zenon
<1> QED
  BY <1>1, <1>2, Zenon

LEMMA MinOps ==
    ASSUME NEW T \in SUBSET Nat, T # {}
    PROVE  Min(T) \in T /\ \A y \in T : Min(T) <= y
<1>1. \E x \in T : \A y \in T : x =< y
  BY LeastOne
<1> QED
  BY <1>1, Zenon DEF Min

\* A text is read from its end: what holds of a place when it holds of all
\* behind it holds everywhere.
LEMMA FromBehind ==
    ASSUME NEW N \in Nat, NEW T,
           \A i \in 1..N : (\A j \in 1..N : i < j => j \in T) => i \in T
    PROVE  \A i \in 1..N : i \in T
<1> DEFINE Rest == {d \in Nat : N - d \in 1..N /\ N - d \notin T}
<1>1. ASSUME NEW i \in 1..N, i \notin T PROVE FALSE
  <2>1. N - i \in Rest
    <3>1. N - i \in Nat /\ N - (N - i) = i
      OBVIOUS
    <3> QED
      BY <3>1, <1>1
  <2>2. PICK d \in Rest : \A e \in Rest : d <= e
    <3>1. Rest \in SUBSET Nat /\ Rest # {}
      BY <2>1
    <3> HIDE DEF Rest
    <3> QED
      BY <3>1, LeastOne
  <2>3. ASSUME NEW j \in 1..N, N - d < j PROVE j \in T
    <3>1. d \in Nat /\ N - j \in Nat /\ N - (N - j) = j /\ ~(d <= N - j)
      BY <2>3
    <3>2. N - j \notin Rest
      BY <2>2, <3>1
    <3> QED
      BY <3>1, <3>2
  <2>4. N - d \in 1..N /\ N - d \notin T
    OBVIOUS
  <2> QED
    BY <2>3, <2>4
<1> QED
  BY <1>1

\* A recursion whose calls all go to places behind has a solution.
LooksBehind(N, V, step) ==
    \A i \in 1..N : \A g, h \in [1..N -> V] :
        (\A j \in 1..N : i < j => g[j] = h[j]) => step[i][g] = step[i][h]
Solution(g, N, step) == \A i \in 1..N : g[i] = step[i][g]

LEMMA Solvable ==
    ASSUME NEW N \in Nat, NEW V, NEW v \in V, NEW step \in [1..N -> [[1..N -> V] -> V]],
           LooksBehind(N, V, step)
    PROVE  \E g \in [1..N -> V] : Solution(g, N, step)
<1>0. \A i \in 1..N : \A g, h \in [1..N -> V] :
         (\A j \in 1..N : i < j => g[j] = h[j]) => step[i][g] = step[i][h]
  BY DEF LooksBehind
<1> SUFFICES \E g \in [1..N -> V] : \A i \in 1..N : g[i] = step[i][g]
  BY DEF Solution
<1> DEFINE Right(g, k) == \A i \in 1..N : k <= i => g[i] = step[i][g]
           T == {k \in 1..N : \E g \in [1..N -> V] : Right(g, k)}
<1>1. ASSUME NEW k \in 1..N, NEW g \in [1..N -> V], Right(g, k + 1)
      PROVE  k \in T
  <2> DEFINE h == [g EXCEPT ![k] = step[k][g]]
  <2>1. step[k][g] \in V
    OBVIOUS
  <2>2. h \in [1..N -> V] /\ h[k] = step[k][g] /\ \A j \in 1..N : k < j => h[j] = g[j]
    BY <2>1
  <2> HIDE DEF h
  <2>3. ASSUME NEW i \in 1..N, k <= i PROVE h[i] = step[i][h]
    <3>1. step[i][h] = step[i][g]
      <4>1. \A j \in 1..N : i < j => h[j] = g[j]
        BY <2>2, <2>3
      <4> QED
        BY <1>0, <2>2, <4>1
    <3>2. CASE i = k
      BY <2>2, <3>1, <3>2
    <3>3. CASE k + 1 <= i
      <4>1. h[i] = g[i] /\ g[i] = step[i][g]
        BY <1>1, <2>2, <3>3
      <4> QED
        BY <3>1, <4>1
    <3> QED
      BY <2>3, <3>2, <3>3
  <2> QED
    BY <2>2, <2>3
<1>2. CASE N = 0
  <2> DEFINE h == [i \in 1..N |-> v]
  <2>1. h \in [1..N -> V] /\ \A i \in 1..N : FALSE
    BY <1>2
  <2> HIDE DEF h
  <2> QED
    BY <2>1, Zenon
<1>3. CASE N # 0
  <2>1. N \in T
    <3>1. [i \in 1..N |-> v] \in [1..N -> V] /\ N \in 1..N
      BY <1>3
    <3>2. Right([i \in 1..N |-> v], N + 1)
      OBVIOUS
    <3> HIDE DEF T, Right
    <3> QED
      BY <1>1, <3>1, <3>2
  <2>2. \A i \in 1..N : (\A j \in 1..N : i < j => j \in T) => i \in T
    <3> SUFFICES ASSUME NEW i \in 1..N, \A j \in 1..N : i < j => j \in T
                 PROVE  i \in T
      OBVIOUS
    <3>1. CASE i = N
      BY <2>1, <3>1
    <3>2. CASE i < N
      <4>1. i + 1 \in T
        <5>1. i + 1 \in 1..N /\ i < i + 1
          BY <3>2
        <5> HIDE DEF T
        <5> QED
          BY <5>1
      <4>2. PICK g \in [1..N -> V] : Right(g, i + 1)
        BY <4>1
      <4> HIDE DEF T, Right
      <4> QED
        BY <1>1, <4>2
    <3> QED
      BY <3>1, <3>2
  <2>3. 1 \in T
    <3> HIDE DEF T
    <3>1. \A i \in 1..N : i \in T
      BY <2>2, FromBehind
    <3> QED
      BY <1>3, <3>1
  <2>4. PICK g \in [1..N -> V] : Right(g, 1)
    BY <2>3
  <2>5. \A i \in 1..N : g[i] = step[i][g]
    BY <2>4
  <2> QED
    BY <2>5
<1> QED
  BY <1>2, <1>3

-----------------------------------------------------------------------------
(* Scanning.                                                               *)

\* What a text is made of: strings, those the lexer itself writes named one by
\* one (to the provers a literal is no member of STRING).
Symbol == STRING \cup {NUL, "eof", "string", "{", "}", ","}

\* A text with a NUL at its end.
Ended(t) == t \in Seq(Symbol) /\ Len(t) \in Nat /\ Len(t) >= 1 /\ t[Len(t)] = NUL

LEMMA EndedOps ==
    ASSUME NEW t, Ended(t)
    PROVE  Len(t) \in Nat /\ Len(t) \in 1..Len(t) /\ \A i \in 1..Len(t) : t[i] \in Symbol
BY ElementOfSeq DEF Ended

LEMMA FileEnded ==
    ASSUME NEW f \in Texts
    PROVE  /\ f \in Seq(Symbol) /\ Ended(Append(f, NUL)) /\ Len(Append(f, NUL)) = Len(f) + 1
<1>1. f \in Seq(Symbol)
  <2>1. Texts \subseteq Seq(STRING)
    BY ConfAssumption, Zenon
  <2>2. f \in Seq(STRING) /\ STRING \subseteq Symbol
    BY <2>1, Zenon DEF Symbol
  <2> QED
    BY <2>2, SeqMonotonic
<1>2. Len(f) \in Nat /\ NUL \in Symbol
  BY <1>1, LenProperties DEF Symbol
<1> DEFINE t == Append(f, NUL)
<1>3. /\ t \in Seq(Symbol) /\ Len(t) = Len(f) + 1 /\ t[Len(f) + 1] = NUL
  BY <1>1, <1>2, AppendProperties
<1> HIDE DEF t
<1>4. Ended(t)
  BY <1>2, <1>3 DEF Ended
<1> QED
  BY <1>1, <1>3, <1>4 DEF t

LEMMA FirstOps ==
    ASSUME NEW t, Ended(t), NEW i \in 1..Len(t), NEW S
    PROVE  /\ First(t, i, S) \in i..Len(t)
           /\ t[First(t, i, S)] \in S \cup {NUL}
           /\ \A j \in i..First(t, i, S) - 1 : t[j] \notin S \cup {NUL}
<1> DEFINE T == {j \in i..Len(t) : t[j] \in S \cup {NUL}}
<1>1. Len(t) \in T /\ T \in SUBSET Nat /\ T # {}
  BY DEF Ended
<1>2. First(t, i, S) = Min(T)
  BY Zenon DEF First
<1>3. Min(T) \in T /\ \A y \in T : Min(T) <= y
  <2> HIDE DEF T
  <2> QED
    BY <1>1, MinOps
<1> HIDE DEF First
<1>4. \A j \in i..Min(T) - 1 : j \in i..Len(t) /\ ~(Min(T) <= j)
  BY <1>1, <1>3
<1> QED
  BY <1>2, <1>3, <1>4

LEMMA FirstIs ==
    ASSUME NEW t, Ended(t), NEW i \in 1..Len(t), NEW S,
           NEW k \in i..Len(t), t[k] \in S \cup {NUL}, \A j \in i..k - 1 : t[j] \notin S \cup {NUL}
    PROVE  First(t, i, S) = k
<1>1. /\ First(t, i, S) \in i..Len(t)
      /\ t[First(t, i, S)] \in S \cup {NUL}
      /\ \A j \in i..First(t, i, S) - 1 : t[j] \notin S \cup {NUL}
  BY FirstOps
<1> DEFINE m == First(t, i, S)
<1> HIDE DEF m
<1>2. m \in i..Len(t) /\ t[m] \in S \cup {NUL} /\ \A j \in i..m - 1 : t[j] \notin S \cup {NUL}
  BY <1>1 DEF m
<1>3. ~(m < k) /\ ~(k < m)
  <2>1. m < k => m \in i..k - 1
    BY <1>2
  <2>2. k < m => k \in i..m - 1
    BY <1>2
  <2> QED
    BY <1>2, <2>1, <2>2
<1> QED
  BY <1>2, <1>3 DEF m

LEMMA BskipOps ==
    ASSUME NEW t, Ended(t), NEW i \in 1..Len(t)
    PROVE  /\ conf_lex_bskip(t, i) \in i..Len(t)
           /\ t[conf_lex_bskip(t, i)] \notin Blanks
           /\ t[i] \notin Blanks => conf_lex_bskip(t, i) = i
           /\ t[i] \in Blanks => /\ i + 1 \in 1..Len(t)
                                 /\ conf_lex_bskip(t, i) = conf_lex_bskip(t, i + 1)
<1> DEFINE T(k) == {j \in k..Len(t) : t[j] \notin Blanks}
<1>0. NUL \notin Blanks
  BY DEF NUL, Blanks
<1>1. ASSUME NEW k \in 1..Len(t) PROVE T(k) \in SUBSET Nat /\ T(k) # {}
  BY <1>0 DEF Ended
<1>2. ASSUME NEW k \in 1..Len(t)
      PROVE  /\ conf_lex_bskip(t, k) \in T(k)
             /\ \A y \in T(k) : conf_lex_bskip(t, k) <= y
  <2>1. conf_lex_bskip(t, k) = Min(T(k))
    BY Zenon DEF conf_lex_bskip
  <2> HIDE DEF T
  <2> QED
    BY <1>1, <2>1, MinOps
<1> HIDE DEF conf_lex_bskip
<1>3. t[i] \notin Blanks => conf_lex_bskip(t, i) = i
  BY <1>2 DEF Ended
<1>4. ASSUME t[i] \in Blanks
      PROVE  i + 1 \in 1..Len(t) /\ conf_lex_bskip(t, i) = conf_lex_bskip(t, i + 1)
  <2>1. i + 1 \in 1..Len(t)
    BY <1>0, <1>4 DEF Ended
  <2>2. T(i) = T(i + 1)
    <3>1. \A j : j \in i..Len(t) <=> j = i \/ j \in i + 1..Len(t)
      BY <2>1
    <3> QED
      BY <1>4, <3>1, Zenon
  <2>3. conf_lex_bskip(t, i) = Min(T(i)) /\ conf_lex_bskip(t, i + 1) = Min(T(i + 1))
    BY Zenon DEF conf_lex_bskip
  <2> HIDE DEF T
  <2> QED
    BY <2>1, <2>2, <2>3
<1> QED
  BY <1>2, <1>3, <1>4

LEMMA CommentOps ==
    ASSUME NEW t, Ended(t), NEW i \in 1..Len(t), t[i] = "#"
    PROVE  /\ conf_lex_comment(t, i) \in i + 1..Len(t)
           /\ t[conf_lex_comment(t, i)] \notin Blanks
           /\ First(t, i, {"\n"}) \in i + 1..Len(t)
           /\ conf_lex_comment(t, i) = conf_lex_bskip(t, First(t, i, {"\n"}))
<1>1. i + 1 \in 1..Len(t)
  BY DEF Ended, NUL
<1> DEFINE k == First(t, i + 1, {"\n"})
<1>2. /\ k \in i + 1..Len(t) /\ t[k] \in {"\n"} \cup {NUL}
      /\ \A j \in i + 1..k - 1 : t[j] \notin {"\n"} \cup {NUL}
  BY <1>1, FirstOps
<1>3. First(t, i, {"\n"}) = k
  <2> HIDE DEF k
  <2>1. t[i] \notin {"\n"} \cup {NUL}
    BY DEF NUL
  <2>2. \A j \in i..k - 1 : j = i \/ j \in i + 1..k - 1
    OBVIOUS
  <2>3. k \in i..Len(t)
    BY <1>2
  <2> QED
    BY <1>2, <2>1, <2>2, <2>3, FirstIs
<1>4. k \in 1..Len(t)
  BY <1>2
<1>5. conf_lex_bskip(t, k) \in k..Len(t) /\ t[conf_lex_bskip(t, k)] \notin Blanks
  BY <1>4, BskipOps
<1>6. conf_lex_comment(t, i) = conf_lex_bskip(t, k)
  BY DEF conf_lex_comment
<1> HIDE DEF k
<1> QED
  BY <1>2, <1>3, <1>4, <1>5, <1>6

\* Past is the recursion it is written as.
PastIs(f, t) == f = [j \in 1..Len(t) |-> IF t[j] = "#" THEN f[conf_lex_comment(t, j)] ELSE j]

LEMMA PastDefined ==
    ASSUME NEW t, Ended(t)
    PROVE  \E f : PastIs(f, t)
<1> DEFINE N == Len(t)
           V == 1..N
           step == [i \in 1..N |-> [g \in [1..N -> V] |->
                        IF t[i] = "#" THEN g[conf_lex_comment(t, i)] ELSE i]]
<1>1. N \in Nat /\ 1 \in V
  BY DEF Ended
<1>2. ASSUME NEW i \in 1..N, t[i] = "#"
      PROVE  conf_lex_comment(t, i) \in 1..N /\ i < conf_lex_comment(t, i)
  BY <1>2, CommentOps
<1> HIDE DEF N
<1>3. step \in [1..N -> [[1..N -> V] -> V]]
  BY <1>2
<1>4. ASSUME NEW i \in 1..N, NEW g \in [1..N -> V] PROVE step[i][g] = IF t[i] = "#" THEN g[conf_lex_comment(t, i)] ELSE i
  OBVIOUS
<1>5. ASSUME NEW i \in 1..N, NEW g \in [1..N -> V], NEW h \in [1..N -> V],
             \A j \in 1..N : i < j => g[j] = h[j]
      PROVE  step[i][g] = step[i][h]
  BY <1>2, <1>4, <1>5
<1>9. LooksBehind(N, V, step)
  <2> HIDE DEF step, V
  <2> QED
    BY <1>5 DEF LooksBehind
<1> HIDE DEF step, V
<1>6. PICK g \in [1..N -> V] : Solution(g, N, step)
  BY <1>1, <1>3, <1>9, Solvable
<1>7. \A i \in 1..N : g[i] = IF t[i] = "#" THEN g[conf_lex_comment(t, i)] ELSE i
  BY <1>4, <1>6 DEF Solution
<1>8. g = [i \in 1..N |-> IF t[i] = "#" THEN g[conf_lex_comment(t, i)] ELSE i]
  BY <1>7
<1> QED
  BY <1>8 DEF PastIs, N

LEMMA PastOps ==
    ASSUME NEW t, Ended(t), NEW i \in 1..Len(t)
    PROVE  Past(t, i) = IF t[i] = "#" THEN Past(t, conf_lex_comment(t, i)) ELSE i
<1> DEFINE f == CHOOSE g : PastIs(g, t)
<1>1. PastIs(f, t)
  BY PastDefined, Zenon
<1>2. \A j : Past(t, j) = f[j]
  BY Zenon DEF Past, PastIs
<1> HIDE DEF f
<1>3. f[i] = IF t[i] = "#" THEN f[conf_lex_comment(t, i)] ELSE i
  BY <1>1, Zenon DEF PastIs
<1>4. Past(t, i) = f[i] /\ Past(t, conf_lex_comment(t, i)) = f[conf_lex_comment(t, i)]
  BY <1>2, Zenon
<1> QED
  BY <1>3, <1>4

\* Behind the comments is no comment, and no blank.
LEMMA PastEnds ==
    ASSUME NEW t, Ended(t)
    PROVE  \A i \in 1..Len(t) :
             /\ Past(t, i) \in i..Len(t) /\ t[Past(t, i)] # "#"
             /\ t[i] \notin Blanks => t[Past(t, i)] \notin Blanks
<1> DEFINE T == {i \in 1..Len(t) :
                    /\ Past(t, i) \in i..Len(t) /\ t[Past(t, i)] # "#"
                    /\ t[i] \notin Blanks => t[Past(t, i)] \notin Blanks}
<1>1. ASSUME NEW i \in 1..Len(t), \A j \in 1..Len(t) : i < j => j \in T
      PROVE  i \in T
  <2>1. CASE t[i] # "#"
    <3>1. Past(t, i) = i /\ i \in i..Len(t)
      BY <2>1, PastOps DEF Ended
    <3> QED
      BY <2>1, <3>1
  <2>2. CASE t[i] = "#"
    <3> DEFINE k == conf_lex_comment(t, i)
    <3>1. k \in i + 1..Len(t) /\ t[k] \notin Blanks
      BY <2>2, CommentOps
    <3>2. Past(t, i) = Past(t, k)
      BY <2>2, PastOps
    <3> HIDE DEF k
    <3>3. k \in T /\ k \in 1..Len(t)
      BY <1>1, <3>1 DEF Ended
    <3> QED
      BY <3>1, <3>2, <3>3 DEF Ended
  <2> QED
    BY <2>1, <2>2
<1>2. Len(t) \in Nat
  BY DEF Ended
<1> HIDE DEF T
<1>3. \A i \in 1..Len(t) : i \in T
  BY <1>1, <1>2, FromBehind
<1> QED
  BY <1>3 DEF T

-----------------------------------------------------------------------------
(* What Tokens reads, from each place on.                                  *)

Token == [type : Symbol, str : Seq(Symbol)]

Read(t, i, g) ==
    CASE t[i] = NUL        -> <<[type |-> "eof", str |-> <<>>]>>
      [] t[i] \in Blanks   -> g[i + 1]
      [] t[i] = "#"        -> g[First(t, i, {"\n"})]
      [] t[i] = "quote"    -> IF Closed(t, i)
                              THEN <<[type |-> "string", str |-> Quoted(t, i)]>>
                                   \o g[First(t, i + 1, {"quote"}) + 1]
                              ELSE <<>>
      [] t[i] \in {"{", "}", ","} -> <<[type |-> t[i], str |-> <<>>]>> \o g[i + 1]
      [] OTHER             -> <<[type |-> "string", str |-> Word(t, i)]>>
                              \o g[i + Len(Word(t, i))]

FollowIs(g, t) == g = [i \in 1..Len(t) |-> Read(t, i, g)]
Following(t)   == CHOOSE g : FollowIs(g, t)

Plain(c) == c \notin Marks \cup Blanks \cup {NUL}

LEMMA TokensFollow ==
    ASSUME NEW f
    PROVE  Tokens(f) = Following(Append(f, NUL))[1]
BY Zenon DEF Tokens, Following, FollowIs, Read

\* One case of Read each.
ReadIs(t, i, g) ==
    /\ t[i] = NUL => Read(t, i, g) = <<[type |-> "eof", str |-> <<>>]>>
    /\ t[i] \in Blanks => Read(t, i, g) = g[i + 1]
    /\ t[i] = "#" => Read(t, i, g) = g[First(t, i, {"\n"})]
    /\ t[i] = "quote" /\ Closed(t, i) =>
           Read(t, i, g) = <<[type |-> "string", str |-> Quoted(t, i)]>>
                           \o g[First(t, i + 1, {"quote"}) + 1]
    /\ t[i] = "quote" /\ ~Closed(t, i) => Read(t, i, g) = <<>>
    /\ t[i] \in {"{", "}", ","} =>
           Read(t, i, g) = <<[type |-> t[i], str |-> <<>>]>> \o g[i + 1]
    /\ Plain(t[i]) =>
           Read(t, i, g) = <<[type |-> "string", str |-> Word(t, i)]>>
                           \o g[i + Len(Word(t, i))]

LEMMA ReadCases ==
    ASSUME NEW t, NEW i, NEW g
    PROVE  ReadIs(t, i, g)
BY DEF ReadIs, Read, Blanks, NUL, Plain, Marks

LEMMA SymbolCases ==
    ASSUME NEW c
    PROVE  \/ c = NUL \/ c \in Blanks \/ c = "#" \/ c = "quote"
           \/ c \in {"{", "}", ","} \/ Plain(c)
BY DEF Plain, Marks

\* The places a token is cut at.
LEMMA QuoteOps ==
    ASSUME NEW t, Ended(t), NEW i \in 1..Len(t), t[i] = "quote"
    PROVE  /\ i + 1 \in 1..Len(t)
           /\ First(t, i + 1, {"quote"}) \in i + 1..Len(t)
           /\ Closed(t, i) <=> t[First(t, i + 1, {"quote"})] # NUL
           /\ Closed(t, i) => First(t, i + 1, {"quote"}) + 1 \in i + 2..Len(t)
           /\ Quoted(t, i) \in Seq(Symbol)
<1>1. i + 1 \in 1..Len(t)
  BY DEF Ended, NUL
<1> DEFINE k == First(t, i + 1, {"quote"})
<1>2. k \in i + 1..Len(t) /\ t[k] \in {"quote"} \cup {NUL}
  BY <1>1, FirstOps
<1>3. Closed(t, i) <=> t[k] = "quote"
  BY DEF Closed
<1>4. Quoted(t, i) = SubSeq(t, i + 1, k - 1)
  BY DEF Quoted
<1> HIDE DEF k
<1>5. Closed(t, i) <=> t[k] # NUL
  BY <1>2, <1>3 DEF NUL
<1>6. Closed(t, i) => k + 1 \in i + 2..Len(t)
  BY <1>2, <1>5 DEF Ended
<1>7. SubSeq(t, i + 1, k - 1) \in Seq(Symbol)
  <2>1. \A j \in i + 1..k - 1 : t[j] \in Symbol
    BY <1>2, EndedOps
  <2>2. i + 1 \in Int /\ k - 1 \in Int
    BY <1>2
  <2> QED
    BY <2>1, <2>2, SubSeqProperties
<1> QED
  BY <1>1, <1>2, <1>4, <1>5, <1>6, <1>7 DEF k

LEMMA WordOps ==
    ASSUME NEW t, Ended(t), NEW i \in 1..Len(t), Plain(t[i])
    PROVE  /\ First(t, i, Marks \cup Blanks) \in i + 1..Len(t)
           /\ i + Len(Word(t, i)) = First(t, i, Marks \cup Blanks)
           /\ Word(t, i) \in Seq(Symbol)
<1> DEFINE k == First(t, i, Marks \cup Blanks)
<1>1. k \in i..Len(t) /\ t[k] \in (Marks \cup Blanks) \cup {NUL}
  BY FirstOps
<1>2. Word(t, i) = SubSeq(t, i, k - 1)
  BY DEF Word
<1> HIDE DEF k
<1>3. k \in i + 1..Len(t)
  <2>1. k # i
    BY <1>1 DEF Plain
  <2> QED
    BY <1>1, <2>1
<1>4. SubSeq(t, i, k - 1) \in Seq(Symbol) /\ Len(SubSeq(t, i, k - 1)) = k - i
  <2>1. \A j \in i..k - 1 : t[j] \in Symbol
    BY <1>1, EndedOps
  <2>2. i \in Int /\ k - 1 \in Int /\ i <= k - 1
    BY <1>3
  <2>3. /\ SubSeq(t, i, k - 1) \in Seq(Symbol)
        /\ Len(SubSeq(t, i, k - 1)) = IF i <= k - 1 THEN (k - 1) - i + 1 ELSE 0
    BY <2>1, <2>2, SubSeqProperties
  <2> QED
    BY <1>3, <2>2, <2>3
<1>5. i + Len(SubSeq(t, i, k - 1)) = k
  BY <1>3, <1>4
<1> QED
  BY <1>2, <1>3, <1>4, <1>5, Zenon DEF k

LEMMA ReadBehind ==
    ASSUME NEW t, Ended(t), NEW i \in 1..Len(t)
    PROVE  /\ t[i] \in Blanks => i + 1 \in 1..Len(t)
           /\ t[i] = "#" => First(t, i, {"\n"}) \in i + 1..Len(t)
           /\ t[i] \in {"{", "}", ","} => i + 1 \in 1..Len(t)
<1>1. t[i] # NUL => i + 1 \in 1..Len(t)
  BY DEF Ended
<1> QED
  BY <1>1, CommentOps DEF Blanks, NUL

LEMMA OneToken ==
    ASSUME NEW c \in Symbol, NEW s \in Seq(Symbol), NEW r \in Seq(Token)
    PROVE  /\ <<[type |-> c, str |-> s]>> \in Seq(Token)
           /\ <<[type |-> c, str |-> s]>> \o r \in Seq(Token)
<1>1. <<[type |-> c, str |-> s]>> \in Seq(Token)
  BY DEF Token
<1> QED
  BY <1>1, ConcatProperties

LEMMA ReadIn ==
    ASSUME NEW t, Ended(t), NEW i \in 1..Len(t), NEW g \in [1..Len(t) -> Seq(Token)]
    PROVE  Read(t, i, g) \in Seq(Token)
<1>1. /\ "eof" \in Symbol /\ "string" \in Symbol
      /\ <<>> \in Seq(Symbol) /\ <<>> \in Seq(Token)
  BY DEF Symbol
<1>0. ReadIs(t, i, g)
  BY ReadCases
<1>9. Len(t) \in Nat /\ i \in Nat
  BY DEF Ended
<1>2. CASE t[i] = NUL
  <2>1. <<[type |-> "eof", str |-> <<>>]>> \in Seq(Token)
    BY <1>1, OneToken
  <2> QED
    BY <1>0, <1>2, <2>1 DEF ReadIs
<1>3. CASE t[i] \in Blanks
  <2>1. i + 1 \in 1..Len(t)
    BY <1>3, ReadBehind
  <2> QED
    BY <1>0, <1>3, <2>1 DEF ReadIs
<1>4. CASE t[i] = "#"
  <2>1. First(t, i, {"\n"}) \in 1..Len(t)
    <3>1. First(t, i, {"\n"}) \in i + 1..Len(t)
      BY <1>4, ReadBehind
    <3> QED
      BY <1>9, <3>1
  <2> QED
    BY <1>0, <1>4, <2>1 DEF ReadIs
<1>5. CASE t[i] = "quote" /\ Closed(t, i)
  <2> DEFINE k == First(t, i + 1, {"quote"}) + 1
  <2>1. k \in 1..Len(t) /\ Quoted(t, i) \in Seq(Symbol)
    <3>1. k \in i + 2..Len(t) /\ Quoted(t, i) \in Seq(Symbol)
      BY <1>5, QuoteOps
    <3> QED
      BY <1>9, <3>1
  <2>2. Read(t, i, g) = <<[type |-> "string", str |-> Quoted(t, i)]>> \o g[k]
    BY <1>0, <1>5 DEF ReadIs
  <2> HIDE DEF k
  <2> QED
    BY <1>1, <2>1, <2>2, OneToken
<1>6. CASE t[i] = "quote" /\ ~Closed(t, i)
  BY <1>0, <1>1, <1>6 DEF ReadIs
<1>7. CASE t[i] \in {"{", "}", ","}
  <2>1. g[i + 1] \in Seq(Token)
    BY <1>7, ReadBehind
  <2>2. t[i] \in Symbol
    BY EndedOps
  <2>3. Read(t, i, g) = <<[type |-> t[i], str |-> <<>>]>> \o g[i + 1]
    BY <1>0, <1>7 DEF ReadIs
  <2> QED
    BY <1>1, <2>1, <2>2, <2>3, OneToken
<1>8. CASE Plain(t[i])
  <2> DEFINE k == i + Len(Word(t, i))
  <2>1. k \in 1..Len(t) /\ Word(t, i) \in Seq(Symbol)
    <3>1. k \in i + 1..Len(t) /\ Word(t, i) \in Seq(Symbol)
      BY <1>8, WordOps
    <3> QED
      BY <1>9, <3>1
  <2>2. Read(t, i, g) = <<[type |-> "string", str |-> Word(t, i)]>> \o g[k]
    BY <1>0, <1>8 DEF ReadIs
  <2> HIDE DEF k
  <2> QED
    BY <1>1, <2>1, <2>2, OneToken
<1> QED
  BY <1>2, <1>3, <1>4, <1>5, <1>6, <1>7, <1>8, SymbolCases

LEMMA ReadSame ==
    ASSUME NEW t, Ended(t), NEW i \in 1..Len(t), NEW g, NEW h,
           \A j \in 1..Len(t) : i < j => g[j] = h[j]
    PROVE  Read(t, i, g) = Read(t, i, h)
<1>0. ReadIs(t, i, g) /\ ReadIs(t, i, h) /\ Len(t) \in Nat
  BY ReadCases DEF Ended
<1>1. CASE t[i] = NUL
  BY <1>0, <1>1 DEF ReadIs
<1>2. CASE t[i] \in Blanks
  <2>1. g[i + 1] = h[i + 1]
    <3>1. i + 1 \in 1..Len(t)
      BY <1>2, ReadBehind
    <3> QED
      BY <1>0, <3>1
  <2> QED
    BY <1>0, <1>2, <2>1 DEF ReadIs
<1>3. CASE t[i] = "#"
  <2>1. First(t, i, {"\n"}) \in i + 1..Len(t)
    BY <1>3, ReadBehind
  <2>2. g[First(t, i, {"\n"})] = h[First(t, i, {"\n"})]
    BY <1>0, <2>1
  <2> QED
    BY <1>0, <1>3, <2>2 DEF ReadIs
<1>4. CASE t[i] = "quote" /\ Closed(t, i)
  <2> DEFINE k == First(t, i + 1, {"quote"}) + 1
  <2>1. k \in i + 2..Len(t)
    BY <1>4, QuoteOps
  <2>2. g[k] = h[k]
    <3> HIDE DEF k
    <3> QED
      BY <1>0, <2>1
  <2> QED
    BY <1>0, <1>4, <2>2 DEF ReadIs
<1>5. CASE t[i] = "quote" /\ ~Closed(t, i)
  BY <1>0, <1>5 DEF ReadIs
<1>6. CASE t[i] \in {"{", "}", ","}
  <2>1. g[i + 1] = h[i + 1]
    <3>1. i + 1 \in 1..Len(t)
      BY <1>6, ReadBehind
    <3> QED
      BY <1>0, <3>1
  <2> QED
    BY <1>0, <1>6, <2>1 DEF ReadIs
<1>7. CASE Plain(t[i])
  <2> DEFINE k == i + Len(Word(t, i))
  <2>1. k \in i + 1..Len(t)
    BY <1>7, WordOps
  <2>2. g[k] = h[k]
    <3> HIDE DEF k
    <3> QED
      BY <1>0, <2>1
  <2> QED
    BY <1>0, <1>7, <2>2 DEF ReadIs
<1> QED
  BY <1>1, <1>2, <1>3, <1>4, <1>5, <1>6, <1>7, SymbolCases

LEMMA FollowingDefined ==
    ASSUME NEW t, Ended(t)
    PROVE  /\ Following(t) \in [1..Len(t) -> Seq(Token)]
           /\ \A i \in 1..Len(t) : Following(t)[i] = Read(t, i, Following(t))
<1> DEFINE N == Len(t)
           V == Seq(Token)
           step == [i \in 1..N |-> [g \in [1..N -> V] |-> Read(t, i, g)]]
<1>1. N \in Nat /\ <<>> \in V
  BY DEF Ended
<1>2. step \in [1..N -> [[1..N -> V] -> V]]
  BY ReadIn
<1>3. \A i \in 1..N : \A g \in [1..N -> V] : step[i][g] = Read(t, i, g)
  OBVIOUS
<1>4. \A i \in 1..N : \A g, h \in [1..N -> V] :
         (\A j \in 1..N : i < j => g[j] = h[j]) => step[i][g] = step[i][h]
  <2> SUFFICES ASSUME NEW i \in 1..N, NEW g \in [1..N -> V], NEW h \in [1..N -> V],
                      \A j \in 1..N : i < j => g[j] = h[j]
               PROVE  step[i][g] = step[i][h]
    OBVIOUS
  <2>1. Read(t, i, g) = Read(t, i, h)
    BY ReadSame
  <2> HIDE DEF step, N, V
  <2> QED
    BY <1>3, <2>1
<1>5. LooksBehind(N, V, step)
  BY <1>4, Zenon DEF LooksBehind
<1> HIDE DEF step, V
<1>6. PICK g \in [1..N -> V] : Solution(g, N, step)
  BY <1>1, <1>2, <1>5, Solvable
<1>7. \A i \in 1..N : g[i] = Read(t, i, g)
  BY <1>3, <1>6 DEF Solution
<1>8. g = [i \in 1..N |-> Read(t, i, g)]
  BY <1>7
<1>9. FollowIs(Following(t), t)
  BY <1>8, Zenon DEF FollowIs, Following
<1>10. \A i \in 1..N : Following(t)[i] = Read(t, i, Following(t))
  BY <1>9, Zenon DEF FollowIs
<1>11. Following(t) = g
  <2>1. LooksBehind(N, V, step)
    BY <1>5
  <2> DEFINE T == {i \in 1..N : Following(t)[i] = g[i]}
  <2>2. ASSUME NEW i \in 1..N, \A j \in 1..N : i < j => j \in T
        PROVE  i \in T
    <3>1. \A j \in 1..N : i < j => Following(t)[j] = g[j]
      BY <2>2
    <3>2. Read(t, i, Following(t)) = Read(t, i, g)
      BY <3>1, ReadSame
    <3> QED
      BY <1>7, <1>10, <3>2
  <2> HIDE DEF T
  <2>3. \A i \in 1..N : i \in T
    BY <1>1, <2>2, FromBehind
  <2>4. \A i \in 1..N : Following(t)[i] = g[i]
    BY <2>3 DEF T
  <2>5. Following(t) = [i \in 1..N |-> Following(t)[i]]
    BY <1>9, Zenon DEF FollowIs
  <2>6. g = [i \in 1..N |-> g[i]]
    OBVIOUS
  <2>7. [i \in 1..N |-> Following(t)[i]] = [i \in 1..N |-> g[i]]
    BY <2>4
  <2> QED
    BY <2>5, <2>6, <2>7
<1> QED
  BY <1>10, <1>11 DEF N, V

-----------------------------------------------------------------------------
(* Two texts that agree from a place on are read alike from there.         *)

Agree(t, u, p) ==
    /\ Ended(t) /\ Ended(u) /\ Len(t) = Len(u)
    /\ p \in 1..Len(t)
    /\ \A j \in p..Len(t) : t[j] = u[j]

LEMMA AgreeFirst ==
    ASSUME NEW t, NEW u, NEW p, Agree(t, u, p), NEW i \in p..Len(t), NEW S
    PROVE  First(t, i, S) = First(u, i, S)
<1>1. Ended(t) /\ Ended(u) /\ Len(t) \in Nat /\ i \in 1..Len(t) /\ i \in 1..Len(u) /\ Len(u) = Len(t)
  BY DEF Agree, Ended
<1> DEFINE k == First(u, i, S)
<1>2. k \in i..Len(u) /\ u[k] \in S \cup {NUL} /\ \A j \in i..k - 1 : u[j] \notin S \cup {NUL}
  BY <1>1, FirstOps
<1> HIDE DEF k
<1>3. k \in i..Len(t) /\ t[k] = u[k] /\ \A j \in i..k - 1 : t[j] = u[j]
  BY <1>1, <1>2 DEF Agree
<1>4. t[k] \in S \cup {NUL} /\ \A j \in i..k - 1 : t[j] \notin S \cup {NUL}
  BY <1>2, <1>3
<1>5. First(t, i, S) = k
  BY <1>1, <1>3, <1>4, FirstIs
<1> QED
  BY <1>5 DEF k

LEMMA AgreeBskip ==
    ASSUME NEW t, NEW u, NEW p, Agree(t, u, p), NEW i \in p..Len(t)
    PROVE  conf_lex_bskip(t, i) = conf_lex_bskip(u, i)
<1>1. \A j \in i..Len(t) : t[j] = u[j]
  BY DEF Agree, Ended
<1>2. {j \in i..Len(t) : t[j] \notin Blanks} = {j \in i..Len(u) : u[j] \notin Blanks}
  BY <1>1 DEF Agree
<1> QED
  BY <1>2, Zenon DEF conf_lex_bskip

LEMMA AgreeComment ==
    ASSUME NEW t, NEW u, NEW p, Agree(t, u, p), NEW i \in p..Len(t), t[i] = "#"
    PROVE  conf_lex_comment(t, i) = conf_lex_comment(u, i)
<1>1. Ended(t) /\ Len(t) \in Nat /\ i \in 1..Len(t) /\ p \in 1..Len(t)
  BY DEF Agree, Ended
<1>2. i + 1 \in p..Len(t) /\ i + 1 \in 1..Len(t)
  BY <1>1 DEF Ended, NUL
<1> DEFINE k == First(t, i + 1, {"\n"})
<1>3. k = First(u, i + 1, {"\n"})
  BY <1>2, AgreeFirst
<1>4. k \in i + 1..Len(t)
  BY <1>1, <1>2, FirstOps
<1>5. conf_lex_comment(t, i) = conf_lex_bskip(t, k) /\ conf_lex_comment(u, i) = conf_lex_bskip(u, k)
  BY <1>3, Zenon DEF conf_lex_comment
<1> HIDE DEF k
<1>6. k \in p..Len(t)
  BY <1>1, <1>4
<1> QED
  BY <1>5, <1>6, AgreeBskip

LEMMA AgreePast ==
    ASSUME NEW t, NEW u, NEW p, Agree(t, u, p)
    PROVE  \A i \in p..Len(t) : Past(t, i) = Past(u, i)
<1>0. Ended(t) /\ Ended(u) /\ Len(t) \in Nat /\ Len(u) = Len(t) /\ p \in 1..Len(t)
  BY DEF Agree, Ended
<1> DEFINE T == {i \in 1..Len(t) : p <= i => Past(t, i) = Past(u, i)}
<1>1. ASSUME NEW i \in 1..Len(t), \A j \in 1..Len(t) : i < j => j \in T
      PROVE  i \in T
  <2> SUFFICES ASSUME p <= i PROVE Past(t, i) = Past(u, i)
    OBVIOUS
  <2>0. t[i] = u[i] /\ i \in p..Len(t) /\ i \in 1..Len(u)
    BY <1>0 DEF Agree
  <2>1. CASE t[i] # "#"
    <3>1. Past(t, i) = i
      BY <1>0, <2>1, PastOps
    <3>2. Past(u, i) = i
      BY <1>0, <2>0, <2>1, PastOps
    <3> QED
      BY <3>1, <3>2
  <2>2. CASE t[i] = "#"
    <3> DEFINE k == conf_lex_comment(t, i)
    <3>1. k = conf_lex_comment(u, i)
      BY <2>0, <2>2, AgreeComment
    <3>2. k \in i + 1..Len(t)
      BY <1>0, <2>2, CommentOps
    <3>3. Past(t, i) = Past(t, k)
      BY <1>0, <2>2, PastOps
    <3>4. Past(u, i) = Past(u, conf_lex_comment(u, i))
      BY <1>0, <2>0, <2>2, PastOps
    <3>5. Past(u, i) = Past(u, k)
      BY <3>1, <3>4
    <3> HIDE DEF k
    <3>6. k \in 1..Len(t) /\ i < k /\ p <= k
      BY <1>0, <3>2
    <3>7. Past(t, k) = Past(u, k)
      BY <1>1, <3>6
    <3> QED
      BY <3>3, <3>5, <3>7
  <2> QED
    BY <2>1, <2>2
<1> HIDE DEF T
<1>2. \A i \in 1..Len(t) : i \in T
  BY <1>0, <1>1, FromBehind
<1>3. \A i \in p..Len(t) : i \in 1..Len(t) /\ p <= i
  BY <1>0
<1> QED
  BY <1>2, <1>3 DEF T

-----------------------------------------------------------------------------
(* What the lexer passes over says nothing.                                *)

LEMMA BskipFollows ==
    ASSUME NEW t, Ended(t)
    PROVE  \A i \in 1..Len(t) : Following(t)[i] = Following(t)[conf_lex_bskip(t, i)]
<1>0. Len(t) \in Nat
  BY DEF Ended
<1> DEFINE T == {i \in 1..Len(t) : Following(t)[i] = Following(t)[conf_lex_bskip(t, i)]}
<1>1. ASSUME NEW i \in 1..Len(t), \A j \in 1..Len(t) : i < j => j \in T
      PROVE  i \in T
  <2>1. CASE t[i] \notin Blanks
    <3>1. conf_lex_bskip(t, i) = i
      BY <2>1, BskipOps
    <3> QED
      BY <3>1
  <2>2. CASE t[i] \in Blanks
    <3>1. i + 1 \in 1..Len(t) /\ conf_lex_bskip(t, i) = conf_lex_bskip(t, i + 1)
      BY <2>2, BskipOps
    <3>2. Following(t)[i] = Read(t, i, Following(t))
      BY FollowingDefined
    <3>3. Read(t, i, Following(t)) = Following(t)[i + 1]
      BY <2>2, ReadCases DEF ReadIs
    <3>4. i + 1 \in T
      BY <1>1, <3>1
    <3>5. Following(t)[i + 1] = Following(t)[conf_lex_bskip(t, i + 1)]
      BY <3>4
    <3> QED
      BY <3>1, <3>2, <3>3, <3>5
  <2> QED
    BY <2>1, <2>2
<1> HIDE DEF T
<1>2. \A i \in 1..Len(t) : i \in T
  BY <1>0, <1>1, FromBehind
<1> QED
  BY <1>2 DEF T

LEMMA PastFollows ==
    ASSUME NEW t, Ended(t)
    PROVE  \A i \in 1..Len(t) : Following(t)[i] = Following(t)[Past(t, i)]
<1>0. Len(t) \in Nat
  BY DEF Ended
<1> DEFINE T == {i \in 1..Len(t) : Following(t)[i] = Following(t)[Past(t, i)]}
<1>1. ASSUME NEW i \in 1..Len(t), \A j \in 1..Len(t) : i < j => j \in T
      PROVE  i \in T
  <2>1. CASE t[i] # "#"
    <3>1. Past(t, i) = i
      BY <2>1, PastOps
    <3> QED
      BY <3>1
  <2>2. CASE t[i] = "#"
    <3> DEFINE k == conf_lex_comment(t, i)
               m == First(t, i, {"\n"})
    <3>1. k \in i + 1..Len(t) /\ m \in i + 1..Len(t) /\ k = conf_lex_bskip(t, m)
      BY <2>2, CommentOps
    <3>2. Past(t, i) = Past(t, k)
      BY <2>2, PastOps
    <3>3. Following(t)[i] = Read(t, i, Following(t))
      BY FollowingDefined
    <3>4. Read(t, i, Following(t)) = Following(t)[m]
      BY <2>2, ReadCases DEF ReadIs
    <3> HIDE DEF k, m
    <3>5. m \in 1..Len(t) /\ k \in 1..Len(t) /\ i < k
      BY <1>0, <3>1
    <3>6. Following(t)[m] = Following(t)[k]
      BY <3>1, <3>5, BskipFollows
    <3>7. k \in T
      BY <1>1, <3>5
    <3>8. Following(t)[k] = Following(t)[Past(t, k)]
      BY <3>7
    <3> QED
      BY <3>2, <3>3, <3>4, <3>6, <3>8
  <2> QED
    BY <2>1, <2>2
<1> HIDE DEF T
<1>2. \A i \in 1..Len(t) : i \in T
  BY <1>0, <1>1, FromBehind
<1> QED
  BY <1>2 DEF T

-----------------------------------------------------------------------------
(* The lexer.                                                              *)

Whole  == Append(file, NUL)
Coming == IF lex = "eof" THEN <<>> ELSE Following(Whole)[off]
Held   == IF store = <<>> THEN <<>> ELSE <<[type |-> Tok.type, str |-> Str]>>

\* Whatever the lexer cut, from where it looks next on the text, once it is put
\* back, is that of the file.
Sound ==
    /\ file \in Texts
    /\ lex \in {"start", "mark", "string", "eof"}
    /\ lex = "start" => off = 1
    /\ lex # "eof" => Agree(Restored, Whole, off)

LEMMA SubSeqSame ==
    ASSUME NEW S, NEW s, NEW t, NEW m \in Int, NEW n \in Int,
           \A i \in m..n : s[i] = t[i] /\ t[i] \in S
    PROVE  SubSeq(s, m, n) = SubSeq(t, m, n)
<1>0. (\A i \in m..n : t[i] \in S) /\ \A i \in m..n : s[i] \in S
  OBVIOUS
<1>1. /\ SubSeq(t, m, n) \in Seq(S)
      /\ Len(SubSeq(t, m, n)) = IF m <= n THEN n - m + 1 ELSE 0
      /\ \A i \in 1..n - m + 1 : SubSeq(t, m, n)[i] = t[m + i - 1]
  BY <1>0, SubSeqProperties
<1>2. /\ SubSeq(s, m, n) \in Seq(S)
      /\ Len(SubSeq(s, m, n)) = IF m <= n THEN n - m + 1 ELSE 0
      /\ \A i \in 1..n - m + 1 : SubSeq(s, m, n)[i] = s[m + i - 1]
  BY <1>0, SubSeqProperties
<1> DEFINE u == SubSeq(s, m, n)
           v == SubSeq(t, m, n)
<1> HIDE DEF u, v
<1>3. u \in Seq(S) /\ v \in Seq(S) /\ Len(u) = Len(v)
  BY <1>1, <1>2 DEF u, v
<1>4. \A i \in 1..Len(u) : u[i] = v[i]
  <2> SUFFICES ASSUME NEW i \in 1..Len(u) PROVE u[i] = v[i]
    OBVIOUS
  <2>1. i \in 1..n - m + 1
    BY <1>2 DEF u
  <2>2. u[i] = s[m + i - 1] /\ v[i] = t[m + i - 1]
    BY <1>1, <1>2, <2>1 DEF u, v
  <2>3. m + i - 1 \in m..n
    BY <2>1
  <2> QED
    BY <2>2, <2>3
<1>5. u = v
  BY <1>3, <1>4, SeqEqual
<1> QED
  BY <1>5 DEF u, v

LEMMA AgreeLater ==
    ASSUME NEW t, NEW u, NEW p, Agree(t, u, p), NEW k \in p..Len(t)
    PROVE  Agree(t, u, k)
BY DEF Agree, Ended

LEMMA LooksHere ==
    ASSUME Sound, lex # "eof"
    PROVE  /\ Agree(Restored, Whole, Here) /\ Here \in 1..Len(Whole)
           /\ Seen = Whole[Here] /\ Seen # "#"
           /\ Coming = Read(Whole, Here, Following(Whole))
<1> DEFINE R == Restored
           W == Whole
           o == IF lex = "start" THEN off ELSE conf_lex_bskip(R, off)
<1>1. Agree(R, W, off)
  BY DEF Sound
<1>2. Ended(R) /\ Ended(W) /\ Len(W) = Len(R) /\ Len(R) \in Nat /\ off \in 1..Len(R)
  BY <1>1 DEF Agree, Ended
<1>3. o \in off..Len(R) /\ Following(W)[off] = Following(W)[o]
  <2>1. CASE lex = "start"
    BY <1>2, <2>1
  <2>2. CASE lex # "start"
    <3>1. o = conf_lex_bskip(R, off)
      BY <2>2
    <3>2. off \in off..Len(R)
      BY <1>2
    <3> HIDE DEF o, R, W
    <3>3. conf_lex_bskip(R, off) \in off..Len(R)
      BY <1>2, BskipOps
    <3>4. conf_lex_bskip(R, off) = conf_lex_bskip(W, off)
      BY <1>1, <3>2, AgreeBskip
    <3>5. Following(W)[off] = Following(W)[conf_lex_bskip(W, off)]
      BY <1>2, BskipFollows
    <3> QED
      BY <3>1, <3>3, <3>4, <3>5
  <2> QED
    BY <2>1, <2>2
<1>4. Here = Past(R, o) /\ Seen = R[Here]
  BY Zenon DEF Here, Seen
<1>5. Coming = Following(W)[off]
  BY DEF Coming
<1> HIDE DEF R, W, o
<1>6. o \in 1..Len(R)
  BY <1>2, <1>3
<1>7. Past(R, o) \in o..Len(R) /\ R[Past(R, o)] # "#"
  BY <1>2, <1>6, PastEnds
<1>8. Past(R, o) = Past(W, o)
  BY <1>1, <1>3, AgreePast
<1>9. Following(W)[o] = Following(W)[Past(W, o)]
  BY <1>2, <1>6, PastFollows
<1>10. Here \in off..Len(R) /\ Here \in 1..Len(W)
  BY <1>2, <1>3, <1>4, <1>7
<1>11. Agree(R, W, Here)
  BY <1>1, <1>10, AgreeLater
<1>12. R[Here] = W[Here]
  BY <1>1, <1>10 DEF Agree
<1>13. Following(W)[Here] = Read(W, Here, Following(W))
  BY <1>2, <1>10, FollowingDefined
<1> QED
  BY <1>3, <1>4, <1>5, <1>7, <1>8, <1>9, <1>10, <1>11, <1>12, <1>13 DEF R, W

\* What a step of the lexer owes: the token it hands out is the next of the
\* file, and it goes on behind it.
Lexed == Sound' /\ Held' \in Seq(Token) /\ Coming = Held' \o Coming'

LEMMA HeldMark ==
    ASSUME NEW c, NEW d, c # "string", store' = <<[type |-> c, data |-> d]>>
    PROVE  Held' = <<[type |-> c, str |-> <<>>]>>
BY DEF Held, Str, IsString, Tok

LEMMA HeldString ==
    ASSUME NEW d, NEW e, store' = <<[type |-> "string", data |-> d]>>, First(text', d, {}) = e
    PROVE  Held' = <<[type |-> "string", str |-> SubSeq(text', d, e - 1)]>>
BY DEF Held, Str, IsString, Tok

LEMMA LexedMark ==
    ASSUME Sound, lex # "eof", file' = file, conf_lex_yield0
    PROVE  Lexed
<1>1. /\ Agree(Restored, Whole, Here) /\ Here \in 1..Len(Whole)
      /\ Seen = Whole[Here]
      /\ Coming = Read(Whole, Here, Following(Whole))
  BY LooksHere
<1>2. Ended(Whole) /\ Len(Whole) \in Nat /\ Whole' = Whole
  BY <1>1 DEF Agree, Ended, Whole
<1>3. /\ Seen \in {"{", "}", ","}
      /\ store' = <<[type |-> Seen, data |-> 0]>> /\ text' = Restored /\ off' = Here + 1 /\ lex' = "mark"
  BY DEF conf_lex_yield0, conf_lex_yield
<1>4. Held' = <<[type |-> Seen, str |-> <<>>]>>
  <2>1. Seen # "string"
    BY <1>3
  <2> QED
    BY <1>3, <2>1, HeldMark
<1>5. Here + 1 \in 1..Len(Whole)
  BY <1>1, <1>2, <1>3, ReadBehind
<1>6. Agree(Restored, Whole, Here + 1)
  <2>1. Here + 1 \in Here..Len(Restored)
    BY <1>1, <1>2, <1>5 DEF Agree
  <2> QED
    BY <1>1, <2>1, AgreeLater
<1>7. Restored' = text'
  BY <1>3 DEF Restored
<1>8. Sound'
  BY <1>2, <1>3, <1>6, <1>7 DEF Sound
<1>9. Coming' = Following(Whole)[Here + 1]
  BY <1>2, <1>3 DEF Coming
<1>10. Coming = <<[type |-> Seen, str |-> <<>>]>> \o Following(Whole)[Here + 1]
  <2>1. ReadIs(Whole, Here, Following(Whole))
    BY ReadCases
  <2> QED
    BY <1>1, <1>3, <2>1 DEF ReadIs
<1>11. Held' \in Seq(Token)
  <2>1. Seen \in Symbol /\ <<>> \in Seq(Symbol)
    BY <1>1, <1>2, EndedOps
  <2>2. [type |-> Seen, str |-> <<>>] \in Token
    BY <2>1 DEF Token
  <2> QED
    BY <1>4, <2>2
<1> QED
  BY <1>4, <1>8, <1>9, <1>10, <1>11 DEF Lexed

LEMMA LexedEof ==
    ASSUME Sound, lex # "eof", file' = file, conf_lex_eof
    PROVE  Lexed
<1>1. /\ Here \in 1..Len(Whole) /\ Seen = Whole[Here]
      /\ Coming = Read(Whole, Here, Following(Whole))
  BY LooksHere
<1>2. Seen = NUL /\ store' = <<[type |-> "eof", data |-> 0]>> /\ lex' = "eof"
  BY DEF conf_lex_eof, conf_lex_yield
<1>3. Held' = <<[type |-> "eof", str |-> <<>>]>>
  BY <1>2, HeldMark
<1>4. Coming' = <<>>
  BY <1>2 DEF Coming
<1>5. Coming = <<[type |-> "eof", str |-> <<>>]>>
  <2>1. ReadIs(Whole, Here, Following(Whole))
    BY ReadCases
  <2> QED
    BY <1>1, <1>2, <2>1 DEF ReadIs
<1>6. Held' \in Seq(Token)
  <2>1. "eof" \in Symbol /\ <<>> \in Seq(Symbol)
    BY DEF Symbol
  <2>2. [type |-> "eof", str |-> <<>>] \in Token
    BY <2>1 DEF Token
  <2> QED
    BY <1>3, <2>2
<1>7. Held' \o <<>> = Held'
  BY <1>6, ConcatEmptySeq
<1>8. Sound'
  BY <1>2 DEF Sound
<1> QED
  BY <1>3, <1>4, <1>5, <1>6, <1>7, <1>8 DEF Lexed

\* The text of a token that was cut out.
LEMMA CutOps ==
    ASSUME NEW t, NEW u, NEW p, Agree(t, u, p), NEW b \in p..Len(t), NEW e \in b..Len(t),
           \A j \in b..e - 1 : t[j] # NUL
    PROVE  LET c == [t EXCEPT ![e] = NUL]
           IN  /\ First(c, b, {}) = e
               /\ SubSeq(c, b, e - 1) = SubSeq(u, b, e - 1)
               /\ Ended(c) /\ Len(c) = Len(t) /\ \A j \in 1..Len(t) : j # e => c[j] = t[j]
<1> DEFINE c == [t EXCEPT ![e] = NUL]
<1>0. Ended(t) /\ Len(t) \in Nat /\ p \in 1..Len(t) /\ NUL \in Symbol /\ t \in Seq(Symbol)
  BY DEF Agree, Ended, Symbol
<1>1. e \in 1..Len(t)
  BY <1>0
<1>2. /\ c \in Seq(Symbol) /\ Len(c) = Len(t)
      /\ \A j \in 1..Len(t) : c[j] = IF j = e THEN NUL ELSE t[j]
  BY <1>0, <1>1, ExceptSeq
<1> HIDE DEF c
<1>3. Ended(c)
  BY <1>0, <1>1, <1>2 DEF Ended
<1>4. First(c, b, {}) = e
  <2>1. b \in 1..Len(c) /\ e \in b..Len(c)
    BY <1>0, <1>2
  <2>2. \A j \in b..e - 1 : j \in 1..Len(t) /\ j # e
    BY <1>0
  <2>3. c[e] \in {} \cup {NUL} /\ \A j \in b..e - 1 : c[j] \notin {} \cup {NUL}
    BY <1>1, <1>2, <2>2
  <2> QED
    BY <1>3, <2>1, <2>3, FirstIs
<1>5. SubSeq(c, b, e - 1) = SubSeq(u, b, e - 1)
  <2>1. \A j \in b..e - 1 : j \in 1..Len(t) /\ j # e /\ j \in p..Len(t)
    BY <1>0
  <2>2. \A j \in b..e - 1 : c[j] = u[j] /\ u[j] \in Symbol
    <3>1. \A j \in b..e - 1 : c[j] = t[j]
      BY <1>2, <2>1
    <3>2. \A j \in b..e - 1 : t[j] = u[j]
      BY <2>1 DEF Agree
    <3>3. \A j \in b..e - 1 : t[j] \in Symbol
      BY <1>0, <2>1, EndedOps
    <3> QED
      BY <3>1, <3>2, <3>3
  <2>3. b \in Int /\ e - 1 \in Int
    BY <1>0
  <2> QED
    BY <2>2, <2>3, SubSeqSame
<1>6. \A j \in 1..Len(t) : j # e => c[j] = t[j]
  BY <1>2
<1> QED
  BY <1>2, <1>3, <1>4, <1>5, <1>6 DEF c

LEMMA LexedWord ==
    ASSUME Sound, lex # "eof", file' = file, conf_lex_string
    PROVE  Lexed
<1> DEFINE R == Restored
           W == Whole
           h == Here
           e == First(R, h, Marks \cup Blanks)
           c == [R EXCEPT ![e] = NUL]
<1>1. /\ Agree(R, W, h) /\ h \in 1..Len(W) /\ Seen = W[h] /\ Seen = R[h]
      /\ Coming = Read(W, h, Following(W))
  BY LooksHere DEF Seen
<1>2. Ended(R) /\ Ended(W) /\ Len(W) \in Nat /\ Len(R) = Len(W) /\ W' = W
  BY <1>1 DEF Agree, Ended, Whole
<1>3. /\ Plain(Seen) /\ save' = R[e]
      /\ store' = <<[type |-> "string", data |-> h]>> /\ text' = c /\ off' = e /\ lex' = "string"
  BY DEF conf_lex_string, conf_lex_yield, Plain
<1>4. Restored' = [c EXCEPT ![e] = R[e]]
  <2>1. Restored' = IF lex' = "string" THEN [text' EXCEPT ![off'] = save'] ELSE text'
    BY DEF Restored
  <2> HIDE DEF R, e, c
  <2> QED
    BY <1>3, <2>1
<1>5. Coming' = Following(W)[e]
  <2>1. Coming' = IF lex' = "eof" THEN <<>> ELSE Following(W')[off']
    BY DEF Coming
  <2> HIDE DEF R, e, c
  <2> QED
    BY <1>2, <1>3, <2>1
<1>6. Word(W, h) = SubSeq(W, h, First(W, h, Marks \cup Blanks) - 1)
  BY Zenon DEF Word
<1> HIDE DEF R, W, h, c, e
<1>7. e = First(W, h, Marks \cup Blanks)
  <2>1. h \in h..Len(R)
    BY <1>1, <1>2
  <2> QED
    BY <1>1, <2>1, AgreeFirst DEF e
<1>8. /\ e \in h + 1..Len(W) /\ h + Len(Word(W, h)) = e /\ Word(W, h) \in Seq(Symbol)
  BY <1>1, <1>2, <1>3, <1>7, WordOps
<1>9. \A j \in h..e - 1 : R[j] # NUL
  <2>1. h \in 1..Len(R)
    BY <1>1, <1>2
  <2>2. \A j \in h..e - 1 : R[j] \notin (Marks \cup Blanks) \cup {NUL}
    BY <1>2, <2>1, FirstOps DEF e
  <2> QED
    BY <2>2
<1>10. /\ First(c, h, {}) = e
       /\ SubSeq(c, h, e - 1) = SubSeq(W, h, e - 1)
       /\ Ended(c) /\ Len(c) = Len(R) /\ \A j \in 1..Len(R) : j # e => c[j] = R[j]
  <2>1. h \in h..Len(R) /\ e \in h..Len(R)
    BY <1>1, <1>2, <1>8
  <2> QED
    BY <1>1, <1>9, <2>1, CutOps DEF c
<1>11. Held' = <<[type |-> "string", str |-> Word(W, h)]>>
  <2>1. First(text', h, {}) = e
    BY <1>3, <1>10
  <2>2. Held' = <<[type |-> "string", str |-> SubSeq(text', h, e - 1)]>>
    BY <1>3, <2>1, HeldString
  <2> QED
    BY <1>3, <1>6, <1>7, <1>10, <2>2
<1>12. Coming = <<[type |-> "string", str |-> Word(W, h)]>> \o Following(W)[e]
  <2>1. ReadIs(W, h, Following(W))
    BY ReadCases
  <2> QED
    BY <1>1, <1>3, <1>8, <2>1 DEF ReadIs
<1>13. [c EXCEPT ![e] = R[e]] = R
  <2>1. e \in 1..Len(R)
    BY <1>1, <1>2, <1>8
  <2>2. R \in Seq(Symbol) /\ c \in Seq(Symbol) /\ R[e] \in Symbol
    BY <1>2, <1>10, <2>1, EndedOps DEF Ended
  <2> DEFINE d == [c EXCEPT ![e] = R[e]]
  <2>3. /\ d \in Seq(Symbol) /\ Len(d) = Len(c)
        /\ \A j \in 1..Len(c) : d[j] = IF j = e THEN R[e] ELSE c[j]
    BY <1>10, <2>1, <2>2, ExceptSeq
  <2> HIDE DEF d
  <2>4. \A j \in 1..Len(R) : R[j] = d[j]
    BY <1>10, <2>3
  <2>5. R = d
    BY <1>10, <2>2, <2>3, <2>4, SeqEqual
  <2> QED
    BY <2>5 DEF d
<1>14. Agree(R, W, e)
  <2>1. e \in h..Len(R)
    BY <1>1, <1>2, <1>8
  <2> QED
    BY <1>1, <2>1, AgreeLater
<1>15. Sound'
  <2>1. Agree(Restored', W', off')
    BY <1>2, <1>3, <1>4, <1>13, <1>14
  <2>2. Agree(Restored, Whole, off)'
    BY <2>1 DEF W
  <2> QED
    BY <1>3, <2>2 DEF Sound
<1>16. Held' \in Seq(Token)
  <2>1. "string" \in Symbol
    BY DEF Symbol
  <2>2. [type |-> "string", str |-> Word(W, h)] \in Token
    BY <1>8, <2>1 DEF Token
  <2> QED
    BY <1>11, <2>2
<1> QED
  BY <1>5, <1>11, <1>12, <1>15, <1>16 DEF Lexed

LEMMA LexedQuoted ==
    ASSUME Sound, lex # "eof", file' = file, store = <<>>, conf_lex_qstring
    PROVE  Lexed
<1> DEFINE R == Restored
           W == Whole
           h == Here
           e == First(R, h + 1, {"quote"})
           c == [R EXCEPT ![e] = NUL]
<1>1. /\ Agree(R, W, h) /\ h \in 1..Len(W) /\ Seen = W[h] /\ Seen = R[h]
      /\ Coming = Read(W, h, Following(W))
  BY LooksHere DEF Seen
<1>2. Ended(R) /\ Ended(W) /\ Len(W) \in Nat /\ Len(R) = Len(W) /\ W' = W
  BY <1>1 DEF Agree, Ended, Whole
<1>3. /\ Seen = "quote" /\ save' = save
      /\ R[e] = NUL => UNCHANGED <<text, off, lex, store>>
      /\ R[e] # NUL => /\ store' = <<[type |-> "string", data |-> h + 1]>>
                       /\ text' = c /\ off' = e + 1 /\ lex' = "mark"
  BY DEF conf_lex_qstring, conf_lex_yield
<1>4. Quoted(W, h) = SubSeq(W, h + 1, First(W, h + 1, {"quote"}) - 1)
  BY Zenon DEF Quoted
<1>5. ReadIs(W, h, Following(W))
  BY ReadCases
<1>6. h + 1 \in 1..Len(W) /\ h + 1 \in h..Len(R)
  <2> HIDE DEF R, W, h, e
  <2>1. h + 1 \in 1..Len(W)
    BY <1>1, <1>2, <1>3, QuoteOps
  <2> QED
    BY <1>1, <1>2, <2>1
<1>7. e = First(W, h + 1, {"quote"})
  BY <1>1, <1>6, AgreeFirst
<1>8. /\ e \in h + 1..Len(W)
      /\ Closed(W, h) <=> W[e] # NUL
      /\ Closed(W, h) => e + 1 \in h + 2..Len(W)
      /\ Quoted(W, h) \in Seq(Symbol)
  <2> HIDE DEF R, W, h, e
  <2> QED
    BY <1>1, <1>2, <1>3, <1>7, QuoteOps
<1>9. W[e] = R[e]
  <2> HIDE DEF R, W, h, e
  <2>1. e \in h..Len(R)
    BY <1>1, <1>2, <1>8
  <2> QED
    BY <1>1, <2>1 DEF Agree
<1>10. CASE R[e] = NUL
  <2>1. /\ UNCHANGED <<file, text, off, lex, save, store>> /\ ~Closed(W, h)
    BY <1>3, <1>8, <1>9, <1>10
  <2>2. Coming = <<>>
    BY <1>1, <1>3, <1>5, <2>1 DEF ReadIs
  <2>3. Sound'
    BY <2>1 DEF Sound, Restored, Whole
  <2>4. Held' = <<>> /\ Coming' = <<>>
    BY <2>1, <2>2 DEF Held, Coming, Whole
  <2> QED
    BY <2>2, <2>3, <2>4 DEF Lexed
<1>11. CASE R[e] # NUL
  <2>0. Closed(W, h)
    BY <1>8, <1>9, <1>11
  <2>1. /\ store' = <<[type |-> "string", data |-> h + 1]>>
        /\ text' = c /\ off' = e + 1 /\ lex' = "mark"
    BY <1>3, <1>11
  <2>2. Restored' = c
    BY <2>1 DEF Restored
  <2>3. Coming' = Following(W)[e + 1]
    <3>1. Coming' = IF lex' = "eof" THEN <<>> ELSE Following(W')[off']
      BY DEF Coming
    <3> HIDE DEF R, e, c, W
    <3> QED
      BY <1>2, <2>1, <3>1
  <2>4. Coming = <<[type |-> "string", str |-> Quoted(W, h)]>> \o Following(W)[e + 1]
    BY <1>1, <1>3, <1>5, <1>7, <2>0 DEF ReadIs
  <2> HIDE DEF R, W, h, c, e
  <2>5. \A j \in h + 1..e - 1 : R[j] # NUL
    <3>1. h + 1 \in 1..Len(R)
      BY <1>2, <1>6
    <3>2. \A j \in h + 1..e - 1 : R[j] \notin {"quote"} \cup {NUL}
      BY <1>2, <3>1, FirstOps DEF e
    <3> QED
      BY <3>2
  <2>6. /\ First(c, h + 1, {}) = e
        /\ SubSeq(c, h + 1, e - 1) = SubSeq(W, h + 1, e - 1)
        /\ Ended(c) /\ Len(c) = Len(R) /\ \A j \in 1..Len(R) : j # e => c[j] = R[j]
    <3>1. e \in h + 1..Len(R)
      BY <1>2, <1>8
    <3> QED
      BY <1>1, <1>6, <2>5, <3>1, CutOps DEF c
  <2>7. Held' = <<[type |-> "string", str |-> Quoted(W, h)]>>
    <3>1. First(text', h + 1, {}) = e
      BY <2>1, <2>6
    <3>2. Held' = <<[type |-> "string", str |-> SubSeq(text', h + 1, e - 1)]>>
      BY <2>1, <3>1, HeldString
    <3> QED
      BY <1>4, <1>7, <2>1, <2>6, <3>2
  <2>8. Agree(c, W, e + 1)
    <3>1. e + 1 \in 1..Len(R) /\ \A j \in e + 1..Len(R) : j \in 1..Len(R) /\ j # e /\ j \in h..Len(R)
      BY <1>1, <1>2, <1>8, <2>0
    <3>2. \A j \in e + 1..Len(R) : c[j] = W[j]
      BY <1>1, <2>6, <3>1 DEF Agree
    <3> QED
      BY <1>2, <2>6, <3>1, <3>2 DEF Agree
  <2>9. Sound'
    <3>1. Agree(Restored', W', off')
      BY <1>2, <2>1, <2>2, <2>8
    <3>2. Agree(Restored, Whole, off)'
      BY <3>1 DEF W
    <3> QED
      BY <2>1, <3>2 DEF Sound
  <2>10. Held' \in Seq(Token)
    <3>1. "string" \in Symbol
      BY DEF Symbol
    <3>2. [type |-> "string", str |-> Quoted(W, h)] \in Token
      BY <1>8, <3>1 DEF Token
    <3> QED
      BY <2>7, <3>2
  <2> QED
    BY <2>3, <2>4, <2>7, <2>9, <2>10 DEF Lexed
<1> QED
  BY <1>10, <1>11

LEMMA ComingIn ==
    ASSUME Sound
    PROVE  Coming \in Seq(Token)
<1>1. CASE lex = "eof"
  BY <1>1 DEF Coming
<1>2. CASE lex # "eof"
  <2>1. Ended(Whole) /\ off \in 1..Len(Whole)
    BY <1>2 DEF Sound, Agree
  <2>2. Following(Whole)[off] \in Seq(Token)
    BY <2>1, FollowingDefined
  <2> QED
    BY <1>2, <2>2 DEF Coming
<1> QED
  BY <1>1, <1>2

LEMMA LexedBlank ==
    ASSUME Sound, lex # "eof", store = <<>>, UNCHANGED <<file, text, off, lex, save, store>>
    PROVE  Lexed
<1>1. Sound'
  BY DEF Sound, Restored, Whole
<1>2. Held' = <<>> /\ Coming' = Coming
  BY DEF Held, Coming, Whole
<1>3. Coming = <<>> \o Coming
  BY ComingIn, ConcatEmptySeq
<1> QED
  BY <1>1, <1>2, <1>3 DEF Lexed

-----------------------------------------------------------------------------
(* The parser.                                                             *)

\* A configuration, what was registered: records with these fields.
IsConf(c) == c = [log |-> c.log, rules |-> c.rules, servers |-> c.servers,
                  plugins |-> c.plugins, hooks |-> c.hooks, tpt |-> c.tpt]

\* What every step of the parser keeps to.
Parsed ==
    /\ at = "parser" /\ at' \in {"parser", "failed"}
    /\ UNCHANGED <<lexer, result>>
    /\ store # <<>> /\ (Take \/ Queue)
    /\ IsConf(conf) => IsConf(conf')

LEMMA KeepsConf ==
    ASSUME NEW c, NEW v, IsConf(c)
    PROVE  /\ IsConf([c EXCEPT !.log = v]) /\ IsConf([c EXCEPT !.rules = v])
           /\ IsConf([c EXCEPT !.servers = v]) /\ IsConf([c EXCEPT !.plugins = v])
           /\ IsConf([c EXCEPT !.hooks = v]) /\ IsConf([c EXCEPT !.tpt = v])
BY DEF IsConf

LEMMA ParsedLog ==
    ASSUME conf_parse_log PROVE Parsed
BY DEF conf_parse_log, conf_string_is, conf_string, conf_keyword, conf_next_is, conf_next,
       Go, Set, Fatal, Pulls, Parsed, IsConf

LEMMA ParsedTransport ==
    ASSUME conf_parse_transport PROVE Parsed
BY DEF conf_parse_transport, conf_string_is, conf_string, conf_keyword, conf_next_is, conf_next,
       Go, Set, Fatal, Pulls, Parsed, IsConf

LEMMA ParsedHook ==
    ASSUME conf_parse_hook PROVE Parsed
BY DEF conf_parse_hook, conf_string, conf_keyword, conf_next_is, conf_string_is, conf_next,
       Go, Set, Put, Fatal, Pulls, Parsed, IsConf

LEMMA ParsedIdent ==
    ASSUME conf_parse_server_hostname \/ conf_parse_server_prefix \/ conf_parse_server_password
           \/ conf_parse_server_ident
    PROVE  Parsed
BY DEF conf_parse_server_hostname, conf_parse_server_prefix, conf_parse_server_password,
       conf_parse_server_ident, Setting, conf_string, conf_next, Go, Put, Fatal, Pulls, Parsed

LEMMA ParsedPort ==
    ASSUME conf_parse_server_port PROVE Parsed
BY DEF conf_parse_server_port, conf_string, conf_next, Go, Put, Fatal, Pulls, Parsed

LEMMA ParsedJoin ==
    ASSUME conf_parse_server_join PROVE Parsed
BY DEF conf_parse_server_join, conf_string_is, conf_string, conf_keyword, conf_next_is, conf_next,
       Go, Put, Fatal, Pulls, Parsed

LEMMA ParsedCtcp ==
    ASSUME conf_parse_server_ctcp PROVE Parsed
BY DEF conf_parse_server_ctcp, conf_begin, conf_end, conf_string, conf_next_is, conf_next,
       Go, Put, Fatal, Pulls, Parsed

LEMMA ParsedOptions ==
    ASSUME conf_parse_server_options PROVE Parsed
BY DEF conf_parse_server_options, conf_next, Go, Put, Fatal, Pulls, Parsed

LEMMA ParsedDirective ==
    ASSUME conf_parse_server_directive PROVE Parsed
BY DEF conf_parse_server_directive, conf_parse_server_ssl, conf_next_is, Go, Put, Fatal, Pulls, Parsed

LEMMA ParsedServer ==
    ASSUME conf_parse_server PROVE Parsed
<1>1. CASE conf_string(<<"server">>,
               IF Named(conf.servers, Str) THEN Fatal ELSE Put(<<"server", "begin">>, Section(Str)))
  BY <1>1 DEF conf_string, conf_next, Go, Put, Fatal, Pulls, Parsed
<1>2. CASE conf_begin(<<"server", "begin">>, Go(Directive))
  BY <1>2 DEF conf_begin, conf_next, Go, Fatal, Pulls, Parsed
<1>3. CASE conf_end(<<"server", "end">>,
               IF Required \subseteq {cur.items[i][1] : i \in DOMAIN cur.items}
               THEN Set(Topic, [conf EXCEPT !.servers = Append(@, cur)]) ELSE Fatal)
  BY <1>3 DEF conf_end, conf_next, Go, Set, Fatal, Pulls, Parsed, IsConf
<1> QED
  BY <1>1, <1>2, <1>3, ParsedIdent, ParsedPort, ParsedJoin, ParsedCtcp, ParsedOptions, ParsedDirective
     DEF conf_parse_server

LEMMA ParsedRule ==
    ASSUME conf_parse_rule PROVE Parsed
<1>1. ASSUME conf_parse_rule_criteria PROVE Parsed
  BY <1>1 DEF conf_parse_rule_criteria, conf_begin, conf_end, conf_next_is, conf_next,
              Go, Put, Fatal, Pulls, Parsed
<1>2. ASSUME conf_parse_rule, ~conf_parse_rule_criteria PROVE Parsed
  BY <1>2 DEF conf_parse_rule, EndRule, conf_string_is, conf_begin_is, conf_next_is, conf_next,
              Go, Set, Put, Fatal, Pulls, Parsed, IsConf
<1> QED
  BY <1>1, <1>2

LEMMA ParsedPlugin ==
    ASSUME conf_parse_plugin PROVE Parsed
<1>1. ASSUME conf_parse_plugin_options PROVE Parsed
  BY <1>1 DEF conf_parse_plugin_options, conf_begin, conf_end, conf_string, conf_next_is, conf_next,
              Go, Put, Fatal, Pulls, Parsed
<1>2. ASSUME conf_parse_plugin, ~conf_parse_plugin_options PROVE Parsed
  BY <1>2 DEF conf_parse_plugin, EndPlugin, Search, conf_string, conf_string_is, conf_begin_is,
              conf_end, conf_next_is, conf_next, Go, Set, Put, Fatal, Pulls, Parsed, IsConf
<1> QED
  BY <1>1, <1>2

LEMMA ParserKeeps ==
    ASSUME conf_parser_entry PROVE Parsed
<1>1. ASSUME conf_parser_topic PROVE Parsed
  BY <1>1 DEF conf_parser_topic, conf_string, conf_next, Go, Fatal, Pulls, Parsed
<1> QED
  BY <1>1, ParsedLog, ParsedTransport, ParsedHook, ParsedServer, ParsedRule, ParsedPlugin
     DEF conf_parser_entry

-----------------------------------------------------------------------------
(* No token is lost, read twice, cut or run into the next.                 *)

\* The tokens of the file are those the parser took, the one it was handed, and
\* those the lexer still comes to.
Counted ==
    /\ Sound
    /\ at = "lex" => store = <<>>
    /\ pulled \in Seq(Token) /\ Held \in Seq(Token)
    /\ Tokens(file) = pulled \o (Held \o Coming)

LEMMA CountedInit ==
    ASSUME Init PROVE Counted
<1>1. /\ file \in Texts /\ text = Whole /\ off = 1 /\ lex = "start" /\ store = <<>> /\ pulled = <<>>
      /\ at = "main"
  BY DEF Init, Whole
<1>2. Ended(Whole) /\ 1 \in 1..Len(Whole)
  BY <1>1, FileEnded, EndedOps DEF Whole, Ended
<1>3. Restored = Whole
  BY <1>1 DEF Restored
<1>4. Sound
  BY <1>1, <1>2, <1>3 DEF Sound, Agree
<1>5. Held = <<>> /\ Coming = Following(Whole)[1]
  BY <1>1 DEF Held, Coming
<1>6. Tokens(file) = Coming
  BY <1>5, TokensFollow DEF Whole
<1>7. Coming = <<>> \o Coming
  BY <1>4, ComingIn, ConcatEmptySeq
<1> QED
  BY <1>1, <1>4, <1>5, <1>6, <1>7 DEF Counted

LEMMA CountedIdle ==
    ASSUME Counted, UNCHANGED <<lexer, store, pulled>>, at' = "lex" => at = "lex" \/ store = <<>>
    PROVE  Counted'
<1>1. UNCHANGED <<file, text, off, lex, save, store, pulled>>
  BY DEF lexer
<1>2. Sound' /\ Held' = Held /\ Coming' = Coming
  BY <1>1 DEF Counted, Sound, Restored, Whole, Held, Coming, Tok, Str, IsString
<1> QED
  BY <1>1, <1>2 DEF Counted

LEMMA CountedLexed ==
    ASSUME Counted, conf_lex_entry
    PROVE  Counted'
<1>1. Sound /\ lex # "eof" /\ store = <<>> /\ UNCHANGED <<file, pulled>>
  BY DEF Counted, conf_lex_entry
<1>2. Lexed
  <2>1. CASE conf_lex_blank
    BY <1>1, <2>1, LexedBlank DEF conf_lex_blank, conf_lex_entry
  <2> QED
    BY <1>1, <2>1, LexedMark, LexedWord, LexedQuoted, LexedEof DEF conf_lex_entry
<1>3. at' # "lex"
  BY DEF conf_lex_entry, conf_lex_yield0, conf_lex_string, conf_lex_qstring, conf_lex_eof,
         conf_lex_blank, conf_lex_yield
<1>4. Held = <<>> /\ Held \o Coming = Coming
  <2>1. Held = <<>>
    BY <1>1 DEF Held
  <2> QED
    BY <1>1, <2>1, ComingIn, ConcatEmptySeq
<1>5. Tokens(file') = pulled' \o (Held' \o Coming')
  BY <1>1, <1>2, <1>4 DEF Counted, Lexed
<1> QED
  BY <1>1, <1>2, <1>3, <1>5 DEF Counted, Lexed

LEMMA CountedParsed ==
    ASSUME Counted, conf_parser_entry
    PROVE  Counted'
<1>1. Parsed
  BY ParserKeeps
<1>2. CASE Queue
  <2>1. UNCHANGED <<lexer, store, pulled>> /\ at' # "lex"
    BY <1>1, <1>2 DEF Parsed, Queue
  <2> QED
    BY <2>1, CountedIdle
<1>3. CASE Take
  <2>1. UNCHANGED <<file, text, off, lex, save>> /\ store # <<>> /\ store' = <<>> /\ at' # "lex"
    BY <1>1, <1>3 DEF Parsed, lexer, Take
  <2>2. Sound' /\ Coming' = Coming
    BY <2>1 DEF Counted, Sound, Restored, Whole, Coming
  <2> DEFINE tok == [type |-> Tok.type, str |-> Str]
  <2>3. Held = <<tok>> /\ Held' = <<>>
    BY <2>1 DEF Held
  <2>4. pulled' = Append(pulled, tok)
    BY <1>3 DEF Take
  <2> HIDE DEF tok
  <2>5. tok \in Token /\ pulled \in Seq(Token) /\ Coming \in Seq(Token)
    <3>1. <<tok>> \in Seq(Token)
      BY <2>3 DEF Counted
    <3>2. tok \in Token
      BY <3>1
    <3> QED
      BY <3>2, ComingIn DEF Counted
  <2>6. pulled' = pulled \o <<tok>> /\ pulled' \in Seq(Token)
    BY <2>4, <2>5, AppendIsConcat, AppendProperties
  <2>7. pulled' \o (Held' \o Coming') = pulled \o (Held \o Coming)
    <3>1. Held' \o Coming' = Coming
      BY <2>2, <2>3, <2>5, ConcatEmptySeq
    <3>2. <<tok>> \in Seq(Token)
      BY <2>5
    <3>3. (pulled \o <<tok>>) \o Coming = pulled \o (<<tok>> \o Coming)
      BY <2>5, <3>2, ConcatAssociative
    <3> QED
      BY <2>3, <2>6, <3>1, <3>3
  <2>8. Tokens(file') = pulled' \o (Held' \o Coming')
    BY <2>1, <2>7 DEF Counted
  <2>9. Held' \in Seq(Token)
    BY <2>3
  <2> QED
    BY <2>1, <2>2, <2>6, <2>8, <2>9 DEF Counted
<1> QED
  BY <1>1, <1>2, <1>3 DEF Parsed

LEMMA CountedStep ==
    ASSUME Counted, [Next]_vars PROVE Counted'
<1>1. CASE main
  <2>1. UNCHANGED <<lexer, store, pulled>> /\ at' # "lex"
    BY <1>1 DEF main, usage, init, run, load, conf_open, override, sig_cb, Say, finish, reading
  <2> QED
    BY <2>1, CountedIdle
<1>2. CASE deliver
  <2>1. UNCHANGED <<lexer, store, pulled>> /\ at' = at
    BY <1>2 DEF deliver, reading
  <2> QED
    BY <2>1, CountedIdle
<1>3. CASE \E level \in Levels : nce_sched_run(level)
  <2>1. UNCHANGED <<lexer, store, pulled>> /\ at' # "lex"
    BY <1>3 DEF nce_sched_run, Say, reading
  <2> QED
    BY <2>1, CountedIdle
<1>4. CASE conf_open_loop
  <2>1. UNCHANGED <<lexer, store, pulled>> /\ store = <<>>
    BY <1>4 DEF conf_open_loop
  <2> QED
    BY <2>1, CountedIdle
<1>5. CASE conf_apply
  <2>1. UNCHANGED <<lexer, store, pulled>> /\ at' # "lex"
    BY <1>5 DEF conf_apply, conf_apply_log, conf_apply_rules, conf_apply_servers, conf_apply_plugins,
                conf_apply_hooks, conf_apply_transport, Say, applying
  <2> QED
    BY <2>1, CountedIdle
<1>6. CASE UNCHANGED vars
  <2>1. UNCHANGED <<lexer, store, pulled>> /\ at' = at
    BY <1>6 DEF vars, lexer
  <2> QED
    BY <2>1, CountedIdle
<1> QED
  BY <1>1, <1>2, <1>3, <1>4, <1>5, <1>6, CountedLexed, CountedParsed DEF Next, Reads

LEMMA CountedFaithful ==
    ASSUME Counted PROVE TokensFaithful
<1> DEFINE r == Held \o Coming
<1>1. pulled \in Seq(Token) /\ r \in Seq(Token) /\ Tokens(file) = pulled \o r
  BY ComingIn, ConcatProperties DEF Counted
<1> HIDE DEF r
<1>2. Len(pulled) \in Nat /\ Len(r) \in Nat /\ Len(pulled \o r) = Len(pulled) + Len(r)
  BY <1>1, ConcatProperties, LenProperties
<1>3. SubSeq(pulled, 1, Len(pulled)) = SubSeq(pulled \o r, 1, Len(pulled))
  <2>1. CASE Len(pulled) = 0
    <3>1. 1 \in Int /\ Len(pulled) \in Int /\ Len(pulled) < 1
      BY <1>2, <2>1
    <3>2. SubSeq(pulled, 1, Len(pulled)) = <<>> /\ SubSeq(pulled \o r, 1, Len(pulled)) = <<>>
      BY <3>1, SubSeqEmpty
    <3> QED
      BY <3>2
  <2>2. CASE Len(pulled) # 0
    <3>1. 1 \in 1..Len(pulled) /\ Len(pulled) \in 1..Len(pulled)
      BY <1>2, <2>2
    <3> QED
      BY <1>1, <3>1, SubSeqOfConcat1
  <2> QED
    BY <2>1, <2>2
<1>4. Len(pulled) <= Len(pulled \o r)
  BY <1>2
<1>5. IsPrefix(pulled, pulled \o r)
  BY <1>3, <1>4, Zenon DEF IsPrefix
<1> QED
  BY <1>1, <1>5 DEF TokensFaithful

\* The parser coroutine of conf.c reads the tokens of the file, in order and
\* whole, although conf_lex_string and conf_lex_qstring write into the text while
\* it reads.
THEOREM TokensAlwaysFaithful == Spec => []TokensFaithful
<1>1. Init => Counted
  BY CountedInit
<1>2. Counted /\ [Next]_vars => Counted'
  BY CountedStep
<1>3. Counted => TokensFaithful
  BY CountedFaithful
<1> QED
  BY <1>1, <1>2, <1>3, PTL DEF Spec

-----------------------------------------------------------------------------
(* The order of applying.                                                  *)

IsBot(b) == b = [rules |-> b.rules, servers |-> b.servers, plugins |-> b.plugins,
                 hooks |-> b.hooks, tpt |-> b.tpt]
IsList(s) == \E S : s \in Seq(S)

\* What was applied is no longer in conf.
Ordered ==
    /\ IsConf(conf) /\ IsBot(bot) /\ IsList(bot.servers) /\ IsList(bot.plugins)
    /\ at \in {"apply servers", "apply plugins"} => conf.rules = <<>>
    /\ at = "apply plugins" => conf.servers = <<>>

\* What AnyOrder says of a step.
InOrder ==
    /\ Len(bot'.servers) > Len(bot.servers) => conf.rules = <<>>
    /\ Len(bot'.plugins) > Len(bot.plugins) => conf.rules = <<>> /\ conf.servers = <<>>

LEMMA ListGrows ==
    ASSUME NEW s, NEW e, IsList(s)
    PROVE  IsList(Append(s, e)) /\ IsList(<<e>> \o s)
<1>1. PICK S : s \in Seq(S)
  BY DEF IsList
<1> DEFINE U == S \cup {e}
<1>2. s \in Seq(U) /\ e \in U
  <2>1. S \subseteq U
    OBVIOUS
  <2> HIDE DEF U
  <2>2. s \in Seq(U)
    BY <1>1, <2>1, SeqMonotonic
  <2> QED
    BY <2>2 DEF U
<1> HIDE DEF U
<1>3. Append(s, e) \in Seq(U)
  BY <1>2, AppendProperties
<1>4. <<e>> \in Seq(U)
  BY <1>2
<1>5. <<e>> \o s \in Seq(U)
  BY <1>2, <1>4, ConcatProperties
<1> QED
  BY <1>3, <1>5, Zenon DEF IsList

LEMMA ListLen ==
    ASSUME NEW s, NEW t, IsList(s), t = s PROVE ~(Len(t) > Len(s))
<1>1. \A n \in Nat : ~(n > n)
  OBVIOUS
<1>2. Len(s) \in Nat
  BY LenProperties DEF IsList
<1>3. ~(Len(s) > Len(s))
  BY <1>1, <1>2, Zenon
<1> QED
  BY <1>3, Zenon

LEMMA KeepsBot ==
    ASSUME NEW b, NEW v, IsBot(b)
    PROVE  /\ IsBot([b EXCEPT !.rules = v]) /\ IsBot([b EXCEPT !.servers = v])
           /\ IsBot([b EXCEPT !.plugins = v]) /\ IsBot([b EXCEPT !.hooks = v])
           /\ IsBot([b EXCEPT !.tpt = v])
BY DEF IsBot

\* A step that leaves bot and what conf holds of rules and servers alone.
LEMMA OrderedIdle ==
    ASSUME Ordered, UNCHANGED bot, IsConf(conf'),
           at' \in {"apply servers", "apply plugins"} => at' = at /\ UNCHANGED conf
    PROVE  Ordered' /\ InOrder
<1>2. InOrder
  <2>1. /\ bot'.servers = bot.servers /\ bot'.plugins = bot.plugins
        /\ IsList(bot.servers) /\ IsList(bot.plugins)
    BY DEF Ordered
  <2>2. ~(Len(bot'.servers) > Len(bot.servers)) /\ ~(Len(bot'.plugins) > Len(bot.plugins))
    BY <2>1, ListLen, Zenon
  <2> QED
    BY <2>2 DEF InOrder
<1>3. Ordered'
  BY DEF Ordered
<1> QED
  BY <1>2, <1>3

LEMMA OrderedApply ==
    ASSUME Ordered, conf_apply PROVE Ordered' /\ InOrder
<1>0. /\ IsConf(conf) /\ IsBot(bot) /\ IsList(bot.servers) /\ IsList(bot.plugins)
      /\ bot'.servers = bot.servers => ~(Len(bot'.servers) > Len(bot.servers))
      /\ bot'.plugins = bot.plugins => ~(Len(bot'.plugins) > Len(bot.plugins))
  BY ListLen, Zenon DEF Ordered
<1>1. CASE conf_apply_log
  <2>1. UNCHANGED <<bot, conf>> /\ at' = "apply rules"
    BY <1>1 DEF conf_apply_log
  <2>2. at' \notin {"apply servers", "apply plugins"} /\ IsConf(conf')
    BY <1>0, <2>1
  <2> QED
    BY <2>1, <2>2, OrderedIdle
<1>2. CASE conf_apply_rules
  <2> DEFINE c == [conf EXCEPT !.rules = <<>>]
             b == [bot EXCEPT !.rules = @ \o conf.rules]
  <2>1. bot' = b /\ conf' = c /\ at' = "apply servers"
    BY <1>2 DEF conf_apply_rules
  <2>2. IsConf(c) /\ IsBot(b)
    BY <1>0, KeepsConf, KeepsBot
  <2>3. c.rules = <<>> /\ b.servers = bot.servers /\ b.plugins = bot.plugins
    BY <1>0 DEF IsConf, IsBot
  <2> HIDE DEF c, b
  <2> QED
    BY <1>0, <2>1, <2>2, <2>3 DEF Ordered, InOrder
<1>3. CASE conf_apply_servers
  <2>1. CASE conf.servers = <<>>
    <3>1. UNCHANGED <<conf, bot>> /\ at' = "apply plugins" /\ conf.rules = <<>>
      BY <1>3, <2>1 DEF conf_apply_servers, Ordered
    <3>2. bot'.servers = bot.servers /\ bot'.plugins = bot.plugins
      BY <3>1
    <3>3. InOrder
      BY <1>0, <3>2 DEF InOrder
    <3>4. Ordered'
      BY <2>1, <3>1 DEF Ordered
    <3> QED
      BY <3>3, <3>4
  <2>2. CASE conf.servers # <<>>
    <3> DEFINE c == [conf EXCEPT !.servers = Tail(@)]
               b == [bot EXCEPT !.servers = Append(@, Head(conf.servers))]
    <3>1. bot' = b /\ conf' = c /\ at' \in {"apply servers", "crashed"} /\ conf.rules = <<>>
      BY <1>3, <2>2 DEF conf_apply_servers, Ordered, Say
    <3>2. IsConf(c) /\ IsBot(b)
      BY <1>0, KeepsConf, KeepsBot
    <3>3. /\ c.rules = conf.rules /\ b.plugins = bot.plugins
          /\ b.servers = Append(bot.servers, Head(conf.servers))
      BY <1>0 DEF IsConf, IsBot
    <3>4. IsList(b.servers)
      BY <1>0, <3>3, ListGrows
    <3> HIDE DEF c, b
    <3> QED
      BY <1>0, <3>1, <3>2, <3>3, <3>4 DEF Ordered, InOrder
  <2> QED
    BY <2>1, <2>2
<1>4. CASE conf_apply_plugins
  <2>1. CASE conf.plugins = <<>>
    <3>1. UNCHANGED <<conf, bot>> /\ at' = "apply hooks"
      BY <1>4, <2>1 DEF conf_apply_plugins
    <3>2. at' \notin {"apply servers", "apply plugins"} /\ IsConf(conf')
      BY <1>0, <3>1
    <3> QED
      BY <3>1, <3>2, OrderedIdle
  <2>2. CASE conf.plugins # <<>>
    <3> DEFINE c == [conf EXCEPT !.plugins = Tail(@)]
               b == [bot EXCEPT !.plugins = <<Head(conf.plugins)>> \o @]
    <3>1. /\ bot' = b \/ bot' = bot
          /\ conf' = c /\ at' \in {"apply plugins", "crashed"}
          /\ conf.rules = <<>> /\ conf.servers = <<>>
      BY <1>4, <2>2 DEF conf_apply_plugins, Ordered, Say
    <3>2. IsConf(c) /\ IsBot(b)
      BY <1>0, KeepsConf, KeepsBot
    <3>3. /\ c.rules = conf.rules /\ c.servers = conf.servers /\ b.servers = bot.servers
          /\ b.plugins = <<Head(conf.plugins)>> \o bot.plugins
      BY <1>0 DEF IsConf, IsBot
    <3>4. IsList(b.plugins)
      BY <1>0, <3>3, ListGrows
    <3> HIDE DEF c, b
    <3>5. CASE bot' = b
      BY <1>0, <3>1, <3>2, <3>3, <3>4, <3>5 DEF Ordered, InOrder
    <3>6. CASE bot' = bot
      BY <1>0, <3>1, <3>2, <3>3, <3>6 DEF Ordered, InOrder
    <3> QED
      BY <3>1, <3>5, <3>6
  <2> QED
    BY <2>1, <2>2
<1>5. CASE conf_apply_hooks
  <2> DEFINE c == [conf EXCEPT !.hooks = Tail(@)]
             b == [bot EXCEPT !.hooks = <<Head(conf.hooks)>> \o @]
  <2>1. /\ bot' = b \/ bot' = bot
        /\ conf' = c \/ conf' = conf
        /\ at' \in {"apply hooks", "apply transport", "crashed"}
    BY <1>5 DEF conf_apply_hooks, Say
  <2>2. IsConf(c) /\ IsBot(b)
    BY <1>0, KeepsConf, KeepsBot
  <2>3. b.servers = bot.servers /\ b.plugins = bot.plugins
    BY <1>0 DEF IsBot
  <2> HIDE DEF c, b
  <2>4. /\ IsConf(conf') /\ IsBot(bot') /\ bot'.servers = bot.servers /\ bot'.plugins = bot.plugins
        /\ at' \notin {"apply servers", "apply plugins"}
    BY <1>0, <2>1, <2>2, <2>3
  <2> QED
    BY <1>0, <2>4 DEF Ordered, InOrder
<1>6. CASE conf_apply_transport
  <2> DEFINE b == [bot EXCEPT !.tpt = conf.tpt]
  <2>1. (bot' = b \/ bot' = bot) /\ UNCHANGED conf /\ at' \in {"ready", "failed", "crashed"}
    BY <1>6 DEF conf_apply_transport, Say
  <2>2. IsBot(b)
    BY <1>0, KeepsBot
  <2>3. b.servers = bot.servers /\ b.plugins = bot.plugins
    BY <1>0 DEF IsBot
  <2> HIDE DEF b
  <2>4. /\ IsConf(conf') /\ IsBot(bot') /\ bot'.servers = bot.servers /\ bot'.plugins = bot.plugins
        /\ at' \notin {"apply servers", "apply plugins"}
    BY <1>0, <2>1, <2>2, <2>3
  <2> QED
    BY <1>0, <2>4 DEF Ordered, InOrder
<1> QED
  BY <1>1, <1>2, <1>3, <1>4, <1>5, <1>6 DEF conf_apply

LEMMA OrderedFinish ==
    ASSUME Ordered, finish PROVE Ordered' /\ InOrder
<1>1. /\ bot' = [rules |-> <<>>, servers |-> <<>>, plugins |-> <<>>, hooks |-> <<>>, tpt |-> <<>>]
      /\ at' = "exit" /\ conf' = conf
  BY DEF finish, reading
<1>2. /\ IsBot(bot') /\ IsList(<<>>) /\ bot'.servers = <<>> /\ bot'.plugins = <<>>
  <2>1. \E S : <<>> \in Seq(S)
    <3>1. <<>> \in Seq({})
      OBVIOUS
    <3> QED
      BY <3>1
  <2> QED
    BY <1>1, <2>1 DEF IsBot, IsList
<1>3. Len(bot.servers) \in Nat /\ Len(bot.plugins) \in Nat /\ Len(<<>>) = 0
  BY LenProperties DEF Ordered, IsList
<1>4. ~(Len(bot'.servers) > Len(bot.servers)) /\ ~(Len(bot'.plugins) > Len(bot.plugins))
  BY <1>2, <1>3
<1> QED
  BY <1>1, <1>2, <1>4 DEF Ordered, InOrder

LEMMA OrderedStep ==
    ASSUME Ordered, [Next]_vars PROVE Ordered' /\ InOrder
<1>0. IsConf(conf)
  BY DEF Ordered
<1>1. CASE main
  <2>1. CASE finish
    BY <2>1, OrderedFinish
  <2>2. CASE ~finish
    <3>1. UNCHANGED <<bot, conf>> /\ at' \notin {"apply servers", "apply plugins"}
      BY <1>1, <2>2 DEF main, usage, init, run, load, conf_open, override, sig_cb, Say, reading, result
    <3> QED
      BY <1>0, <3>1, OrderedIdle
  <2> QED
    BY <2>1, <2>2
<1>2. CASE deliver \/ UNCHANGED vars
  <2>1. UNCHANGED <<bot, conf, at>>
    BY <1>2 DEF deliver, reading, vars
  <2> QED
    BY <1>0, <2>1, OrderedIdle
<1>3. CASE \E level \in Levels : nce_sched_run(level)
  <2>1. UNCHANGED <<bot, conf>> /\ at' \notin {"apply servers", "apply plugins"}
    BY <1>3 DEF nce_sched_run, Say, reading
  <2> QED
    BY <1>0, <2>1, OrderedIdle
<1>4. CASE conf_open_loop
  <2>1. UNCHANGED <<bot, conf>> /\ at' \notin {"apply servers", "apply plugins"}
    BY <1>4 DEF conf_open_loop, result
  <2> QED
    BY <1>0, <2>1, OrderedIdle
<1>5. CASE conf_lex_entry
  <2>1. UNCHANGED <<bot, conf>> /\ at' \notin {"apply servers", "apply plugins"}
    BY <1>5 DEF conf_lex_entry, conf_lex_yield0, conf_lex_string, conf_lex_qstring, conf_lex_eof,
                conf_lex_blank, conf_lex_yield, result
  <2> QED
    BY <1>0, <2>1, OrderedIdle
<1>6. CASE conf_parser_entry
  <2>1. UNCHANGED bot /\ IsConf(conf') /\ at' \notin {"apply servers", "apply plugins"}
    BY <1>0, <1>6, ParserKeeps DEF Parsed, result
  <2> QED
    BY <2>1, OrderedIdle
<1> QED
  BY <1>1, <1>2, <1>3, <1>4, <1>5, <1>6, OrderedApply DEF Next, Reads

LEMMA OrderedInit ==
    ASSUME Init PROVE Ordered
<1>1. IsList(<<>>)
  <2>1. <<>> \in Seq({})
    OBVIOUS
  <2> QED
    BY <2>1 DEF IsList
<1> QED
  BY <1>1 DEF Init, Nothing, Ordered, IsConf, IsBot

\* conf_open registers the rules before the first server and both before the
\* first plugin, wherever their sections stand in the file.
THEOREM AnyOrderAlways == Spec => AnyOrder
<1>1. Init => Ordered
  BY OrderedInit
<1>2. Ordered /\ [Next]_vars => Ordered'
  BY OrderedStep
<1>3. Ordered /\ [Next]_vars =>
        [/\ Len(bot'.servers) > Len(bot.servers) => conf.rules = <<>>
         /\ Len(bot'.plugins) > Len(bot.plugins) => conf.rules = <<>> /\ conf.servers = <<>>]_vars
  BY OrderedStep DEF InOrder
<1> QED
  BY <1>1, <1>2, <1>3, PTL DEF Spec, AnyOrder
=============================================================================
