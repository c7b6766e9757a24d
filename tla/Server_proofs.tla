---------------------------- MODULE Server_proofs ----------------------------
(***************************************************************************)
(* Proofs about Server, for all sets of channels and nicknames, all modes, *)
(* all configured flags and all capacities of the two queues.  Where a     *)
(* nickname may be the beginning of another (Extends # {}) the properties  *)
(* do not hold: irc_server_is_self takes a stranger for the bot.  The one  *)
(* about modes needs that letters without an argument come last in a MODE  *)
(* message, for irc_server_handle_mode counts an argument for each letter. *)
(***************************************************************************)
EXTENDS Server, SequenceTheorems, FiniteSetTheorems, TLAPS

-----------------------------------------------------------------------------
(* Queues.  The lines are records of several shapes: a queue is a sequence  *)
(* over whatever it holds.                                                 *)

IsSeq(q) == q \in Seq(Range(q))

\* A queue is a function on 1..Len(q).
LEMMA QueueDomain ==
    ASSUME NEW q, IsSeq(q)
    PROVE  Len(q) \in Nat /\ DOMAIN q = 1..Len(q)
BY LenProperties DEF IsSeq

LEMMA EmptyQueue == IsSeq(<<>>) /\ DOMAIN <<>> = {} /\ Range(<<>>) = {} /\ Len(<<>>) = 0
<1>1. DOMAIN <<>> = {}
  OBVIOUS
<1>2. Range(<<>>) = {}
  BY <1>1 DEF Range
<1> QED
  BY <1>1, <1>2, EmptySeq DEF IsSeq

\* What is taken is the first line, and the others move up by one.
LEMMA TailQueue ==
    ASSUME NEW q, IsSeq(q), q # <<>>
    PROVE  /\ IsSeq(Tail(q))
           /\ Head(q) = q[1] /\ 1 \in DOMAIN q
           /\ DOMAIN q = 1..Len(q) /\ Len(q) \in Nat
           /\ Len(Tail(q)) = Len(q) - 1
           /\ DOMAIN Tail(q) = 1..(Len(q) - 1)
           /\ \A i \in DOMAIN Tail(q) : Tail(q)[i] = q[i + 1]
           /\ Range(q) = {q[1]} \cup Range(Tail(q))
<1>1. Len(q) \in Nat \ {0} /\ DOMAIN q = 1..Len(q)
  BY LenProperties, EmptySeq DEF IsSeq
<1>2. /\ Tail(q) \in Seq(Range(q)) /\ Len(Tail(q)) = Len(q) - 1
      /\ \A i \in 1..Len(Tail(q)) : Tail(q)[i] = q[i + 1]
  BY HeadTailProperties DEF IsSeq
<1>3. IsSeq(Tail(q)) /\ DOMAIN Tail(q) = 1..Len(Tail(q))
  BY <1>2, SeqOfRange, LenProperties DEF IsSeq
<1>4. Head(q) = q[1]
  OBVIOUS
<1>5. Range(q) = {q[1]} \cup Range(Tail(q))
  <2>1. ASSUME NEW i \in DOMAIN q PROVE q[i] = q[1] \/ q[i] \in Range(Tail(q))
    <3>1. CASE i = 1
      BY <3>1
    <3>2. CASE i # 1
      <4>1. i - 1 \in 1..Len(Tail(q)) /\ (i - 1) + 1 = i
        BY <1>1, <1>2, <3>2
      <4>2. Tail(q)[i - 1] = q[i]
        BY <1>2, <4>1
      <4> QED
        BY <1>3, <4>1, <4>2 DEF Range
    <3> QED
      BY <3>1, <3>2
  <2>2. ASSUME NEW i \in DOMAIN Tail(q) PROVE Tail(q)[i] \in Range(q)
    <3>1. i + 1 \in DOMAIN q
      BY <1>1, <1>2, <1>3
    <3> QED
      BY <1>2, <1>3, <3>1 DEF Range
  <2> QED
    BY <1>1, <2>1, <2>2 DEF Range
<1> QED
  BY <1>1, <1>2, <1>3, <1>4, <1>5

\* A line appended is the last one.
LEMMA AppendQueue ==
    ASSUME NEW q, IsSeq(q), NEW m
    PROVE  /\ IsSeq(Append(q, m))
           /\ DOMAIN q = 1..Len(q) /\ Len(q) \in Nat
           /\ Len(Append(q, m)) = Len(q) + 1
           /\ DOMAIN Append(q, m) = 1..(Len(q) + 1)
           /\ \A i \in DOMAIN q : Append(q, m)[i] = q[i]
           /\ Append(q, m)[Len(q) + 1] = m
           /\ Range(Append(q, m)) = Range(q) \cup {m}
<1> DEFINE S == Range(q) \cup {m}
<1>1. q \in Seq(S)
  BY SeqMonotonic, Range(q) \subseteq S DEF IsSeq
<1>2. Len(q) \in Nat /\ DOMAIN q = 1..Len(q)
  BY LenProperties DEF IsSeq
<1>3. /\ Append(q, m) \in Seq(S)
      /\ Len(Append(q, m)) = Len(q) + 1
      /\ \A i \in 1..Len(q) : Append(q, m)[i] = q[i]
      /\ Append(q, m)[Len(q) + 1] = m
  BY <1>1, AppendProperties, m \in S
<1>4. IsSeq(Append(q, m)) /\ DOMAIN Append(q, m) = 1..(Len(q) + 1)
  BY <1>3, SeqOfRange, LenProperties DEF IsSeq
<1>5. Range(Append(q, m)) = Range(q) \cup {m}
  <2>1. \A i \in 1..(Len(q) + 1) : i \in 1..Len(q) \/ i = Len(q) + 1
    BY <1>2
  <2>2. Len(q) + 1 \in 1..(Len(q) + 1) /\ \A i \in 1..Len(q) : i \in 1..(Len(q) + 1)
    BY <1>2
  <2> QED
    BY <1>2, <1>3, <1>4, <2>1, <2>2, Zenon DEF Range
<1> QED
  BY <1>2, <1>3, <1>4, <1>5

\* Two lines are appended one after the other.
LEMMA AppendTwo ==
    ASSUME NEW q, IsSeq(q), NEW a, NEW b
    PROVE  q \o <<a, b>> = Append(Append(q, a), b)
<1> DEFINE S == Range(q) \cup {a, b}
<1>1. q \in Seq(S) /\ a \in S /\ b \in S
  BY SeqMonotonic, Range(q) \subseteq S DEF IsSeq
<1> HIDE DEF S
<1>2. Append(q, a) \in Seq(S)
  BY <1>1, AppendProperties
<1>3. Append(q, a) = q \o <<a>> /\ Append(Append(q, a), b) = Append(q, a) \o <<b>>
  BY <1>1, <1>2, AppendIsConcat
<1>4. <<a>> \in Seq(S) /\ <<b>> \in Seq(S)
  BY <1>1
<1>5. <<a>> \o <<b>> = <<a, b>>
  <2>1. <<a, b>> \in Seq(S) /\ Len(<<a, b>>) = 2 /\ <<a, b>>[1] = a /\ <<a, b>>[2] = b
    BY <1>1
  <2>2. Len(<<a>>) = 1 /\ <<a>>[1] = a /\ Len(<<b>>) = 1 /\ <<b>>[1] = b
    OBVIOUS
  <2>3. /\ <<a>> \o <<b>> \in Seq(S) /\ Len(<<a>> \o <<b>>) = 2
        /\ (<<a>> \o <<b>>)[1] = a /\ (<<a>> \o <<b>>)[2] = b
    BY <1>4, <2>2, ConcatProperties
  <2> DEFINE s == <<a>> \o <<b>>
             t == <<a, b>>
  <2> HIDE DEF s, t
  <2>4. \A i \in 1..2 : i = 1 \/ i = 2
    OBVIOUS
  <2>5. s \in Seq(S) /\ t \in Seq(S) /\ Len(s) = Len(t) /\ \A i \in 1..Len(s) : s[i] = t[i]
    BY <2>1, <2>3, <2>4 DEF s, t
  <2>6. s = t
    BY <2>5, SeqEqual
  <2> QED
    BY <2>6 DEF s, t
<1> QED
  BY <1>1, <1>3, <1>4, <1>5, ConcatAssociative

\* A queue with more lines behind it keeps its own.
LEMMA ConcatQueue ==
    ASSUME NEW q, NEW s, IsSeq(q), IsSeq(s)
    PROVE  IsSeq(q \o s) /\ Range(q \o s) = Range(q) \cup Range(s)
<1> DEFINE S == Range(q) \cup Range(s)
<1>1. q \in Seq(S) /\ s \in Seq(S)
  BY SeqMonotonic, Range(q) \subseteq S, Range(s) \subseteq S DEF IsSeq
<1> HIDE DEF S
<1>2. q \o s \in Seq(S)
  BY <1>1, ConcatProperties
<1>3. IsSeq(q \o s)
  BY <1>2, SeqOfRange DEF IsSeq
<1> QED
  BY <1>1, <1>3, RangeConcatenation

\* The beginning of a queue.
LEMMA PrefixQueue ==
    ASSUME NEW s, IsSeq(s), NEW n \in Int, n <= Len(s)
    PROVE  /\ IsSeq(SubSeq(s, 1, n)) /\ Range(SubSeq(s, 1, n)) \subseteq Range(s)
           /\ \A k \in DOMAIN s : k <= n => s[k] \in Range(SubSeq(s, 1, n))
<1>1. Len(s) \in Nat /\ DOMAIN s = 1..Len(s)
  BY LenProperties DEF IsSeq
<1>2. \A i \in 1..n : s[i] \in Range(s)
  BY <1>1 DEF Range
<1>3. /\ SubSeq(s, 1, n) \in Seq(Range(s))
      /\ Len(SubSeq(s, 1, n)) = IF 1 <= n THEN n - 1 + 1 ELSE 0
      /\ \A i \in 1..n-1+1 : SubSeq(s, 1, n)[i] = s[1 + i - 1]
  BY <1>2, SubSeqProperties
<1>4. IsSeq(SubSeq(s, 1, n)) /\ DOMAIN SubSeq(s, 1, n) = 1..Len(SubSeq(s, 1, n))
  BY <1>3, SeqOfRange, LenProperties DEF IsSeq
<1>5. DOMAIN SubSeq(s, 1, n) = 1..n
  BY <1>3, <1>4
<1>6. \A i \in 1..n : SubSeq(s, 1, n)[i] = s[i]
  BY <1>3
<1>7. Range(SubSeq(s, 1, n)) \subseteq Range(s)
  BY <1>2, <1>5, <1>6 DEF Range
<1>8. \A k \in DOMAIN s : k <= n => k \in 1..n
  BY <1>1
<1> QED
  BY <1>4, <1>5, <1>6, <1>7, <1>8 DEF Range

\* irc__conn_push keeps what waits and adds the lines that fit.
LEMMA PushedQueue ==
    ASSUME NEW q, NEW s, IsSeq(q), IsSeq(s)
    PROVE  /\ IsSeq(Pushed(q, s))
           /\ Range(q) \subseteq Range(Pushed(q, s))
           /\ Range(Pushed(q, s)) \subseteq Range(q) \cup Range(s)
           /\ \A k \in DOMAIN s : k <= OutCap - Len(q) => s[k] \in Range(Pushed(q, s))
<1> DEFINE n == IF Len(s) < OutCap - Len(q) THEN Len(s) ELSE OutCap - Len(q)
           t == SubSeq(s, 1, n)
<1>1. /\ Len(q) \in Nat /\ Len(s) \in Nat /\ DOMAIN s = 1..Len(s) /\ OutCap \in Nat
  BY LenProperties, ServerAssumption DEF IsSeq
<1>2. n \in Int /\ n <= Len(s) /\ \A k \in DOMAIN s : k <= OutCap - Len(q) => k <= n
  BY <1>1
<1>3. Pushed(q, s) = q \o t
  BY DEF Pushed
<1> HIDE DEF n
<1>4. /\ IsSeq(t) /\ Range(t) \subseteq Range(s)
      /\ \A k \in DOMAIN s : k <= n => s[k] \in Range(t)
  BY <1>2, PrefixQueue
<1> HIDE DEF t
<1>5. IsSeq(q \o t) /\ Range(q \o t) = Range(q) \cup Range(t)
  BY <1>4, ConcatQueue
<1> QED
  BY <1>2, <1>3, <1>4, <1>5, Zenon

-----------------------------------------------------------------------------
(* What the lines on the way to the bot say.                               *)

\* After the line m the bot takes itself for in channel c, or out of it, and
\* with Leaves out of it.  NAMES and the lines about others tell it is in.
Changes(m, c) ==
    /\ m.cmd \in {"JOIN", "353", "KICK", "PART"} /\ m.ch = c
    /\ m.cmd = "PART" => m.who \notin Others
Leaves(m, c) == m.cmd \in {"KICK", "PART"} /\ m.ch = c /\ m.who \notin Others
Joins(m, c) == m.cmd = "JOIN" /\ m.ch = c

Quiet(q, c) == \A m \in Range(q) : ~Changes(m, c)

\* The last line of q about the bot in c says that it is in (`is') or not.
LastSays(q, c, is) ==
    \A i \in DOMAIN q :
        Changes(q[i], c) /\ (\A j \in DOMAIN q : i < j => ~Changes(q[j], c))
            => (Leaves(q[i], c) <=> ~is)

\* Behind each line that takes the bot out of c a JOIN takes it back.
Rejoins(q, c) ==
    \A i \in DOMAIN q : Leaves(q[i], c) => \E j \in DOMAIN q : i < j /\ Joins(q[j], c)

\* The nickname before the line i of q, n being the one before the first line.
GoesBy(q, n, i, x) ==
    \/ x = n /\ \A j \in DOMAIN q : j < i => q[j].cmd # "NICK"
    \/ \E j \in DOMAIN q :
          /\ j < i /\ q[j].cmd = "NICK" /\ q[j].new = x
          /\ \A k \in DOMAIN q : j < k /\ k < i => q[k].cmd # "NICK"

\* Each line of q about the bot calls it by the nickname it has then, which is r
\* in the end, and never that of another.
Chain(q, n, r) ==
    /\ n \notin Others
    /\ \A i \in DOMAIN q :
          /\ q[i].cmd = "NICK" => q[i].who \notin Others /\ q[i].new \notin Others
          /\ q[i].cmd \in {"KICK", "PART", "NICK"} /\ q[i].who \notin Others
                => GoesBy(q, n, i, q[i].who)
    /\ GoesBy(q, n, Len(q) + 1, r)

LEMMA LastSaysTail ==
    ASSUME NEW q, IsSeq(q), q # <<>>, NEW c, NEW is \in BOOLEAN, LastSays(q, c, is)
    PROVE  LastSays(Tail(q), c, is)
<1> DEFINE t == Tail(q)
<1>1. /\ DOMAIN q = 1..Len(q) /\ Len(q) \in Nat /\ DOMAIN t = 1..(Len(q) - 1)
      /\ \A i \in DOMAIN t : t[i] = q[i + 1]
  BY TailQueue
<1> HIDE DEF t
<1> SUFFICES ASSUME NEW i \in DOMAIN t, Changes(t[i], c),
                    \A j \in DOMAIN t : i < j => ~Changes(t[j], c)
             PROVE  Leaves(t[i], c) <=> ~is
  BY DEF LastSays, t
<1>2. i + 1 \in DOMAIN q /\ t[i] = q[i + 1]
  BY <1>1
<1>3. ASSUME NEW j \in DOMAIN q, i + 1 < j PROVE ~Changes(q[j], c)
  <2>1. j - 1 \in DOMAIN t /\ i < j - 1 /\ (j - 1) + 1 = j
    BY <1>1, <1>3
  <2>2. t[j - 1] = q[j]
    BY <1>1, <2>1
  <2> QED
    BY <2>1, <2>2
<1> QED
  BY <1>2, <1>3 DEF LastSays

\* A line that says nothing of c changes nothing, one that does is the last word.
LEMMA LastSaysAppend ==
    ASSUME NEW q, IsSeq(q), NEW m, NEW c, NEW is \in BOOLEAN,
           \/ ~Changes(m, c) /\ LastSays(q, c, is)
           \/ Changes(m, c) /\ (Leaves(m, c) <=> ~is)
    PROVE  LastSays(Append(q, m), c, is)
<1> DEFINE t == Append(q, m)
<1>1. /\ DOMAIN q = 1..Len(q) /\ Len(q) \in Nat /\ DOMAIN t = 1..(Len(q) + 1)
      /\ \A i \in DOMAIN q : t[i] = q[i]
      /\ t[Len(q) + 1] = m
  BY AppendQueue
<1> HIDE DEF t
<1> SUFFICES ASSUME NEW i \in DOMAIN t, Changes(t[i], c),
                    \A j \in DOMAIN t : i < j => ~Changes(t[j], c)
             PROVE  Leaves(t[i], c) <=> ~is
  BY DEF LastSays, t
<1>2. CASE i = Len(q) + 1
  BY <1>1, <1>2
<1>3. CASE i # Len(q) + 1
  <2>1. i \in DOMAIN q /\ i < Len(q) + 1 /\ Len(q) + 1 \in DOMAIN t /\ t[i] = q[i]
    BY <1>1, <1>3
  <2>2. ~Changes(m, c)
    BY <1>1, <2>1
  <2>3. \A j \in DOMAIN q : i < j => ~Changes(q[j], c)
    BY <1>1
  <2> QED
    BY <2>1, <2>2, <2>3 DEF LastSays
<1> QED
  BY <1>2, <1>3

LEMMA RejoinsTail ==
    ASSUME NEW q, IsSeq(q), q # <<>>, NEW c, Rejoins(q, c)
    PROVE  Rejoins(Tail(q), c)
<1> DEFINE t == Tail(q)
<1>1. /\ DOMAIN q = 1..Len(q) /\ Len(q) \in Nat /\ DOMAIN t = 1..(Len(q) - 1)
      /\ \A i \in DOMAIN t : t[i] = q[i + 1]
  BY TailQueue
<1> HIDE DEF t
<1> SUFFICES ASSUME NEW i \in DOMAIN t, Leaves(t[i], c)
             PROVE  \E j \in DOMAIN t : i < j /\ Joins(t[j], c)
  BY DEF Rejoins, t
<1>2. i + 1 \in DOMAIN q /\ t[i] = q[i + 1]
  BY <1>1
<1>3. PICK j \in DOMAIN q : i + 1 < j /\ Joins(q[j], c)
  BY <1>2 DEF Rejoins
<1>4. j - 1 \in DOMAIN t /\ i < j - 1 /\ (j - 1) + 1 = j
  BY <1>1, <1>3
<1>5. t[j - 1] = q[j]
  BY <1>1, <1>4
<1> QED
  BY <1>3, <1>4, <1>5

LEMMA RejoinsAppend ==
    ASSUME NEW q, IsSeq(q), NEW m, NEW c,
           Joins(m, c) \/ (~Leaves(m, c) /\ Rejoins(q, c))
    PROVE  Rejoins(Append(q, m), c)
<1> DEFINE t == Append(q, m)
<1>1. /\ DOMAIN q = 1..Len(q) /\ Len(q) \in Nat /\ DOMAIN t = 1..(Len(q) + 1)
      /\ \A i \in DOMAIN q : t[i] = q[i]
      /\ t[Len(q) + 1] = m
  BY AppendQueue
<1> HIDE DEF t
<1> SUFFICES ASSUME NEW i \in DOMAIN t, Leaves(t[i], c)
             PROVE  \E j \in DOMAIN t : i < j /\ Joins(t[j], c)
  BY DEF Rejoins, t
<1>2. CASE i = Len(q) + 1
  BY <1>1, <1>2 DEF Joins, Leaves
<1>3. CASE i # Len(q) + 1
  <2>1. i \in DOMAIN q /\ i < Len(q) + 1 /\ Len(q) + 1 \in DOMAIN t /\ t[i] = q[i]
    BY <1>1, <1>3
  <2>2. CASE Joins(m, c)
    BY <1>1, <2>1, <2>2
  <2>3. CASE Rejoins(q, c)
    <3>1. PICK j \in DOMAIN q : i < j /\ Joins(q[j], c)
      BY <2>1, <2>3 DEF Rejoins
    <3> QED
      BY <1>1, <3>1
  <2> QED
    BY <2>2, <2>3
<1> QED
  BY <1>2, <1>3

\* Taking a line that is no NICK leaves the nicknames of the others.
LEMMA GoesByTail ==
    ASSUME NEW q, IsSeq(q), q # <<>>, NEW n, NEW i \in Nat, NEW x, GoesBy(q, n, i + 1, x),
           i # 0
    PROVE  GoesBy(Tail(q), IF q[1].cmd = "NICK" THEN q[1].new ELSE n, i, x)
<1> DEFINE t == Tail(q)
           p == IF q[1].cmd = "NICK" THEN q[1].new ELSE n
<1>1. /\ DOMAIN q = 1..Len(q) /\ Len(q) \in Nat /\ DOMAIN t = 1..(Len(q) - 1)
      /\ \A j \in DOMAIN t : t[j] = q[j + 1]
      /\ 1 \in DOMAIN q
  BY TailQueue
<1> HIDE DEF t
<1>2. \A j \in DOMAIN t : j \in Nat /\ j + 1 \in DOMAIN q /\ t[j] = q[j + 1]
  BY <1>1
<1>3. \A j \in DOMAIN q : j = 1 \/ (j - 1 \in DOMAIN t /\ t[j - 1] = q[j] /\ j \in Nat)
  <2> SUFFICES ASSUME NEW j \in DOMAIN q, j # 1 PROVE j - 1 \in DOMAIN t /\ t[j - 1] = q[j] /\ j \in Nat
    OBVIOUS
  <2>1. j - 1 \in DOMAIN t /\ (j - 1) + 1 = j /\ j \in Nat
    BY <1>1
  <2> QED
    BY <1>1, <2>1
<1>4. CASE x = n /\ \A j \in DOMAIN q : j < i + 1 => q[j].cmd # "NICK"
  <2>1. q[1].cmd # "NICK"
    BY <1>1, <1>4
  <2>2. \A j \in DOMAIN t : j < i => t[j].cmd # "NICK"
    BY <1>2, <1>4
  <2> QED
    BY <1>4, <2>1, <2>2 DEF GoesBy, t
<1>5. CASE \E j \in DOMAIN q :
              /\ j < i + 1 /\ q[j].cmd = "NICK" /\ q[j].new = x
              /\ \A k \in DOMAIN q : j < k /\ k < i + 1 => q[k].cmd # "NICK"
  <2>1. PICK j \in DOMAIN q :
              /\ j < i + 1 /\ q[j].cmd = "NICK" /\ q[j].new = x
              /\ \A k \in DOMAIN q : j < k /\ k < i + 1 => q[k].cmd # "NICK"
    BY <1>5
  <2>2. CASE j = 1
    <3>1. p = x
      BY <2>1, <2>2
    <3>2. \A k \in DOMAIN t : k < i => t[k].cmd # "NICK"
      BY <1>1, <1>2, <2>1, <2>2
    <3> QED
      BY <3>1, <3>2 DEF GoesBy, t
  <2>3. CASE j # 1
    <3>1. j - 1 \in DOMAIN t /\ t[j - 1] = q[j] /\ j - 1 < i
      BY <1>3, <2>1, <2>3
    <3>2. ASSUME NEW k \in DOMAIN t, j - 1 < k, k < i PROVE t[k].cmd # "NICK"
      <4>1. k + 1 \in DOMAIN q /\ j < k + 1 /\ k + 1 < i + 1 /\ t[k] = q[k + 1]
        BY <1>1, <1>2, <3>2
      <4> QED
        BY <2>1, <4>1
    <3> QED
      BY <2>1, <3>1, <3>2 DEF GoesBy, t
  <2> QED
    BY <2>2, <2>3
<1> QED
  BY <1>4, <1>5 DEF GoesBy

\* The nickname before the first line is the one the queue starts with.
LEMMA GoesByFirst ==
    ASSUME NEW q, IsSeq(q), NEW n, NEW x, GoesBy(q, n, 1, x)
    PROVE  x = n
<1>1. \A j \in DOMAIN q : ~(j < 1)
  BY QueueDomain
<1> QED
  BY <1>1 DEF GoesBy

\* Lines behind the line i do not change the nickname before it.
LEMMA GoesByAppend ==
    ASSUME NEW q, IsSeq(q), NEW n, NEW m, NEW i \in Nat, i <= Len(q) + 1, NEW x, GoesBy(q, n, i, x)
    PROVE  GoesBy(Append(q, m), n, i, x)
<1> DEFINE t == Append(q, m)
<1>1. /\ DOMAIN q = 1..Len(q) /\ Len(q) \in Nat /\ DOMAIN t = 1..(Len(q) + 1)
      /\ \A j \in DOMAIN q : t[j] = q[j]
  BY AppendQueue
<1> HIDE DEF t
<1>2. \A j \in DOMAIN q : j \in DOMAIN t /\ t[j] = q[j]
  BY <1>1
<1>3. \A j \in DOMAIN t : j < i => j \in DOMAIN q /\ t[j] = q[j]
  BY <1>1
<1> QED
  BY <1>2, <1>3 DEF GoesBy, t

\* Behind the last line the nickname is that of before, or the one the line gives.
LEMMA GoesByLast ==
    ASSUME NEW q, IsSeq(q), NEW n, NEW m, NEW r, GoesBy(q, n, Len(q) + 1, r)
    PROVE  GoesBy(Append(q, m), n, Len(q) + 2, IF m.cmd = "NICK" THEN m.new ELSE r)
<1> DEFINE t == Append(q, m)
<1>1. /\ DOMAIN q = 1..Len(q) /\ Len(q) \in Nat /\ DOMAIN t = 1..(Len(q) + 1)
      /\ \A j \in DOMAIN q : t[j] = q[j]
      /\ t[Len(q) + 1] = m
  BY AppendQueue
<1> HIDE DEF t
<1>2. \A j \in DOMAIN q : j \in DOMAIN t /\ t[j] = q[j] /\ j < Len(q) + 1 /\ j < Len(q) + 2
  BY <1>1
<1>3. \A j \in DOMAIN t : (j \in DOMAIN q /\ t[j] = q[j]) \/ (j = Len(q) + 1 /\ t[j] = m)
  BY <1>1
<1>4. CASE m.cmd = "NICK"
  <2>1. Len(q) + 1 \in DOMAIN t /\ Len(q) + 1 < Len(q) + 2
    BY <1>1
  <2>2. \A k \in DOMAIN t : ~(Len(q) + 1 < k /\ k < Len(q) + 2)
    BY <1>1
  <2> QED
    BY <1>1, <1>4, <2>1, <2>2 DEF GoesBy, t
<1>5. CASE m.cmd # "NICK"
  <2>1. CASE r = n /\ \A j \in DOMAIN q : j < Len(q) + 1 => q[j].cmd # "NICK"
    <3>1. \A j \in DOMAIN t : t[j].cmd # "NICK"
      BY <1>2, <1>3, <1>5, <2>1
    <3> QED
      BY <1>5, <2>1, <3>1 DEF GoesBy, t
  <2>2. CASE \E j \in DOMAIN q :
                /\ j < Len(q) + 1 /\ q[j].cmd = "NICK" /\ q[j].new = r
                /\ \A k \in DOMAIN q : j < k /\ k < Len(q) + 1 => q[k].cmd # "NICK"
    <3>1. PICK j \in DOMAIN q :
                /\ j < Len(q) + 1 /\ q[j].cmd = "NICK" /\ q[j].new = r
                /\ \A k \in DOMAIN q : j < k /\ k < Len(q) + 1 => q[k].cmd # "NICK"
      BY <2>2
    <3>2. j \in DOMAIN t /\ j < Len(q) + 2 /\ t[j].cmd = "NICK" /\ t[j].new = r
      BY <1>2, <3>1
    <3>3. \A k \in DOMAIN t : j < k => t[k].cmd # "NICK"
      BY <1>2, <1>3, <1>5, <3>1
    <3> QED
      BY <1>5, <3>2, <3>3 DEF GoesBy, t
  <2> QED
    BY <2>1, <2>2 DEF GoesBy
<1> QED
  BY <1>4, <1>5

\* irc_server_handle_nick keeps up with the queue.
LEMMA ChainTail ==
    ASSUME NEW q, IsSeq(q), q # <<>>, NEW n, NEW r, Chain(q, n, r)
    PROVE  /\ q[1].cmd \in {"KICK", "PART", "NICK"} => (q[1].who \notin Others <=> q[1].who = n)
           /\ q[1].cmd = "NICK" => q[1].who = n
           /\ Chain(Tail(q), IF q[1].cmd = "NICK" THEN q[1].new ELSE n, r)
<1> DEFINE t == Tail(q)
           p == IF q[1].cmd = "NICK" THEN q[1].new ELSE n
<1>1. /\ DOMAIN q = 1..Len(q) /\ Len(q) \in Nat /\ DOMAIN t = 1..(Len(q) - 1)
      /\ \A j \in DOMAIN t : t[j] = q[j + 1]
      /\ 1 \in DOMAIN q /\ Len(t) = Len(q) - 1
  BY TailQueue
<1>2. q[1].cmd \in {"KICK", "PART", "NICK"} /\ q[1].who \notin Others => q[1].who = n
  BY <1>1, GoesByFirst DEF Chain
<1>3. n \notin Others /\ (q[1].cmd = "NICK" => q[1].who \notin Others /\ q[1].new \notin Others)
  BY <1>1 DEF Chain
<1>4. p \notin Others
  BY <1>3
<1>5. \A i \in DOMAIN t : i \in Nat /\ i # 0 /\ i + 1 \in DOMAIN q /\ t[i] = q[i + 1]
  BY <1>1
<1>6. \A i \in Nat : \A x : i # 0 /\ GoesBy(q, n, i + 1, x) => GoesBy(t, p, i, x)
  BY GoesByTail
<1>7. GoesBy(t, p, Len(t) + 1, r)
  <2>1. Len(q) \in Nat /\ Len(q) # 0 /\ Len(t) + 1 = Len(q)
    BY <1>1
  <2> QED
    BY <1>6, <2>1 DEF Chain
<1> HIDE DEF t, p
<1>8. Chain(t, p, r)
  BY <1>4, <1>5, <1>6, <1>7 DEF Chain
<1> QED
  BY <1>2, <1>3, <1>8 DEF t, p

\* What the network adds goes by the nickname the bot has there.
LEMMA ChainAppend ==
    ASSUME NEW q, IsSeq(q), NEW n, NEW r, NEW m, Chain(q, n, r),
           m.cmd = "NICK" => m.who \notin Others /\ m.new \notin Others,
           m.cmd \in {"KICK", "PART", "NICK"} /\ m.who \notin Others => m.who = r
    PROVE  Chain(Append(q, m), n, IF m.cmd = "NICK" THEN m.new ELSE r)
<1> DEFINE t == Append(q, m)
<1>1. /\ DOMAIN q = 1..Len(q) /\ Len(q) \in Nat /\ DOMAIN t = 1..(Len(q) + 1)
      /\ Len(t) = Len(q) + 1
      /\ \A j \in DOMAIN q : t[j] = q[j]
      /\ t[Len(q) + 1] = m
  BY AppendQueue
<1>2. \A i \in Nat : \A x : i <= Len(q) + 1 /\ GoesBy(q, n, i, x) => GoesBy(t, n, i, x)
  BY GoesByAppend
<1>3. \A i \in DOMAIN t : (i \in DOMAIN q /\ t[i] = q[i] /\ i <= Len(q) + 1 /\ i \in Nat)
                          \/ (i = Len(q) + 1 /\ t[i] = m)
  BY <1>1
<1>4. Len(q) + 1 \in Nat /\ Len(q) + 1 <= Len(q) + 1 /\ Len(t) + 1 = Len(q) + 2
  BY <1>1
<1>5. GoesBy(q, n, Len(q) + 1, r)
  BY DEF Chain
<1>6. GoesBy(t, n, Len(t) + 1, IF m.cmd = "NICK" THEN m.new ELSE r)
  BY <1>4, <1>5, GoesByLast
<1>7. GoesBy(t, n, Len(q) + 1, r)
  BY <1>2, <1>4, <1>5
<1> HIDE DEF t
<1>8. \A i \in DOMAIN t :
          /\ t[i].cmd = "NICK" => t[i].who \notin Others /\ t[i].new \notin Others
          /\ t[i].cmd \in {"KICK", "PART", "NICK"} /\ t[i].who \notin Others
                => GoesBy(t, n, i, t[i].who)
  BY <1>2, <1>3, <1>7 DEF Chain
<1> QED
  BY <1>6, <1>8 DEF Chain, t

-----------------------------------------------------------------------------
(* The list of channels and what is sent.                                  *)

ListOK == channels \in Seq(Channels) /\ IsInjective(channels)

\* irc_server_channels_add adds the channel and lists none twice.
LEMMA AddOne ==
    ASSUME ListOK, NEW c \in Channels
    PROVE  /\ irc_server_channels_add(c) \in Seq(Channels)
           /\ IsInjective(irc_server_channels_add(c))
           /\ Range(irc_server_channels_add(c)) = Listed \cup {c}
<1>1. CASE c \in Listed
  BY <1>1 DEF irc_server_channels_add, ListOK, Listed
<1>2. CASE c \notin Listed
  <2> DEFINE a == <<c>>
             s == a \o channels
  <2>1. a \in Seq(Channels) /\ Len(a) = 1 /\ a[1] = c /\ DOMAIN a = {1}
    OBVIOUS
  <2> HIDE DEF a
  <2>2. /\ s \in Seq(Channels) /\ Len(s) = 1 + Len(channels)
        /\ \A i \in 1..1 + Len(channels) : s[i] = IF i <= 1 THEN a[i] ELSE channels[i - 1]
    <3>1. channels \in Seq(Channels)
      BY DEF ListOK
    <3>2. /\ s \in Seq(Channels) /\ Len(s) = Len(a) + Len(channels)
          /\ \A i \in 1..Len(a) + Len(channels) :
                s[i] = IF i <= Len(a) THEN a[i] ELSE channels[i - Len(a)]
      BY <2>1, <3>1, ConcatProperties, ZenonT(40)
    <3> HIDE DEF s
    <3> QED
      BY <2>1, <3>2
  <2>3. Range(s) = Range(a) \cup Range(channels)
    BY <2>1, RangeConcatenation DEF ListOK
  <2>4. Range(a) = {c}
    BY <2>1 DEF Range
  <2>5. Len(channels) \in Nat /\ DOMAIN channels = 1..Len(channels) /\ DOMAIN s = 1..1 + Len(channels)
    BY <2>2, LenProperties DEF ListOK
  <2> HIDE DEF s
  <2>6. \A i \in DOMAIN s : (i = 1 /\ s[i] = c)
                            \/ (i - 1 \in DOMAIN channels /\ s[i] = channels[i - 1] /\ i \in Nat)
    BY <2>1, <2>2, <2>5
  <2>7. \A i \in DOMAIN channels : channels[i] # c
    BY <1>2 DEF Listed, Range
  <2>8. ASSUME NEW i \in DOMAIN s, NEW j \in DOMAIN s, s[i] = s[j] PROVE i = j
    <3>1. CASE i = 1 /\ s[i] = c
      BY <2>6, <2>7, <2>8, <3>1
    <3>2. CASE i - 1 \in DOMAIN channels /\ s[i] = channels[i - 1] /\ i \in Nat
      <4>1. j - 1 \in DOMAIN channels /\ s[j] = channels[j - 1] /\ j \in Nat
        BY <2>6, <2>7, <2>8, <3>2
      <4>2. i - 1 = j - 1
        BY <2>8, <3>2, <4>1 DEF ListOK, IsInjective
      <4> QED
        BY <3>2, <4>1, <4>2
    <3> QED
      BY <2>6, <3>1, <3>2
  <2>9. IsInjective(s)
    BY <2>8 DEF IsInjective
  <2>10. irc_server_channels_add(c) = s
    BY <1>2 DEF irc_server_channels_add, s, a
  <2> QED
    BY <2>2, <2>3, <2>4, <2>9, <2>10 DEF Listed
<1> QED
  BY <1>1, <1>2

\* irc_server_channels_remove removes that channel and no other.
LEMMA RemoveOne ==
    ASSUME ListOK, NEW c, irc_server_channels_remove(c)
    PROVE  ListOK' /\ Listed' = Listed \ {c}
<1>1. CASE c \notin Listed /\ UNCHANGED channels
  BY <1>1 DEF ListOK, Listed
<1>2. CASE \E k \in DOMAIN channels : channels[k] = c /\ channels' = RemoveAt(channels, k)
  <2>1. PICK k \in DOMAIN channels : channels[k] = c /\ channels' = RemoveAt(channels, k)
    BY <1>2
  <2> DEFINE n == Len(channels)
             a == SubSeq(channels, 1, k - 1)
             b == SubSeq(channels, k + 1, n)
  <2>2. n \in Nat /\ DOMAIN channels = 1..n /\ k \in 1..n /\ \A i \in 1..n : channels[i] \in Channels
    BY LenProperties DEF ListOK
  <2>3. /\ a \in Seq(Channels) /\ Len(a) = k - 1
        /\ \A i \in 1..k - 1 : a[i] = channels[i]
    <3>1. 1 \in Int /\ k - 1 \in Int /\ \A i \in 1..k - 1 : channels[i] \in Channels
      BY <2>2
    <3>2. /\ a \in Seq(Channels)
          /\ Len(a) = IF 1 <= k - 1 THEN k - 1 - 1 + 1 ELSE 0
          /\ \A i \in 1..k - 1 - 1 + 1 : a[i] = channels[1 + i - 1]
      BY <3>1, SubSeqProperties
    <3>3. \A i \in 1..k - 1 : i \in 1..k - 1 - 1 + 1 /\ 1 + i - 1 = i
      BY <2>2
    <3>4. (IF 1 <= k - 1 THEN k - 1 - 1 + 1 ELSE 0) = k - 1
      BY <2>2
    <3> QED
      BY <3>2, <3>3, <3>4
  <2>4. /\ b \in Seq(Channels) /\ Len(b) = n - k
        /\ \A i \in 1..n - k : b[i] = channels[k + i]
    <3>1. k + 1 \in Int /\ n \in Int /\ \A i \in k + 1..n : channels[i] \in Channels
      BY <2>2
    <3>2. /\ b \in Seq(Channels)
          /\ Len(b) = IF k + 1 <= n THEN n - (k + 1) + 1 ELSE 0
          /\ \A i \in 1..n - (k + 1) + 1 : b[i] = channels[k + 1 + i - 1]
      BY <3>1, SubSeqProperties, SMTT(30)
    <3>3. \A i \in 1..n - k : i \in 1..n - (k + 1) + 1 /\ k + 1 + i - 1 = k + i
      BY <2>2
    <3>4. (IF k + 1 <= n THEN n - (k + 1) + 1 ELSE 0) = n - k
      BY <2>2
    <3> QED
      BY <3>2, <3>3, <3>4
  <2>5. channels' = a \o b
    BY <2>1 DEF RemoveAt
  <2> HIDE DEF a, b
  <2>6. /\ channels' \in Seq(Channels) /\ Len(channels') = (k - 1) + (n - k)
        /\ \A i \in 1..(k - 1) + (n - k) :
              channels'[i] = IF i <= k - 1 THEN a[i] ELSE b[i - (k - 1)]
    <3> DEFINE w == a \o b
    <3>1. /\ w \in Seq(Channels) /\ Len(w) = Len(a) + Len(b)
          /\ \A i \in 1..Len(a) + Len(b) :
                w[i] = IF i <= Len(a) THEN a[i] ELSE b[i - Len(a)]
      BY <2>3, <2>4, ConcatProperties
    <3> HIDE DEF w
    <3>2. /\ w \in Seq(Channels) /\ Len(w) = (k - 1) + (n - k)
          /\ \A i \in 1..(k - 1) + (n - k) :
                w[i] = IF i <= k - 1 THEN a[i] ELSE b[i - (k - 1)]
      BY <2>3, <2>4, <3>1
    <3>3. channels' = w
      BY <2>5 DEF w
    <3> QED
      BY <3>2, <3>3
  <2> HIDE DEF n
  <2>7. DOMAIN channels' = 1..n - 1
    BY <2>2, <2>6, LenProperties
  <2>8. ASSUME NEW i \in 1..n - 1
        PROVE  channels'[i] = IF i < k THEN channels[i] ELSE channels[i + 1]
    <3>1. i \in 1..(k - 1) + (n - k)
      BY <2>2
    <3>2. CASE i < k
      <4>1. i <= k - 1 /\ i \in 1..k - 1
        BY <2>2, <3>2
      <4> QED
        BY <2>3, <2>6, <3>1, <3>2, <4>1
    <3>3. CASE ~(i < k)
      <4>1. ~(i <= k - 1) /\ i - (k - 1) \in 1..n - k /\ k + (i - (k - 1)) = i + 1
        BY <2>2, <3>3
      <4> QED
        BY <2>4, <2>6, <3>1, <3>3, <4>1
    <3> QED
      BY <3>2, <3>3
  <2>9. IsInjective(channels')
    <3> SUFFICES ASSUME NEW i \in 1..n - 1, NEW j \in 1..n - 1, channels'[i] = channels'[j]
                 PROVE  i = j
      BY <2>7 DEF IsInjective
    <3> DEFINE f == IF i < k THEN i ELSE i + 1
               g == IF j < k THEN j ELSE j + 1
    <3>1. f \in 1..n /\ g \in 1..n /\ (f = g => i = j)
      BY <2>2
    <3>2. channels[f] = channels[g]
      BY <2>8
    <3> HIDE DEF f, g
    <3>3. f = g
      BY <2>2, <3>1, <3>2 DEF ListOK, IsInjective
    <3> QED
      BY <3>1, <3>3
  <2>10. Range(channels') = Range(channels) \ {c}
    <3>1. ASSUME NEW i \in 1..n - 1 PROVE channels'[i] \in Range(channels) \ {c}
      <4> DEFINE f == IF i < k THEN i ELSE i + 1
      <4>1. f \in 1..n /\ f # k
        BY <2>2
      <4>2. channels'[i] = channels[f]
        BY <2>8
      <4> HIDE DEF f
      <4>3. channels[f] # channels[k]
        BY <2>2, <4>1 DEF ListOK, IsInjective
      <4> QED
        BY <2>1, <2>2, <4>1, <4>2, <4>3 DEF Range
    <3>2. ASSUME NEW f \in 1..n, channels[f] # c PROVE channels[f] \in Range(channels')
      <4> DEFINE i == IF f < k THEN f ELSE f - 1
      <4>1. f # k
        BY <2>1, <3>2
      <4>2. i \in 1..n - 1 /\ (IF i < k THEN i ELSE i + 1) = f
        BY <2>2, <4>1
      <4>3. channels'[i] = channels[IF i < k THEN i ELSE i + 1]
        BY <2>8, <4>2
      <4> HIDE DEF i
      <4> QED
        BY <2>7, <4>2, <4>3 DEF Range
    <3> QED
      BY <2>2, <2>7, <3>1, <3>2 DEF Range
  <2> QED
    BY <2>6, <2>9, <2>10 DEF ListOK, Listed
<1> QED
  BY <1>1, <1>2 DEF irc_server_channels_remove

\* A line about a channel names one.
Typed(q) ==
    \A m \in Range(q) : m.cmd \in {"INVITE", "JOIN", "KICK", "PART", "MODE", "353"}
        => "ch" \in DOMAIN m /\ m.ch \in Channels

\* irc_server_send keeps what waits, adds nothing else, and has the line sent
\* or refused when the connection is up.
LEMMA SendFrame ==
    ASSUME NEW s, IsSeq(s), Typed(s), IsSeq(outq), Typed(outq), irc_server_send(s)
    PROVE  /\ IsSeq(outq') /\ Typed(outq')
           /\ Range(outq) \subseteq Range(outq')
           /\ link' = link \/ (link = "lost" /\ link' = "dead")
           /\ link = "up" => \A m \in Range(s) :
                 m \in Range(outq') \/ (m.cmd = "JOIN" => m.ch \in Refused(outq, s))
<1>1. CASE s = <<>> \/ ~Ready
  <2>1. outq' = outq /\ link' = link
    BY <1>1 DEF irc_server_send, Ready
  <2>2. link = "up" => Range(s) = {}
    BY <1>1, EmptyQueue DEF Ready
  <2> QED
    BY <2>1, <2>2
<1>2. CASE s # <<>> /\ link = "up" /\ outq' = Pushed(outq, s) /\ UNCHANGED link
  <2>1. /\ IsSeq(outq') /\ Range(outq) \subseteq Range(outq')
        /\ Range(outq') \subseteq Range(outq) \cup Range(s)
        /\ \A k \in DOMAIN s : k <= OutCap - Len(outq) => s[k] \in Range(outq')
    BY <1>2, PushedQueue
  <2>2. Typed(outq')
    BY <2>1 DEF Typed
  <2>3. ASSUME NEW m \in Range(s), m.cmd = "JOIN", m \notin Range(outq')
        PROVE  m.ch \in Refused(outq, s)
    <3>1. PICK k \in DOMAIN s : s[k] = m
      BY DEF Range
    <3>2. k \in Nat /\ Len(outq) \in Nat /\ OutCap \in Nat
      BY QueueDomain, ServerAssumption
    <3>3. k > OutCap - Len(outq)
      BY <2>1, <2>3, <3>1, <3>2
    <3> QED
      BY <2>3, <3>1, <3>3 DEF Refused
  <2> QED
    BY <1>2, <2>1, <2>2, <2>3
<1>3. CASE s # <<>> /\ link = "lost" /\ link' = "dead" /\ UNCHANGED outq
  BY <1>3
<1> QED
  BY <1>1, <1>2, <1>3 DEF irc_server_send

\* A single line to send.
LEMMA OneLine ==
    ASSUME NEW m
    PROVE  IsSeq(<<m>>) /\ Range(<<m>>) = {m}
<1>1. DOMAIN <<m>> = {1} /\ <<m>>[1] = m /\ <<m>> \in Seq({m})
  OBVIOUS
<1>2. Range(<<m>>) = {m}
  BY <1>1, Zenon DEF Range
<1> QED
  BY <1>1, <1>2 DEF IsSeq

\* The lines irc_server_join sends.
LEMMA JoinSent ==
    ASSUME NEW c \in Channels, NEW j
    PROVE  /\ IsSeq(JoinLines(c, j)) /\ Typed(JoinLines(c, j))
           /\ c \notin j /\ Ready => ChLine("JOIN", c) \in Range(JoinLines(c, j))
<1>1. IsSeq(<<>>) /\ Typed(<<>>)
  BY EmptyQueue DEF Typed
<1>2. /\ IsSeq(<<ChLine("JOIN", c)>>) /\ Range(<<ChLine("JOIN", c)>>) = {ChLine("JOIN", c)}
  BY OneLine
<1>3. Typed(<<ChLine("JOIN", c)>>)
  BY <1>2 DEF Typed, ChLine
<1> QED
  BY <1>1, <1>2, <1>3 DEF JoinLines

\* The lines irc_server_handle_connect sends.
LEMMA ConnectSent ==
    ASSUME ListOK, NEW todo \in ConnectJoins, NEW s, s = [i \in DOMAIN todo |-> ChLine("JOIN", todo[i])]
    PROVE  /\ IsSeq(s) /\ Typed(s)
           /\ \A c \in Listed \ joined : ChLine("JOIN", c) \in Range(s)
<1>1. PICK n \in 0..Len(channels) : todo \in [1..n -> Listed \ joined]
  BY DEF ConnectJoins
<1>2. Range(todo) = Listed \ joined
  BY DEF ConnectJoins
<1>3. Listed \subseteq Channels
  BY RangeOfSeq DEF ListOK, Listed
<1>4. n \in Nat /\ DOMAIN s = 1..n /\ \A i \in 1..n : s[i] = ChLine("JOIN", todo[i])
  <2>1. n \in Nat
    BY LenProperties DEF ListOK
  <2> QED
    BY <1>1, <2>1
<1>5. s \in [1..n -> Range(s)]
  <2>1. s = [i \in 1..n |-> ChLine("JOIN", todo[i])]
    BY <1>1
  <2>2. \A i \in 1..n : ChLine("JOIN", todo[i]) \in Range(s)
    BY <1>4 DEF Range
  <2> QED
    BY <2>1, <2>2
<1>6. IsSeq(s)
  BY <1>4, <1>5, SeqDef DEF IsSeq
<1>7. \A i \in 1..n : todo[i] \in Channels
  BY <1>1, <1>3
<1>8. Typed(s)
  BY <1>4, <1>7 DEF Typed, Range, ChLine
<1>9. \A c \in Listed \ joined : \E i \in 1..n : todo[i] = c
  BY <1>1, <1>2 DEF Range
<1> QED
  BY <1>4, <1>6, <1>8, <1>9 DEF Range

-----------------------------------------------------------------------------
(* What each group of actions does to the two queues.                      *)

\* Only a link that is up carries a registered session, and before the
\* registration only refusals arrive on it.
SessionInv ==
    /\ IsSeq(inq) /\ Typed(inq) /\ IsSeq(outq) /\ Typed(outq) /\ ListOK
    /\ link \in {"off", "down"} => inq = <<>>
    /\ sess = "reg" => link \in {"up", "dead"} /\ real \notin Others
    /\ link = "up" /\ sess # "reg" => \A m \in Range(inq) : m.cmd = "433"
    /\ sess # "reg" => in = {}

\* A handler takes the first line, sends, and knows nothing of the network.
LEMMA HandlerFrame ==
    ASSUME SessionInv, Handlers
    PROVE  /\ inq # <<>> /\ inq' = Tail(inq) /\ link \in {"up", "lost"}
           /\ UNCHANGED <<netVars, flags>>
           /\ link' = link \/ (link' = "dead" /\ sess' = sess)
           /\ IsSeq(outq') /\ Typed(outq') /\ Range(outq) \subseteq Range(outq')
           /\ ListOK'
<1> USE DEF SessionInv
<1>1. \A cmd : Handles(cmd) =>
          inq # <<>> /\ inq' = Tail(inq) /\ link \in {"up", "lost"} /\ Msg = inq[1] /\ Msg.cmd = cmd
                /\ Msg \in Range(inq)
  BY TailQueue DEF Handles, Msg
<1>2. ListOK /\ (UNCHANGED channels => ListOK')
  BY DEF ListOK
<1>3. \A c \in Channels : channels' = irc_server_channels_add(c) => ListOK'
  BY AddOne DEF ListOK
<1> USE DEF netVars
<1>4. CASE irc_server_handle_disconnect
  BY <1>1, <1>2, <1>4 DEF irc_server_handle_disconnect, botVars
<1>5. CASE irc_server_handle_connect
  <2>1. PICK todo \in ConnectJoins : irc_server_send([i \in DOMAIN todo |-> ChLine("JOIN", todo[i])])
    BY <1>5 DEF irc_server_handle_connect
  <2> DEFINE s == [i \in DOMAIN todo |-> ChLine("JOIN", todo[i])]
  <2>2. IsSeq(s) /\ Typed(s)
    BY ConnectSent
  <2> HIDE DEF s
  <2>3. irc_server_send(s)
    BY <2>1 DEF s
  <2> QED
    BY <1>1, <1>2, <1>5, <2>2, <2>3, SendFrame DEF irc_server_handle_connect, botVars
<1>6. CASE irc_server_handle_support
  BY <1>1, <1>2, <1>6 DEF irc_server_handle_support
<1>7. CASE irc_server_handle_invite
  <2> DEFINE s == IF "JOIN_INVITE" \in flags THEN JoinLines(Msg.ch, joined) ELSE <<>>
  <2>1. Msg.ch \in Channels
    BY <1>1, <1>7 DEF irc_server_handle_invite, Typed
  <2>2. IsSeq(s) /\ Typed(s)
    BY <2>1, JoinSent, EmptyQueue DEF Typed
  <2>3. irc_server_send(s)
    BY <1>7 DEF irc_server_handle_invite
  <2> HIDE DEF s
  <2>4. ListOK'
    BY <1>2, <1>3, <1>7, <2>1 DEF irc_server_handle_invite
  <2> QED
    BY <1>1, <1>7, <2>2, <2>3, <2>4, SendFrame DEF irc_server_handle_invite
<1>8. CASE irc_server_handle_join
  <2>1. Msg.ch \in Channels
    BY <1>1, <1>8 DEF irc_server_handle_join, Typed
  <2> QED
    BY <1>1, <1>3, <1>8, <2>1 DEF irc_server_handle_join
<1>9. CASE irc_server_handle_kick
  <2>1. Msg.ch \in Channels
    BY <1>1, <1>9 DEF irc_server_handle_kick, Typed
  <2>2. ListOK'
    BY <1>3, <1>9, <2>1 DEF irc_server_handle_kick
  <2>3. CASE UNCHANGED <<link, outq>>
    BY <1>1, <1>9, <2>2, <2>3 DEF irc_server_handle_kick
  <2>4. ASSUME NEW s, s = IF "AUTO_REJOIN" \in flags THEN JoinLines(Msg.ch, joined') ELSE <<>>,
               irc_server_send(s)
        PROVE  /\ IsSeq(outq') /\ Typed(outq') /\ Range(outq) \subseteq Range(outq')
               /\ link' = link \/ link' = "dead"
    <3>1. IsSeq(s) /\ Typed(s)
      BY <2>1, <2>4, JoinSent, EmptyQueue DEF Typed
    <3> QED
      BY <2>4, <3>1, SendFrame
  <2> QED
    BY <1>1, <1>9, <2>2, <2>3, <2>4 DEF irc_server_handle_kick
<1>10. CASE irc_server_handle_part
  <2>1. ListOK'
    BY <1>2, <1>10, RemoveOne DEF irc_server_handle_part
  <2> QED
    BY <1>1, <1>10, <2>1 DEF irc_server_handle_part
<1>11. CASE irc_server_handle_nick
  BY <1>1, <1>2, <1>11 DEF irc_server_handle_nick
<1>12. CASE irc_server_handle_mode
  BY <1>1, <1>2, <1>12 DEF irc_server_handle_mode
<1>13. CASE irc_server_handle_names
  <2>1. Msg.ch \in Channels
    BY <1>1, <1>13 DEF irc_server_handle_names, Typed
  <2> QED
    BY <1>1, <1>3, <1>13, <2>1 DEF irc_server_handle_names
<1>14. CASE irc_server_handle_ping
  <2>1. IsSeq(<<Line("TEXT")>>) /\ Range(<<Line("TEXT")>>) = {Line("TEXT")}
    BY OneLine
  <2>2. Typed(<<Line("TEXT")>>)
    BY <2>1 DEF Typed, Line
  <2> QED
    BY <1>1, <1>2, <1>14, <2>1, <2>2, SendFrame DEF irc_server_handle_ping, botVars
<1>15. CASE irc_server_handle_event
  BY <1>1, <1>2, <1>15 DEF irc_server_handle_event, botVars
<1>16. CASE irc_server_handle_whoisuser
  BY <1>1, <1>2, <1>16 DEF irc_server_handle_whoisuser
<1>17. CASE irc_server_whois_pull
  BY <1>2, <1>17 DEF irc_server_whois_pull
<1> QED
  BY <1>4, <1>5, <1>6, <1>7, <1>8, <1>9, <1>10, <1>11, <1>12, <1>13, <1>14, <1>15, <1>16, <1>17
  DEF Handlers

\* A call other than irc_server_disconnect leaves the input and the network.
LEMMA CallFrame ==
    ASSUME SessionInv, Calls
    PROVE  \/ irc_server_disconnect
           \/ /\ UNCHANGED <<inq, netVars, flags, joined>>
              /\ IsSeq(outq') /\ Typed(outq') /\ Range(outq) \subseteq Range(outq')
              /\ ListOK'
              /\ \/ link' = link \/ (link' = "dead" /\ link = "lost")
                 \/ link = "off" /\ link' = "down"
              /\ astray \subseteq astray' /\ ("nickname" \in astray <=> "nickname" \in astray')
<1> USE DEF SessionInv, netVars, botVars, histVars
<1>1. ListOK /\ (UNCHANGED channels => ListOK')
  BY DEF ListOK
<1>2. ASSUME NEW c \in Channels, irc_server_join(c)
      PROVE  /\ UNCHANGED <<inq, netVars, flags, joined>>
             /\ IsSeq(outq') /\ Typed(outq') /\ Range(outq) \subseteq Range(outq')
             /\ ListOK'
             /\ link' = link \/ (link' = "dead" /\ link = "lost")
             /\ astray \subseteq astray' /\ ("nickname" \in astray <=> "nickname" \in astray')
  <2>1. ListOK'
    BY <1>2, AddOne DEF irc_server_join, ListOK
  <2>2. IsSeq(JoinLines(c, joined)) /\ Typed(JoinLines(c, joined))
    BY JoinSent
  <2>3. "nickname" \notin Refused(outq, JoinLines(c, joined))
    <3>1. \A k \in DOMAIN JoinLines(c, joined) :
             JoinLines(c, joined)[k].cmd = "JOIN" => JoinLines(c, joined)[k].ch \in Channels
      BY <2>2 DEF Typed, Range
    <3> QED
      BY <3>1, ServerAssumption DEF Refused
  <2> QED
    BY <1>2, <2>1, <2>2, <2>3, SendFrame DEF irc_server_join
<1>3. ASSUME NEW l, IsSeq(<<l>>), Typed(<<l>>), irc_server_part(l)
      PROVE  /\ UNCHANGED <<inq, netVars, flags, joined, astray>>
             /\ IsSeq(outq') /\ Typed(outq') /\ Range(outq) \subseteq Range(outq')
             /\ ListOK'
             /\ link' = link \/ (link' = "dead" /\ link = "lost")
  BY <1>1, <1>3, SendFrame DEF irc_server_part
<1>4. ASSUME NEW n \in Nicks, irc_server_set_nickname(n)
      PROVE  /\ UNCHANGED <<inq, netVars, flags, joined, astray>>
             /\ IsSeq(outq') /\ Typed(outq') /\ Range(outq) \subseteq Range(outq')
             /\ ListOK'
             /\ link' = link \/ (link' = "dead" /\ link = "lost")
  <2> DEFINE l == [cmd |-> "NICK", new |-> n]
  <2>1. IsSeq(<<l>>) /\ Range(<<l>>) = {l}
    BY OneLine
  <2>2. Typed(<<l>>)
    BY <2>1 DEF Typed
  <2> QED
    BY <1>1, <1>4, <2>1, <2>2, SendFrame DEF irc_server_set_nickname
<1>5. ASSUME NEW c \in Channels PROVE IsSeq(<<ChLine("PART", c)>>) /\ Typed(<<ChLine("PART", c)>>)
  <2>1. IsSeq(<<ChLine("PART", c)>>) /\ Range(<<ChLine("PART", c)>>) = {ChLine("PART", c)}
    BY OneLine
  <2> QED
    BY <2>1 DEF Typed, ChLine
<1>6. IsSeq(<<Line("WHOIS")>>) /\ Typed(<<Line("WHOIS")>>)
  <2>1. IsSeq(<<Line("WHOIS")>>) /\ Range(<<Line("WHOIS")>>) = {Line("WHOIS")}
    BY OneLine
  <2> QED
    BY <2>1 DEF Typed, Line
<1>7. CASE irc_server_connect
  BY <1>1, <1>7 DEF irc_server_connect
<1>8. CASE \E c \in Channels : irc_server_join(c)
  BY <1>2, <1>8
<1>9. CASE \E c \in Channels : irc_server_part(ChLine("PART", c))
  BY <1>3, <1>5, <1>9
<1>10. CASE irc_server_part(Line("WHOIS"))
  BY <1>3, <1>6, <1>10
<1>11. CASE \E n \in Nicks : irc_server_set_nickname(n)
  BY <1>4, <1>11
<1> QED
  BY <1>7, <1>8, <1>9, <1>10, <1>11 DEF Calls

\* A line that tells nothing about the bot in a channel or about its nickname.
Plain(m) ==
    \/ m.cmd \in {"PING", "433"}
    \/ m.cmd \in {"INVITE", "MODE"} /\ "ch" \in DOMAIN m /\ m.ch \in Channels
    \/ /\ m.cmd \in {"JOIN", "PART", "KICK"} /\ "ch" \in DOMAIN m /\ m.ch \in in \cap Channels
       /\ m.who \in Others

\* What the network may do to a session and its queue.
Nothing == UNCHANGED <<inq, sess, real, in, astray>>
Refuses ==
    /\ sess # "reg" /\ sess' = "refused"
    /\ inq' = Append(inq, Line("433")) /\ UNCHANGED <<real, in, astray>>
Registers ==
    /\ sess # "reg" /\ sess' = "reg" /\ real' \notin Others
    /\ astray' = IF real' = nickname THEN astray ELSE astray \cup {"nickname"}
    /\ inq' = Append(Append(inq, Line("001")), [cmd |-> "005", prefixes |-> <<"o", "v">>])
    /\ UNCHANGED in
Tells ==
    /\ sess = "reg" /\ UNCHANGED <<sess, real, in>>
    /\ astray' \in {astray, astray \cup {"nickname"}}
    /\ \E m : Plain(m) /\ inq' = Append(inq, m)
TellsTwo ==
    /\ sess = "reg" /\ UNCHANGED <<sess, real, in, astray>>
    /\ inq' = Append(Append(inq, Line("311")), Line("318"))
Renames ==
    /\ sess = "reg" /\ UNCHANGED <<sess, in, astray>> /\ real' \notin Others
    /\ inq' = Append(inq, [cmd |-> "NICK", who |-> real, new |-> real'])
Joining(c) ==
    /\ sess = "reg" /\ c \notin in /\ UNCHANGED <<sess, real, astray>>
    /\ in' = in \cup {c}
    /\ \E m, n : /\ inq' = Append(Append(inq, m), n)
                 /\ m.cmd = "JOIN" /\ m.who = real /\ "ch" \in DOMAIN m /\ m.ch = c
                 /\ n.cmd = "353" /\ "ch" \in DOMAIN n /\ n.ch = c
Leaving(c) ==
    /\ sess = "reg" /\ UNCHANGED <<sess, real, astray>>
    /\ in' = in \ {c}
    /\ \E m : /\ inq' = Append(inq, m)
              /\ m.cmd \in {"PART", "KICK"} /\ m.who = real /\ "ch" \in DOMAIN m /\ m.ch = c

LEMMA NetworkFrame ==
    ASSUME SessionInv, Network
    PROVE  /\ link = "up" /\ link' = "up" /\ UNCHANGED botVars
           /\ outq' = outq \/ (outq # <<>> /\ outq' = Tail(outq))
           /\ \/ Nothing \/ Refuses \/ Registers \/ Tells \/ TellsTwo \/ Renames
              \/ \E c \in Channels : Joining(c) \/ Leaving(c)
           /\ \/ UNCHANGED outq
              \/ ~Joins(Head(outq), Head(outq).ch)
              \/ sess # "reg" \/ Head(outq).ch \in in'
<1> DEFINE Kept == link = "up" /\ link' = "up" /\ UNCHANGED botVars
           Taken == outq # <<>> /\ outq' = Tail(outq)
           Fate == UNCHANGED outq \/ ~Joins(Head(outq), Head(outq).ch)
                     \/ sess # "reg" \/ Head(outq).ch \in in'
<1> USE DEF SessionInv
<1>1. \A cmd : NetReads(cmd) => link = "up" /\ Taken /\ Head(outq).cmd = cmd
                 /\ (cmd \in {"JOIN", "PART"} => Head(outq).ch \in Channels)
  BY TailQueue DEF NetReads, Typed, Range
<1>2. CASE NetRegisters
  <2>1. Kept /\ Taken /\ sess # "reg" /\ UNCHANGED in
    BY <1>1, <1>2 DEF NetRegisters
  <2>2. Refuses \/ Registers
    BY <1>2, <2>1, AppendTwo DEF NetRegisters, Refuses, Registers
  <2> QED
    BY <2>1, <2>2
<1>3. CASE NetNick
  <2>1. Kept /\ Taken /\ sess = "reg" /\ UNCHANGED <<sess, in>> /\ Fate
    BY <1>1, <1>3 DEF NetNick, Joins
  <2>2. Plain(Line("433"))
    BY DEF Plain, Line
  <2>3. Tells \/ Renames
    BY <1>3, <2>1, <2>2 DEF NetNick, Tells, Renames
  <2> QED
    BY <2>1, <2>3
<1>4. CASE NetJoin
  <2> DEFINE c == Head(outq).ch
             m == [cmd |-> "JOIN", who |-> real, ch |-> c]
             n == [cmd |-> "353", ch |-> c, names |-> members[c] \cup {real}, voiced |-> netvoice[c]]
  <2>1. Kept /\ Taken /\ c \in Channels /\ in' = in \cup {c}
    BY <1>1, <1>4 DEF NetJoin
  <2>2. inq' = Append(Append(inq, m), n)
    BY <1>4, AppendTwo DEF NetJoin
  <2>3. /\ m.cmd = "JOIN" /\ m.who = real /\ "ch" \in DOMAIN m /\ m.ch = c
        /\ n.cmd = "353" /\ "ch" \in DOMAIN n /\ n.ch = c
    OBVIOUS
  <2> HIDE DEF m, n
  <2>4. sess = "reg" /\ c \notin in /\ UNCHANGED <<sess, real, astray>>
    BY <1>4 DEF NetJoin
  <2>5. Joining(c)
    BY <2>1, <2>2, <2>3, <2>4 DEF Joining
  <2> QED
    BY <2>1, <2>5
<1>5. CASE NetPart
  <2> DEFINE c == Head(outq).ch
             m == [cmd |-> "PART", who |-> real, ch |-> c]
  <2>1. Kept /\ Taken /\ c \in Channels /\ Fate
    BY <1>1, <1>5 DEF NetPart, Joins
  <2>2. inq' = Append(inq, m) /\ in' = in \ {c} /\ sess = "reg" /\ UNCHANGED <<sess, real, astray>>
    BY <1>5 DEF NetPart, histVars
  <2>3. m.cmd = "PART" /\ m.who = real /\ "ch" \in DOMAIN m /\ m.ch = c
    OBVIOUS
  <2> HIDE DEF m
  <2>4. Leaving(c)
    BY <2>2, <2>3 DEF Leaving
  <2> QED
    BY <2>1, <2>4
<1>6. CASE NetWhois
  <2>1. Kept /\ Taken /\ Fate
    BY <1>1, <1>6 DEF NetWhois, Joins
  <2>2. TellsTwo
    BY <1>6, AppendTwo DEF NetWhois, TellsTwo, netVars, histVars
  <2> QED
    BY <2>1, <2>2
<1>7. CASE NetIgnores
  <2>1. Kept /\ Taken /\ Nothing
    BY <1>1, <1>7 DEF NetIgnores, Nothing, netVars, histVars
  <2>2. Fate
    BY <1>1, <1>7 DEF NetIgnores, Joins, netVars
  <2> QED
    BY <2>1, <2>2
<1>8. ASSUME NEW m, Plain(m), NetSends(m), UNCHANGED in
      PROVE  Kept /\ UNCHANGED outq /\ Tells
  BY <1>8 DEF NetSends, Tells
<1>9. CASE NetText
  <2>1. Plain(Line("PING"))
    BY DEF Plain, Line
  <2>2. \A c \in Channels : Plain(ChLine("INVITE", c))
    BY DEF Plain, ChLine
  <2> QED
    BY <1>8, <1>9, <2>1, <2>2 DEF NetText
<1>10. ASSUME NEW c \in Channels, NetKicksBot(c)
       PROVE  Kept /\ UNCHANGED outq /\ Leaving(c)
  <2> DEFINE m == [cmd |-> "KICK", who |-> real, ch |-> c]
  <2>1. m.cmd = "KICK" /\ m.who = real /\ "ch" \in DOMAIN m /\ m.ch = c
    OBVIOUS
  <2>2. /\ link = "up" /\ sess = "reg" /\ inq' = Append(inq, m) /\ in' = in \ {c}
        /\ UNCHANGED <<link, botVars, outq, sess, real, astray>>
    BY <1>10 DEF NetKicksBot, NetSends
  <2> HIDE DEF m
  <2> QED
    BY <2>1, <2>2 DEF Leaving
<1>11. ASSUME NEW c \in Channels, NEW u \in Others, NetUserJoins(c, u)
       PROVE  Kept /\ UNCHANGED outq /\ Tells
  <2>1. Plain([cmd |-> "JOIN", who |-> u, ch |-> c])
    BY <1>11 DEF Plain, NetUserJoins
  <2> QED
    BY <1>8, <1>11, <2>1 DEF NetUserJoins
<1>12. ASSUME NEW c \in Channels, NEW u \in Others, NEW cmd \in {"PART", "KICK"}, NetUserLeaves(c, u, cmd)
       PROVE  Kept /\ UNCHANGED outq /\ Tells
  <2>1. Plain([cmd |-> cmd, who |-> u, ch |-> c])
    BY <1>12 DEF Plain, NetUserLeaves
  <2> QED
    BY <1>8, <1>12, <2>1 DEF NetUserLeaves
<1>13. ASSUME NEW c \in Channels, NEW u \in Others, NEW add \in BOOLEAN, NEW s \in ModeStrings,
              NetMode(c, u, add, s)
       PROVE  Kept /\ UNCHANGED outq /\ Tells
  <2>1. PICK a : NetSends([cmd |-> "MODE", ch |-> c, add |-> add, letters |-> s, args |-> a])
    BY <1>13 DEF NetMode
  <2>2. Plain([cmd |-> "MODE", ch |-> c, add |-> add, letters |-> s, args |-> a])
    BY DEF Plain
  <2> QED
    BY <1>8, <1>13, <2>1, <2>2 DEF NetMode
<1>14. CASE \E c \in Channels :
               \/ NetKicksBot(c)
               \/ \E u \in Others :
                     \/ NetUserJoins(c, u)
                     \/ \E cmd \in {"PART", "KICK"} : NetUserLeaves(c, u, cmd)
                     \/ \E add \in BOOLEAN, s \in ModeStrings : NetMode(c, u, add, s)
  BY <1>10, <1>11, <1>12, <1>13, <1>14
<1> QED
  BY <1>2, <1>3, <1>4, <1>5, <1>6, <1>7, <1>9, <1>14 DEF Network, NetAnswers

-----------------------------------------------------------------------------
(* SessionInv is inductive.                                                *)

LEMMA SessionInit == Init => SessionInv
<1> SUFFICES ASSUME Init PROVE SessionInv
  OBVIOUS
<1>1. IsSeq(<<>>) /\ Typed(<<>>)
  BY EmptyQueue DEF Typed
<1>2. ListOK
  <2>1. DOMAIN channels = {} /\ channels \in Seq(Channels)
    BY EmptyQueue, EmptySeq DEF Init
  <2> QED
    BY <2>1 DEF ListOK, IsInjective
<1> QED
  BY <1>1, <1>2 DEF Init, SessionInv

\* What ConnLost leaves of the input is a beginning of it, and a 000.
LEMMA LostInput ==
    ASSUME SessionInv, ConnLost
    PROVE  /\ IsSeq(inq')
           /\ \A m \in Range(inq') : m \in Range(inq) \/ m = Line("000")
<1>1. PICK n \in 0..(IF inq = <<>> THEN 0 ELSE 1) :
        inq' = SubSeq(inq, 1, n) \/ inq' = Append(SubSeq(inq, 1, n), Line("000"))
  BY DEF ConnLost
<1>2. IsSeq(inq)
  BY DEF SessionInv
<1>3. Len(inq) \in Nat /\ (inq # <<>> => Len(inq) # 0)
  BY <1>2, QueueDomain, EmptySeq DEF IsSeq
<1>4. n \in Int /\ n <= Len(inq)
  BY <1>3
<1> DEFINE p == SubSeq(inq, 1, n)
<1>5. IsSeq(p) /\ Range(p) \subseteq Range(inq)
  BY <1>2, <1>4, PrefixQueue
<1> HIDE DEF p
<1>6. IsSeq(Append(p, Line("000"))) /\ Range(Append(p, Line("000"))) = Range(p) \cup {Line("000")}
  BY <1>5, AppendQueue
<1>7. inq' = p \/ inq' = Append(p, Line("000"))
  BY <1>1 DEF p
<1> QED
  BY <1>5, <1>6, <1>7

LEMMA SessionStep == SessionInv /\ [Next]_vars => SessionInv'
<1> SUFFICES ASSUME SessionInv, [Next]_vars PROVE SessionInv'
  OBVIOUS
<1> USE DEF SessionInv
<1>1. CASE Handlers
  <2>1. IsSeq(Tail(inq)) /\ Range(Tail(inq)) \subseteq Range(inq)
    BY <1>1, HandlerFrame, TailQueue
  <2>2. Typed(inq')
    BY <1>1, <2>1, HandlerFrame DEF Typed
  <2> QED
    BY <1>1, <2>1, <2>2, HandlerFrame DEF netVars
<1>2. CASE Calls
  <2>1. CASE irc_server_disconnect
    <3>1. IsSeq(<<>>) /\ Typed(<<>>)
      BY EmptyQueue DEF Typed
    <3> QED
      BY <2>1, <3>1 DEF irc_server_disconnect, NoSession, ListOK
  <2>2. CASE ~irc_server_disconnect
    BY <1>2, <2>2, CallFrame DEF netVars, Typed
  <2> QED
    BY <2>1, <2>2
<1>3. CASE ConnUp
  <2> DEFINE l == [cmd |-> "USER", new |-> nickname]
  <2>1. IsSeq(<<l>>) /\ Range(<<l>>) = {l}
    BY OneLine
  <2>2. IsSeq(outq') /\ Range(outq') \subseteq Range(outq) \cup {l}
    BY <1>3, <2>1, PushedQueue DEF ConnUp
  <2>3. Typed(outq')
    BY <2>2 DEF Typed
  <2>4. inq = <<>> /\ Range(inq) = {}
    BY <1>3, EmptyQueue DEF ConnUp
  <2> QED
    BY <1>3, <2>2, <2>3, <2>4 DEF ConnUp, netVars, botVars, ListOK
<1>4. CASE ConnLost
  <2>1. Typed(inq')
    BY <1>4, LostInput DEF Typed, Line
  <2> QED
    BY <1>4, <2>1, LostInput DEF ConnLost, NoSession, botVars, ListOK
<1>5. CASE ConnRetry
  BY <1>5 DEF ConnRetry, netVars, botVars, ListOK
<1>6. CASE Network
  <2>1. IsSeq(outq') /\ Typed(outq') /\ ListOK'
    BY <1>6, NetworkFrame, TailQueue DEF Typed, botVars, ListOK
  <2>2. ASSUME NEW m, m.cmd \in {"INVITE", "JOIN", "KICK", "PART", "MODE", "353"}
                        => "ch" \in DOMAIN m /\ m.ch \in Channels
        PROVE  IsSeq(Append(inq, m)) /\ Typed(Append(inq, m))
    BY <2>2, AppendQueue DEF Typed
  <2>3. ASSUME NEW m, NEW n,
               m.cmd \in {"INVITE", "JOIN", "KICK", "PART", "MODE", "353"}
                        => "ch" \in DOMAIN m /\ m.ch \in Channels,
               n.cmd \in {"INVITE", "JOIN", "KICK", "PART", "MODE", "353"}
                        => "ch" \in DOMAIN n /\ n.ch \in Channels
        PROVE  IsSeq(Append(Append(inq, m), n)) /\ Typed(Append(Append(inq, m), n))
    <3>1. IsSeq(Append(inq, m)) /\ Typed(Append(inq, m))
      BY <2>2, <2>3
    <3> HIDE DEF SessionInv
    <3> QED
      BY <3>1, <2>3, AppendQueue DEF Typed
  <2>4. link = "up" /\ link' = "up"
    BY <1>6, NetworkFrame
  <2>5. CASE Nothing
    BY <2>1, <2>4, <2>5 DEF Nothing, Typed
  <2>6. CASE Refuses
    <3>1. Range(inq') = Range(inq) \cup {Line("433")} /\ IsSeq(inq')
      BY <2>6, AppendQueue DEF Refuses
    <3> QED
      BY <2>1, <2>4, <2>6, <3>1 DEF Refuses, Line, Typed
  <2>7. CASE Registers
    <3>1. IsSeq(inq') /\ Typed(inq')
      BY <2>3, <2>7 DEF Registers, Line
    <3> QED
      BY <2>1, <2>4, <2>7, <3>1 DEF Registers
  <2>8. CASE Tells
    <3>1. PICK m : Plain(m) /\ inq' = Append(inq, m)
      BY <2>8 DEF Tells
    <3>2. IsSeq(inq') /\ Typed(inq')
      BY <2>2, <3>1 DEF Plain
    <3> QED
      BY <2>1, <2>4, <2>8, <3>2 DEF Tells
  <2>9. CASE TellsTwo
    <3>1. IsSeq(inq') /\ Typed(inq')
      BY <2>3, <2>9 DEF TellsTwo, Line
    <3> QED
      BY <2>1, <2>4, <2>9, <3>1 DEF TellsTwo
  <2>10. CASE Renames
    <3>1. IsSeq(inq') /\ Typed(inq')
      BY <2>2, <2>10 DEF Renames
    <3> QED
      BY <2>1, <2>4, <2>10, <3>1 DEF Renames
  <2>11. ASSUME NEW c \in Channels, Joining(c) PROVE SessionInv'
    <3>1. IsSeq(inq') /\ Typed(inq')
      BY <2>3, <2>11 DEF Joining
    <3> QED
      BY <2>1, <2>4, <2>11, <3>1 DEF Joining
  <2>12. ASSUME NEW c \in Channels, Leaving(c) PROVE SessionInv'
    <3>1. IsSeq(inq') /\ Typed(inq')
      BY <2>2, <2>12 DEF Leaving
    <3> QED
      BY <2>1, <2>4, <2>12, <3>1 DEF Leaving
  <2> QED
    BY <1>6, <2>5, <2>6, <2>7, <2>8, <2>9, <2>10, <2>11, <2>12, NetworkFrame
<1>7. CASE UNCHANGED vars
  BY <1>7 DEF vars, netVars, botVars, ListOK, Typed
<1> QED
  BY <1>1, <1>2, <1>3, <1>4, <1>5, <1>6, <1>7 DEF Next

-----------------------------------------------------------------------------
(* The nickname: irc_server_handle_nick against the lines under way.       *)

NickInv == sess = "reg" /\ "nickname" \notin astray => Chain(inq, nickname, real)

\* Only the NICK of the bot's own nickname changes it, and a NICK that the loop
\* of a WHOIS drops is not forgotten.
LEMMA HandlerNick ==
    ASSUME SessionInv, Extends = {}, Handlers, "nickname" \notin astray'
    PROVE  /\ "nickname" \notin astray
           /\ nickname' = IF inq[1].cmd = "NICK" /\ inq[1].who = nickname
                          THEN inq[1].new ELSE nickname
<1> USE DEF SessionInv
<1>1. inq # <<>> /\ Msg = inq[1] /\ Msg \in Range(inq)
  BY HandlerFrame, TailQueue DEF Msg
<1>2. Msg.cmd \in {"JOIN", "KICK", "PART"} => Msg.ch # "nickname"
  BY <1>1, ServerAssumption DEF Typed
<1>3. CASE irc_server_handle_disconnect
  BY <1>1, <1>3 DEF irc_server_handle_disconnect, Handles, botVars, histVars
<1>4. CASE irc_server_handle_connect
  BY <1>1, <1>4 DEF irc_server_handle_connect, Handles, botVars
<1>5. CASE irc_server_handle_support
  BY <1>1, <1>5 DEF irc_server_handle_support, Handles, histVars
<1>6. CASE irc_server_handle_invite
  BY <1>1, <1>6 DEF irc_server_handle_invite, Handles
<1>7. CASE irc_server_handle_join
  BY <1>1, <1>2, <1>7 DEF irc_server_handle_join, Handles, Settled
<1>8. CASE irc_server_handle_kick
  <2>1. Msg.cmd = "KICK" /\ nickname' = nickname
    BY <1>8 DEF irc_server_handle_kick, Handles
  <2>2. astray' = astray \/ \E r : astray' = (astray \ Settled(TRUE)) \cup r
    BY <1>8 DEF irc_server_handle_kick
  <2>3. "nickname" \notin Settled(TRUE)
    BY <1>2, <2>1 DEF Settled
  <2> QED
    BY <1>1, <2>1, <2>2, <2>3
<1>9. CASE irc_server_handle_part
  <2>1. Msg.cmd = "PART" /\ nickname' = nickname
    BY <1>9 DEF irc_server_handle_part, Handles
  <2>2. astray' = astray \/ astray' = astray \ Settled(TRUE)
    BY <1>9 DEF irc_server_handle_part
  <2>3. "nickname" \notin Settled(TRUE)
    BY <1>2, <2>1 DEF Settled
  <2> QED
    BY <1>1, <2>1, <2>2, <2>3
<1>10. CASE irc_server_handle_nick
  BY <1>1, <1>10 DEF irc_server_handle_nick, Renamed, Handles, histVars, irc_server_is_self
<1>11. CASE irc_server_handle_mode
  BY <1>1, <1>11 DEF irc_server_handle_mode, Handles, histVars
<1>12. CASE irc_server_handle_names
  BY <1>1, <1>12 DEF irc_server_handle_names, Handles, histVars
<1>13. CASE irc_server_handle_ping
  BY <1>1, <1>13 DEF irc_server_handle_ping, Handles, botVars, histVars
<1>14. CASE irc_server_handle_event
  BY <1>1, <1>14 DEF irc_server_handle_event, Handles, botVars, histVars
<1>15. CASE irc_server_handle_whoisuser
  BY <1>1, <1>15 DEF irc_server_handle_whoisuser, Handles, histVars
<1>16. CASE irc_server_whois_pull
  <2>1. Msg.cmd # "NICK"
    BY <1>16 DEF irc_server_whois_pull
  <2> QED
    BY <1>1, <1>16, <2>1 DEF irc_server_whois_pull
<1> QED
  BY <1>3, <1>4, <1>5, <1>6, <1>7, <1>8, <1>9, <1>10, <1>11, <1>12, <1>13, <1>14, <1>15, <1>16
  DEF Handlers

\* A call that changes the nickname at once is made out of a session.
LEMMA CallNick ==
    ASSUME SessionInv, Calls, sess = "reg", sess' = "reg"
    PROVE  UNCHANGED nickname
<1> USE DEF SessionInv
<1>1. ASSUME NEW n \in Nicks, irc_server_set_nickname(n) PROVE UNCHANGED nickname
  BY <1>1 DEF irc_server_set_nickname, Alive, NicknameAfter, Ready
<1>2. CASE irc_server_disconnect
  BY <1>2 DEF irc_server_disconnect
<1>3. CASE irc_server_connect
  BY <1>3 DEF irc_server_connect, botVars
<1> QED
  BY <1>1, <1>2, <1>3 DEF Calls, irc_server_join, irc_server_part, botVars

\* Before the registration only refusals arrived, which name nobody.
LEMMA ChainNew ==
    ASSUME NEW q, IsSeq(q), NEW n, n \notin Others, \A m \in Range(q) : m.cmd = "433"
    PROVE  Chain(q, n, n)
<1>1. \A i \in DOMAIN q : q[i].cmd = "433"
  BY DEF Range
<1>2. GoesBy(q, n, Len(q) + 1, n)
  BY <1>1 DEF GoesBy
<1> QED
  BY <1>1, <1>2 DEF Chain

LEMMA NickStep == SessionInv /\ Extends = {} /\ NickInv /\ [Next]_vars => NickInv'
<1> SUFFICES ASSUME SessionInv, Extends = {}, NickInv, [Next]_vars,
                    sess' = "reg", "nickname" \notin astray'
             PROVE  Chain(inq', nickname', real')
  BY DEF NickInv
<1>0. IsSeq(inq)
  BY DEF SessionInv
<1>1. CASE Handlers
  <2>1. sess = "reg" /\ real' = real /\ inq # <<>> /\ inq' = Tail(inq)
    BY <1>1, HandlerFrame DEF netVars
  <2>2. Chain(inq, nickname, real)
    BY <1>1, <2>1, HandlerNick DEF NickInv
  <2>3. nickname' = IF inq[1].cmd = "NICK" THEN inq[1].new ELSE nickname
    BY <1>0, <1>1, <2>1, <2>2, HandlerNick, ChainTail
  <2> QED
    BY <1>0, <2>1, <2>2, <2>3, ChainTail
<1>2. CASE Calls
  <2>1. ~irc_server_disconnect
    BY DEF irc_server_disconnect, NoSession
  <2>2. UNCHANGED <<inq, sess, real>> /\ ("nickname" \in astray <=> "nickname" \in astray')
    BY <1>2, <2>1, CallFrame DEF netVars
  <2> QED
    BY <1>2, <2>2, CallNick DEF NickInv
<1>3. CASE ConnUp \/ ConnRetry
  BY <1>3 DEF ConnUp, ConnRetry, SessionInv, netVars
<1>4. CASE ConnLost
  BY <1>4 DEF ConnLost, NoSession
<1>5. CASE Network
  <2>1. nickname' = nickname
    BY <1>5, NetworkFrame DEF botVars
  <2>2. CASE Nothing
    BY <2>1, <2>2 DEF Nothing, NickInv
  <2>3. CASE Refuses
    BY <2>3 DEF Refuses
  <2>4. CASE Registers
    <3>1. real' = nickname /\ nickname \notin Others
      BY <2>4 DEF Registers
    <3>2. \A m \in Range(inq) : m.cmd = "433"
      BY <1>5, <2>4, NetworkFrame DEF Registers, SessionInv
    <3>3. Chain(inq, nickname, nickname)
      BY <1>0, <3>1, <3>2, ChainNew
    <3>4. IsSeq(Append(inq, Line("001"))) /\ Chain(Append(inq, Line("001")), nickname, nickname)
      BY <1>0, <3>3, AppendQueue, ChainAppend DEF Line
    <3>5. Chain(inq', nickname, nickname)
      BY <2>4, <3>4, ChainAppend DEF Registers
    <3> QED
      BY <2>1, <3>1, <3>5
  <2>5. CASE Tells
    <3>1. PICK m : Plain(m) /\ inq' = Append(inq, m)
      BY <2>5 DEF Tells
    <3>2. Chain(inq, nickname, real) /\ real' = real
      BY <2>5 DEF Tells, NickInv
    <3> QED
      BY <1>0, <2>1, <3>1, <3>2, ChainAppend DEF Plain
  <2>6. CASE TellsTwo
    <3>1. Chain(inq, nickname, real) /\ real' = real
      BY <2>6 DEF TellsTwo, NickInv
    <3>2. IsSeq(Append(inq, Line("311"))) /\ Chain(Append(inq, Line("311")), nickname, real)
      BY <1>0, <3>1, AppendQueue, ChainAppend DEF Line
    <3>3. Chain(Append(Append(inq, Line("311")), Line("318")), nickname, real)
      BY <3>2, ChainAppend DEF Line
    <3> QED
      BY <2>1, <2>6, <3>1, <3>3 DEF TellsTwo
  <2>7. CASE Renames
    <3> DEFINE m == [cmd |-> "NICK", who |-> real, new |-> real']
    <3>1. Chain(inq, nickname, real) /\ real \notin Others /\ real' \notin Others /\ inq' = Append(inq, m)
      BY <2>7 DEF Renames, NickInv, SessionInv
    <3>2. m.cmd = "NICK" /\ m.who = real /\ m.new = real'
      OBVIOUS
    <3> HIDE DEF m
    <3> QED
      BY <1>0, <2>1, <3>1, <3>2, ChainAppend
  <2>8. ASSUME NEW c \in Channels, Joining(c) PROVE Chain(inq', nickname', real')
    <3>1. Chain(inq, nickname, real) /\ real' = real
      BY <2>8 DEF Joining, NickInv
    <3>2. PICK m, n : /\ inq' = Append(Append(inq, m), n)
                      /\ m.cmd = "JOIN" /\ n.cmd = "353"
      BY <2>8 DEF Joining
    <3>3. IsSeq(Append(inq, m)) /\ Chain(Append(inq, m), nickname, real)
      BY <1>0, <3>1, <3>2, AppendQueue, ChainAppend
    <3> QED
      BY <2>1, <3>1, <3>2, <3>3, ChainAppend
  <2>9. ASSUME NEW c \in Channels, Leaving(c) PROVE Chain(inq', nickname', real')
    <3>1. Chain(inq, nickname, real) /\ real' = real
      BY <2>9 DEF Leaving, NickInv
    <3>2. PICK m : inq' = Append(inq, m) /\ m.cmd \in {"PART", "KICK"} /\ m.who = real
      BY <2>9 DEF Leaving
    <3> QED
      BY <1>0, <2>1, <3>1, <3>2, ChainAppend
  <2> QED
    BY <1>5, <2>2, <2>3, <2>4, <2>5, <2>6, <2>7, <2>8, <2>9, NetworkFrame
<1>6. CASE UNCHANGED vars
  BY <1>6 DEF vars, netVars, botVars, histVars, NickInv
<1> QED
  BY <1>1, <1>2, <1>3, <1>4, <1>5, <1>6 DEF Next

-----------------------------------------------------------------------------
(* The channels the bot is in against the lines under way.                 *)

NetInv ==
    sess = "reg" => \A c \in Channels :
        LastSays(inq, c, c \in in) /\ (c \in in => Rejoins(inq, c))

LEMMA NetStep == SessionInv /\ NetInv /\ [Next]_vars => NetInv'
<1> SUFFICES ASSUME SessionInv, NetInv, [Next]_vars, sess' = "reg", NEW c \in Channels
             PROVE  LastSays(inq', c, c \in in') /\ (c \in in' => Rejoins(inq', c))
  BY DEF NetInv
<1>0. IsSeq(inq) /\ (c \in in) \in BOOLEAN /\ (c \in in') \in BOOLEAN
  BY DEF SessionInv
<1>1. CASE Handlers
  <2>1. sess = "reg" /\ in' = in /\ inq # <<>> /\ inq' = Tail(inq)
    BY <1>1, HandlerFrame DEF netVars
  <2> QED
    <3>1. LastSays(inq, c, c \in in) /\ (c \in in => Rejoins(inq, c))
      BY <2>1 DEF NetInv
    <3>2. LastSays(Tail(inq), c, c \in in)
      BY <1>0, <2>1, <3>1, LastSaysTail
    <3>3. c \in in => Rejoins(Tail(inq), c)
      BY <1>0, <2>1, <3>1, RejoinsTail
    <3> QED
      BY <2>1, <3>2, <3>3
<1>2. CASE Calls
  <2>1. ~irc_server_disconnect
    BY DEF irc_server_disconnect, NoSession
  <2> QED
    BY <1>2, <2>1, CallFrame DEF netVars, NetInv
<1>3. CASE ConnUp \/ ConnRetry
  BY <1>3 DEF ConnUp, ConnRetry, SessionInv, netVars
<1>4. CASE ConnLost
  BY <1>4 DEF ConnLost, NoSession
<1>5. CASE Network
  <2>1. ASSUME NEW q, IsSeq(q), NEW m, ~Changes(m, c), NEW is \in BOOLEAN,
               LastSays(q, c, is), is => Rejoins(q, c)
        PROVE  /\ IsSeq(Append(q, m))
               /\ LastSays(Append(q, m), c, is) /\ (is => Rejoins(Append(q, m), c))
    BY <2>1, AppendQueue, LastSaysAppend, RejoinsAppend DEF Changes, Leaves
  <2>2. CASE Nothing
    BY <2>2 DEF Nothing, NetInv
  <2>3. CASE Refuses
    BY <2>3 DEF Refuses
  <2>4. CASE Registers
    <3>1. in = {} /\ in' = {} /\ \A m \in Range(inq) : m.cmd = "433"
      BY <1>5, <2>4, NetworkFrame DEF Registers, SessionInv
    <3>2. LastSays(inq, c, c \in in) /\ c \notin in
      BY <3>1 DEF LastSays, Changes, Range
    <3>3. ~Changes(Line("001"), c) /\ ~Changes([cmd |-> "005", prefixes |-> <<"o", "v">>], c)
      BY DEF Changes, Line
    <3>4. IsSeq(Append(inq, Line("001"))) /\ LastSays(Append(inq, Line("001")), c, c \in in)
      BY <1>0, <3>2, <3>3, <2>1
    <3>5. LastSays(inq', c, c \in in)
      BY <1>0, <2>4, <3>2, <3>3, <3>4, <2>1 DEF Registers
    <3> QED
      BY <3>1, <3>5
  <2>5. CASE Tells
    <3>1. PICK m : Plain(m) /\ inq' = Append(inq, m)
      BY <2>5 DEF Tells
    <3>2. /\ LastSays(inq, c, c \in in) /\ (c \in in => Rejoins(inq, c)) /\ in' = in
      BY <2>5 DEF Tells, NetInv
    <3>3. ~Leaves(m, c) /\ (Changes(m, c) => c \in in)
      BY <3>1 DEF Plain, Leaves, Changes
    <3>4. LastSays(inq', c, c \in in)
      BY <1>0, <3>1, <3>2, <3>3, LastSaysAppend
    <3>5. c \in in => Rejoins(inq', c)
      BY <1>0, <3>1, <3>2, <3>3, RejoinsAppend
    <3> QED
      BY <3>2, <3>4, <3>5
  <2>6. CASE TellsTwo
    <3>1. /\ LastSays(inq, c, c \in in) /\ (c \in in => Rejoins(inq, c)) /\ in' = in
      BY <2>6 DEF TellsTwo, NetInv
    <3>2. ~Changes(Line("311"), c) /\ ~Changes(Line("318"), c)
      BY DEF Changes, Line
    <3> DEFINE p == Append(inq, Line("311"))
    <3>3. IsSeq(p) /\ LastSays(p, c, c \in in) /\ (c \in in => Rejoins(p, c))
      BY <1>0, <3>1, <3>2, <2>1
    <3>4. inq' = Append(p, Line("318"))
      BY <2>6 DEF TellsTwo
    <3> HIDE DEF p
    <3>5. LastSays(inq', c, c \in in) /\ (c \in in => Rejoins(inq', c))
      BY <1>0, <3>2, <3>3, <3>4, <2>1
    <3> QED
      BY <3>1, <3>5
  <2>7. CASE Renames
    <3>1. /\ LastSays(inq, c, c \in in) /\ (c \in in => Rejoins(inq, c)) /\ in' = in
      BY <2>7 DEF Renames, NetInv
    <3>2. ~Changes([cmd |-> "NICK", who |-> real, new |-> real'], c)
      BY DEF Changes
    <3> QED
      BY <1>0, <2>7, <3>1, <3>2, <2>1 DEF Renames
  <2>8. ASSUME NEW d \in Channels, Joining(d)
        PROVE  LastSays(inq', c, c \in in') /\ (c \in in' => Rejoins(inq', c))
    <3>1. /\ LastSays(inq, c, c \in in) /\ (c \in in => Rejoins(inq, c)) /\ in' = in \cup {d}
      BY <2>8 DEF Joining, NetInv
    <3>2. PICK m, n : /\ inq' = Append(Append(inq, m), n)
                      /\ m.cmd = "JOIN" /\ m.ch = d /\ n.cmd = "353" /\ n.ch = d
      BY <2>8 DEF Joining
    <3> DEFINE p == Append(inq, m)
    <3>3. IsSeq(p)
      BY <1>0, AppendQueue
    <3>4. CASE c = d
      <4>1. Joins(m, c) /\ ~Leaves(n, c) /\ Changes(n, c) /\ c \in in'
        BY <3>1, <3>2, <3>4 DEF Joins, Leaves, Changes
      <4>2. Rejoins(p, c)
        BY <1>0, <4>1, RejoinsAppend
      <4> HIDE DEF p
      <4>3. Rejoins(Append(p, n), c)
        BY <3>3, <4>1, <4>2, RejoinsAppend
      <4>4. LastSays(Append(p, n), c, TRUE)
        BY <3>3, <4>1, LastSaysAppend
      <4>5. inq' = Append(p, n)
        BY <3>2 DEF p
      <4>6. (c \in in') = TRUE
        BY <4>1
      <4> QED
        BY <4>3, <4>4, <4>5, <4>6
    <3>5. CASE c # d
      <4>1. ~Changes(m, c) /\ ~Changes(n, c) /\ (c \in in' <=> c \in in)
        BY <3>1, <3>2, <3>5 DEF Changes
      <4>2. LastSays(p, c, c \in in) /\ (c \in in => Rejoins(p, c))
        BY <1>0, <3>1, <4>1, <2>1
      <4> HIDE DEF p
      <4>3. LastSays(Append(p, n), c, c \in in) /\ (c \in in => Rejoins(Append(p, n), c))
        BY <1>0, <3>3, <4>1, <4>2, <2>1
      <4>4. inq' = Append(p, n)
        BY <3>2 DEF p
      <4>5. (c \in in') = (c \in in)
        BY <4>1
      <4> QED
        BY <4>3, <4>4, <4>5
    <3> QED
      BY <3>4, <3>5
  <2>9. ASSUME NEW d \in Channels, Leaving(d)
        PROVE  LastSays(inq', c, c \in in') /\ (c \in in' => Rejoins(inq', c))
    <3>1. /\ LastSays(inq, c, c \in in) /\ (c \in in => Rejoins(inq, c)) /\ in' = in \ {d}
      BY <2>9 DEF Leaving, NetInv
    <3>2. PICK m : inq' = Append(inq, m) /\ m.cmd \in {"PART", "KICK"} /\ m.who = real /\ m.ch = d
      BY <2>9 DEF Leaving
    <3>3. real \notin Others
      BY <2>9 DEF Leaving, SessionInv
    <3>4. CASE c = d
      <4>1. Leaves(m, c) /\ Changes(m, c) /\ c \notin in'
        BY <3>1, <3>2, <3>3, <3>4 DEF Leaves, Changes
      <4>2. LastSays(inq', c, FALSE)
        BY <1>0, <3>2, <4>1, LastSaysAppend
      <4>3. (c \in in') = FALSE
        BY <4>1
      <4> QED
        BY <4>1, <4>2, <4>3
    <3>5. CASE c # d
      <4>1. ~Changes(m, c) /\ (c \in in') = (c \in in)
        BY <3>1, <3>2, <3>5 DEF Changes
      <4>2. LastSays(inq', c, c \in in) /\ (c \in in => Rejoins(inq', c))
        BY <1>0, <3>1, <3>2, <4>1, <2>1
      <4> QED
        BY <4>1, <4>2
    <3> QED
      BY <3>4, <3>5
  <2> QED
    BY <1>5, <2>2, <2>3, <2>4, <2>5, <2>6, <2>7, <2>8, <2>9, NetworkFrame
<1>6. CASE UNCHANGED vars
  BY <1>6 DEF vars, netVars, NetInv
<1> QED
  BY <1>1, <1>2, <1>3, <1>4, <1>5, <1>6 DEF Next

-----------------------------------------------------------------------------
(* The JOINED flags against the channels the bot is in.                    *)

\* No line of q is about channel c.
Unheard(q, c) ==
    \A m \in Range(q) : m.cmd \in {"INVITE", "JOIN", "KICK", "PART", "MODE", "353"} => m.ch # c

\* With nothing under way about a channel and nothing lost on the bot, the flag
\* is right; out of a session the channels it is set for count as lost.
JoinedInv ==
    /\ sess = "reg" /\ "nickname" \notin astray =>
         \A c \in Channels \ astray : Quiet(inq, c) => (c \in joined <=> c \in in)
    /\ sess # "reg" => \A c \in Channels \ astray : c \notin joined /\ Unheard(inq, c)

\* A handler that keeps up with channel c does what the line says of it.
LEMMA HandlerJoined ==
    ASSUME SessionInv, Extends = {}, NickInv, Handlers, NEW c \in Channels, c \notin astray',
           "nickname" \notin astray', sess = "reg"
    PROVE  /\ ~Changes(inq[1], c) => c \notin astray /\ (c \in joined' <=> c \in joined)
           /\ Changes(inq[1], c) => (c \in joined' <=> ~Leaves(inq[1], c))
<1> USE DEF SessionInv
<1>1. inq # <<>> /\ Msg = inq[1] /\ Msg \in Range(inq) /\ IsSeq(inq)
  BY HandlerFrame, TailQueue DEF Msg
<1>2. Msg.cmd \in {"KICK", "PART", "NICK"} => (Msg.who \notin Others <=> irc_server_is_self(Msg.who))
  <2>1. Chain(inq, nickname, real)
    BY HandlerNick DEF NickInv
  <2> QED
    BY <1>1, <2>1, ChainTail DEF irc_server_is_self
<1>3. Msg.cmd \in {"INVITE", "JOIN", "KICK", "PART", "MODE", "353"} =>
        "ch" \in DOMAIN Msg /\ Msg.ch \in Channels
  BY <1>1 DEF Typed
<1> SUFFICES /\ ~Changes(Msg, c) => c \notin astray /\ (c \in joined' <=> c \in joined)
             /\ Changes(Msg, c) => (c \in joined' <=> ~Leaves(Msg, c))
  BY <1>1
<1> USE DEF Changes, Leaves
<1>4. CASE irc_server_handle_disconnect
  BY <1>4 DEF irc_server_handle_disconnect, Handles, botVars, histVars
<1>5. CASE irc_server_handle_connect
  BY <1>5 DEF irc_server_handle_connect, Handles, botVars
<1>6. CASE irc_server_handle_support
  BY <1>6 DEF irc_server_handle_support, Handles, histVars
<1>7. CASE irc_server_handle_invite
  BY <1>7 DEF irc_server_handle_invite, Handles
<1>8. CASE irc_server_handle_join
  BY <1>8 DEF irc_server_handle_join, Handles, Settled
<1>9. CASE irc_server_handle_kick
  <2>1. Msg.cmd = "KICK"
    BY <1>9 DEF irc_server_handle_kick, Handles
  <2>2. CASE irc_server_is_self(Msg.who)
    <3>1. joined' = joined \ {Msg.ch} /\ \E r : astray' = (astray \ {Msg.ch}) \cup r
      BY <1>9, <2>2 DEF irc_server_handle_kick, KickedFlag, Settled
    <3> QED
      BY <1>2, <2>1, <2>2, <3>1
  <2>3. CASE ~irc_server_is_self(Msg.who)
    <3>1. joined' = joined \cup {Msg.ch} /\ astray' = astray
      BY <1>9, <2>3 DEF irc_server_handle_kick
    <3> QED
      BY <1>2, <2>1, <2>3, <3>1
  <2> QED
    BY <2>2, <2>3
<1>10. CASE irc_server_handle_part
  <2>1. Msg.cmd = "PART"
    BY <1>10 DEF irc_server_handle_part, Handles
  <2>2. CASE irc_server_is_self(Msg.who)
    <3>1. joined' = joined \ {Msg.ch} /\ astray' = astray \ {Msg.ch}
      BY <1>10, <2>2 DEF irc_server_handle_part, irc_server_channels_remove, Settled
    <3> QED
      BY <1>2, <2>1, <2>2, <3>1
  <2>3. CASE ~irc_server_is_self(Msg.who)
    <3>1. joined' = joined /\ astray' = astray
      BY <1>10, <2>3 DEF irc_server_handle_part
    <3> QED
      BY <1>2, <2>1, <2>3, <3>1
  <2> QED
    BY <2>2, <2>3
<1>11. CASE irc_server_handle_nick
  BY <1>11 DEF irc_server_handle_nick, Handles, histVars
<1>12. CASE irc_server_handle_mode
  BY <1>12 DEF irc_server_handle_mode, Handles, histVars
<1>13. CASE irc_server_handle_names
  BY <1>13 DEF irc_server_handle_names, Handles, histVars
<1>14. CASE irc_server_handle_ping
  BY <1>14 DEF irc_server_handle_ping, Handles, botVars, histVars
<1>15. CASE irc_server_handle_event
  BY <1>15 DEF irc_server_handle_event, Handles, botVars, histVars
<1>16. CASE irc_server_handle_whoisuser
  BY <1>16 DEF irc_server_handle_whoisuser, Handles, histVars
<1>17. CASE irc_server_whois_pull
  <2>1. ~Changes(Msg, c) /\ c \notin astray
    BY <1>3, <1>17 DEF irc_server_whois_pull
  <2>2. joined' = joined
    BY <1>17 DEF irc_server_whois_pull
  <2> QED
    BY <2>1, <2>2
<1> QED
  BY <1>4, <1>5, <1>6, <1>7, <1>8, <1>9, <1>10, <1>11, <1>12, <1>13, <1>14, <1>15, <1>16, <1>17
  DEF Handlers

\* Out of a session a handler settles nothing and marks no channel it was not
\* told about.
LEMMA HandlerOutside ==
    ASSUME SessionInv, Handlers, NEW c \in Channels, c \notin astray', sess # "reg",
           c \notin astray => c \notin joined /\ Unheard(inq, c)
    PROVE  c \notin joined' /\ Unheard(inq', c)
<1> USE DEF SessionInv
<1>1. inq # <<>> /\ Msg \in Range(inq) /\ IsSeq(inq) /\ inq' = Tail(inq)
  BY HandlerFrame, TailQueue DEF Msg
<1>2. Range(inq') \subseteq Range(inq)
  BY <1>1, TailQueue
<1> SUFFICES c \notin astray /\ c \notin joined'
  BY <1>2 DEF Unheard
<1> USE DEF Unheard
<1>4. CASE irc_server_handle_disconnect
  BY <1>4 DEF irc_server_handle_disconnect, Handles, botVars, histVars
<1>5. CASE irc_server_handle_connect
  BY <1>5 DEF irc_server_handle_connect, Handles, botVars
<1>6. CASE irc_server_handle_support
  BY <1>6 DEF irc_server_handle_support, Handles, histVars
<1>7. CASE irc_server_handle_invite
  BY <1>7 DEF irc_server_handle_invite, Handles
<1>8. CASE irc_server_handle_join
  BY <1>1, <1>8 DEF irc_server_handle_join, Handles, Settled
<1>9. CASE irc_server_handle_kick
  <2>1. Msg.cmd = "KICK"
    BY <1>9 DEF irc_server_handle_kick, Handles
  <2>2. joined' = joined \ {Msg.ch} \/ joined' = joined \cup {Msg.ch}
    BY <1>9 DEF irc_server_handle_kick, KickedFlag
  <2>3. astray \subseteq astray'
    BY <1>9 DEF irc_server_handle_kick, Settled
  <2> QED
    BY <1>1, <2>1, <2>2, <2>3
<1>10. CASE irc_server_handle_part
  BY <1>10 DEF irc_server_handle_part, Handles, irc_server_channels_remove, Settled
<1>11. CASE irc_server_handle_nick
  BY <1>11 DEF irc_server_handle_nick, Handles, histVars
<1>12. CASE irc_server_handle_mode
  BY <1>12 DEF irc_server_handle_mode, Handles, histVars
<1>13. CASE irc_server_handle_names
  BY <1>1, <1>13 DEF irc_server_handle_names, Handles, histVars
<1>14. CASE irc_server_handle_ping
  BY <1>14 DEF irc_server_handle_ping, Handles, botVars, histVars
<1>15. CASE irc_server_handle_event
  BY <1>15 DEF irc_server_handle_event, Handles, botVars, histVars
<1>16. CASE irc_server_handle_whoisuser
  BY <1>16 DEF irc_server_handle_whoisuser, Handles, histVars
<1>17. CASE irc_server_whois_pull
  <2>1. c \notin astray /\ joined' = joined
    BY <1>17 DEF irc_server_whois_pull
  <2> QED
    BY <2>1
<1> QED
  BY <1>4, <1>5, <1>6, <1>7, <1>8, <1>9, <1>10, <1>11, <1>12, <1>13, <1>14, <1>15, <1>16, <1>17
  DEF Handlers

LEMMA QuietTail ==
    ASSUME NEW q, IsSeq(q), q # <<>>, NEW c
    PROVE  Quiet(q, c) <=> ~Changes(q[1], c) /\ Quiet(Tail(q), c)
BY TailQueue DEF Quiet

LEMMA QuietAppend ==
    ASSUME NEW q, IsSeq(q), NEW m, NEW c
    PROVE  Quiet(Append(q, m), c) <=> Quiet(q, c) /\ ~Changes(m, c)
BY AppendQueue DEF Quiet

\* With nothing behind it, the first line has the last word.
LEMMA LastIsFirst ==
    ASSUME NEW q, IsSeq(q), q # <<>>, NEW c, NEW is \in BOOLEAN, LastSays(q, c, is),
           Changes(q[1], c), Quiet(Tail(q), c)
    PROVE  Leaves(q[1], c) <=> ~is
<1>1. /\ DOMAIN q = 1..Len(q) /\ Len(q) \in Nat /\ 1 \in DOMAIN q
      /\ DOMAIN Tail(q) = 1..(Len(q) - 1)
      /\ \A i \in DOMAIN Tail(q) : Tail(q)[i] = q[i + 1]
  BY TailQueue
<1>2. ASSUME NEW j \in DOMAIN q, 1 < j PROVE ~Changes(q[j], c)
  <2>1. j - 1 \in DOMAIN Tail(q) /\ (j - 1) + 1 = j
    BY <1>1, <1>2
  <2>2. Tail(q)[j - 1] = q[j]
    BY <1>1, <2>1
  <2> QED
    BY <2>1, <2>2 DEF Quiet, Range
<1> QED
  BY <1>1, <1>2 DEF LastSays

LEMMA JoinedStep ==
    SessionInv /\ Extends = {} /\ NickInv /\ NetInv /\ JoinedInv /\ [Next]_vars => JoinedInv'
<1> SUFFICES ASSUME SessionInv, Extends = {}, NickInv, NetInv, JoinedInv, [Next]_vars,
                    NEW c \in Channels, c \notin astray'
             PROVE  /\ sess' = "reg" /\ "nickname" \notin astray' /\ Quiet(inq', c)
                          => (c \in joined' <=> c \in in')
                    /\ sess' # "reg" => c \notin joined' /\ Unheard(inq', c)
  BY DEF JoinedInv
<1>0. IsSeq(inq) /\ c # "nickname"
  BY ServerAssumption DEF SessionInv
<1>1. CASE Handlers
  <2>1. UNCHANGED <<sess, in>> /\ inq # <<>> /\ inq' = Tail(inq)
    BY <1>1, HandlerFrame DEF netVars
  <2>2. ASSUME sess = "reg", "nickname" \notin astray', Quiet(inq', c)
        PROVE  c \in joined' <=> c \in in'
    <3>1. CASE Changes(inq[1], c)
      <4>1. LastSays(inq, c, c \in in) /\ (c \in in) \in BOOLEAN
        BY <2>2 DEF NetInv
      <4>2. Leaves(inq[1], c) <=> ~(c \in in)
        BY <1>0, <2>1, <2>2, <3>1, <4>1, LastIsFirst
      <4> QED
        BY <1>1, <2>1, <2>2, <3>1, <4>2, HandlerJoined
    <3>2. CASE ~Changes(inq[1], c)
      <4>1. Quiet(inq, c)
        BY <1>0, <2>1, <2>2, <3>2, QuietTail
      <4>2. c \notin astray /\ (c \in joined' <=> c \in joined) /\ "nickname" \notin astray
        BY <1>1, <2>2, <3>2, HandlerJoined, HandlerNick
      <4> QED
        BY <2>1, <2>2, <4>1, <4>2 DEF JoinedInv
    <3> QED
      BY <3>1, <3>2
  <2>3. ASSUME sess # "reg" PROVE c \notin joined' /\ Unheard(inq', c)
    BY <1>1, <2>3, HandlerOutside DEF JoinedInv
  <2> QED
    BY <2>1, <2>2, <2>3
<1>2. CASE Calls
  <2>1. CASE irc_server_disconnect
    BY <2>1, EmptyQueue DEF irc_server_disconnect, irc_server_channels_clear, NoSession, Unheard
  <2>2. CASE ~irc_server_disconnect
    <3>1. /\ UNCHANGED <<inq, sess, in, joined>> /\ astray \subseteq astray'
      BY <1>2, <2>2, CallFrame DEF netVars
    <3> QED
      BY <3>1 DEF JoinedInv
  <2> QED
    BY <2>1, <2>2
<1>3. CASE ConnUp
  <2>1. sess # "reg" /\ UNCHANGED <<inq, sess, joined>> /\ c \notin astray
    BY <1>0, <1>3 DEF ConnUp, SessionInv, netVars, botVars
  <2> QED
    BY <2>1 DEF JoinedInv
<1>4. CASE ConnLost
  <2>1. sess' # "reg" /\ joined' = joined /\ c \notin joined
    BY <1>4 DEF ConnLost, NoSession, botVars
  <2>2. \A i \in DOMAIN inq : "ch" \in DOMAIN inq[i] => inq[i].ch # c
    BY <1>4 DEF ConnLost
  <2>3. Unheard(inq, c)
    BY <2>2 DEF Unheard, SessionInv, Typed, Range
  <2>4. Unheard(inq', c)
    BY <1>4, <2>3, LostInput DEF Unheard, Line
  <2> QED
    BY <2>1, <2>4
<1>5. CASE ConnRetry
  BY <1>5 DEF ConnRetry, JoinedInv, netVars, botVars, histVars
<1>6. CASE Network
  <2>1. joined' = joined
    BY <1>6, NetworkFrame DEF botVars
  <2>2. CASE Nothing
    BY <2>1, <2>2 DEF Nothing, JoinedInv
  <2>3. CASE Refuses
    <3>1. sess # "reg" /\ sess' # "reg" /\ UNCHANGED astray
      BY <2>3 DEF Refuses
    <3>2. Range(inq') = Range(inq) \cup {Line("433")}
      BY <1>0, <2>3, AppendQueue DEF Refuses
    <3> QED
      BY <2>1, <3>1, <3>2 DEF JoinedInv, Unheard, Line
  <2>4. CASE Registers
    <3>1. sess # "reg" /\ sess' = "reg" /\ c \notin astray /\ in' = {}
      BY <2>4 DEF Registers, SessionInv
    <3> QED
      BY <2>1, <3>1 DEF JoinedInv
  <2>5. CASE Tells
    <3>1. PICK m : inq' = Append(inq, m)
      BY <2>5 DEF Tells
    <3>2. sess = "reg" /\ UNCHANGED <<sess, in>> /\ astray \subseteq astray'
      BY <2>5 DEF Tells
    <3> QED
      BY <1>0, <2>1, <3>1, <3>2, QuietAppend DEF JoinedInv
  <2>6. CASE TellsTwo
    <3>1. sess = "reg" /\ UNCHANGED <<sess, in, astray>>
      BY <2>6 DEF TellsTwo
    <3> DEFINE p == Append(inq, Line("311"))
    <3>2. IsSeq(p) /\ inq' = Append(p, Line("318")) /\ (Quiet(p, c) => Quiet(inq, c))
      BY <1>0, <2>6, AppendQueue, QuietAppend DEF TellsTwo
    <3> HIDE DEF p
    <3>3. Quiet(inq', c) => Quiet(inq, c)
      BY <3>2, QuietAppend
    <3> QED
      BY <2>1, <3>1, <3>3 DEF JoinedInv
  <2>7. CASE Renames
    BY <1>0, <2>1, <2>7, QuietAppend DEF Renames, JoinedInv
  <2>8. ASSUME NEW d \in Channels, Joining(d)
        PROVE  /\ sess' = "reg" /\ "nickname" \notin astray' /\ Quiet(inq', c)
                     => (c \in joined' <=> c \in in')
               /\ sess' = "reg"
    <3>1. sess = "reg" /\ UNCHANGED <<sess, astray>> /\ in' = in \cup {d}
      BY <2>8 DEF Joining
    <3>2. PICK m, n : inq' = Append(Append(inq, m), n) /\ n.cmd = "353" /\ n.ch = d
      BY <2>8 DEF Joining
    <3> DEFINE p == Append(inq, m)
    <3>3. IsSeq(p) /\ inq' = Append(p, n) /\ (Quiet(p, c) => Quiet(inq, c))
      BY <1>0, <3>2, AppendQueue, QuietAppend
    <3> HIDE DEF p
    <3>4. Quiet(inq', c) => Quiet(inq, c) /\ ~Changes(n, c)
      BY <3>3, QuietAppend
    <3>5. ~Changes(n, c) => c # d
      BY <3>2 DEF Changes
    <3> QED
      BY <2>1, <3>1, <3>4, <3>5 DEF JoinedInv
  <2>9. ASSUME NEW d \in Channels, Leaving(d)
        PROVE  /\ sess' = "reg" /\ "nickname" \notin astray' /\ Quiet(inq', c)
                     => (c \in joined' <=> c \in in')
               /\ sess' = "reg"
    <3>1. sess = "reg" /\ UNCHANGED <<sess, astray>> /\ in' = in \ {d} /\ real \notin Others
      BY <2>9 DEF Leaving, SessionInv
    <3>2. PICK m : inq' = Append(inq, m) /\ m.cmd \in {"PART", "KICK"} /\ m.who = real /\ m.ch = d
      BY <2>9 DEF Leaving
    <3>3. Quiet(inq', c) => Quiet(inq, c) /\ ~Changes(m, c)
      BY <1>0, <3>2, QuietAppend
    <3>4. ~Changes(m, c) => c # d
      BY <3>1, <3>2 DEF Changes
    <3> QED
      BY <2>1, <3>1, <3>3, <3>4 DEF JoinedInv
  <2> QED
    BY <1>6, <2>2, <2>3, <2>4, <2>5, <2>6, <2>7, <2>8, <2>9, NetworkFrame
<1>7. CASE UNCHANGED vars
  BY <1>7 DEF vars, netVars, botVars, histVars, JoinedInv
<1> QED
  BY <1>1, <1>2, <1>3, <1>4, <1>5, <1>6, <1>7 DEF Next

-----------------------------------------------------------------------------
(* Listed channels are joined, or their JOIN is under way.                 *)

\* A channel listed that the bot is not in has a line about it or the welcome
\* still to be handled, or its JOIN still to be transmitted.
Coming(c) ==
    \/ ~Quiet(inq, c)
    \/ \E m \in Range(inq) : m.cmd = "001"
    \/ ChLine("JOIN", c) \in Range(outq)

ListedInv ==
    sess = "reg" /\ "nickname" \notin astray /\ "AUTO_REJOIN" \in flags =>
        \A c \in Listed \ (astray \cup in) : Coming(c)

\* A JOIN of c that is sent on a link that is up waits behind the others, or the
\* channel is noted as lost.
LEMMA JoinWaits ==
    ASSUME SessionInv, link = "up", NEW c \in Channels, NEW s, IsSeq(s), Typed(s),
           ChLine("JOIN", c) \in Range(s), irc_server_send(s), c \notin Refused(outq, s)
    PROVE  ChLine("JOIN", c) \in Range(outq')
<1>1. ChLine("JOIN", c).cmd = "JOIN" /\ ChLine("JOIN", c).ch = c
  BY DEF ChLine
<1> QED
  BY <1>1, SendFrame DEF SessionInv

\* What a handler leaves to come for a channel that it lists or that was listed.
LEMMA HandlerListed ==
    ASSUME SessionInv, Extends = {}, NickInv, NetInv, JoinedInv, ListedInv, Handlers,
           sess = "reg", "nickname" \notin astray', "AUTO_REJOIN" \in flags,
           NEW c \in Listed', c \notin astray', c \notin in, Quiet(inq', c)
    PROVE  (\E m \in Range(inq') : m.cmd = "001") \/ ChLine("JOIN", c) \in Range(outq')
<1>1. /\ inq # <<>> /\ inq' = Tail(inq) /\ Msg = inq[1] /\ Msg \in Range(inq) /\ IsSeq(inq)
      /\ Range(outq) \subseteq Range(outq')
  BY HandlerFrame, TailQueue DEF Msg, SessionInv
<1>2. link = "up" /\ Ready /\ ListOK
  BY HandlerFrame DEF SessionInv, Ready
<1>3. c \in Channels
  BY HandlerFrame, RangeOfSeq DEF ListOK, Listed
<1>4. Msg.cmd \in {"INVITE", "JOIN", "KICK", "PART", "MODE", "353"} =>
        "ch" \in DOMAIN Msg /\ Msg.ch \in Channels
  BY <1>1 DEF Typed, SessionInv
<1>5. Msg.cmd \in {"KICK", "PART", "NICK"} => (Msg.who \notin Others <=> irc_server_is_self(Msg.who))
  <2>1. Chain(inq, nickname, real)
    BY HandlerNick DEF NickInv
  <2> QED
    BY <1>1, <2>1, ChainTail DEF irc_server_is_self
<1>6. Changes(Msg, c) => Leaves(Msg, c)
  <2>1. LastSays(inq, c, c \in in) /\ (c \in in) \in BOOLEAN
    BY <1>3 DEF NetInv
  <2> QED
    BY <1>1, <2>1, LastIsFirst
<1>7. ~Changes(Msg, c) => Quiet(inq, c) /\ c \notin astray /\ "nickname" \notin astray /\ c \notin joined
  <2>1. ~Changes(Msg, c) => Quiet(inq, c) /\ c \notin astray /\ "nickname" \notin astray
    BY <1>1, <1>3, QuietTail, HandlerJoined, HandlerNick
  <2> QED
    BY <1>3, <2>1 DEF JoinedInv
<1>8. ~Changes(Msg, c) /\ c \in Listed /\ Msg.cmd # "001" =>
        (\E m \in Range(inq') : m.cmd = "001") \/ ChLine("JOIN", c) \in Range(outq')
  <2> SUFFICES ASSUME ~Changes(Msg, c), c \in Listed, Msg.cmd # "001"
               PROVE  (\E m \in Range(inq') : m.cmd = "001") \/ ChLine("JOIN", c) \in Range(outq')
    OBVIOUS
  <2>1. Coming(c)
    BY <1>7 DEF ListedInv
  <2>2. Range(inq) = {Msg} \cup Range(inq')
    BY <1>1, TailQueue
  <2> QED
    BY <1>1, <1>7, <2>1, <2>2 DEF Coming
<1>9. CASE irc_server_handle_connect
  <2>1. PICK todo \in ConnectJoins :
          /\ irc_server_send([i \in DOMAIN todo |-> ChLine("JOIN", todo[i])])
          /\ astray' = astray \cup Refused(outq, [i \in DOMAIN todo |-> ChLine("JOIN", todo[i])])
    BY <1>9 DEF irc_server_handle_connect
  <2> DEFINE s == [i \in DOMAIN todo |-> ChLine("JOIN", todo[i])]
  <2>2. IsSeq(s) /\ Typed(s) /\ \A d \in Listed \ joined : ChLine("JOIN", d) \in Range(s)
    BY <1>2, ConnectSent
  <2> HIDE DEF s
  <2>3. irc_server_send(s) /\ astray' = astray \cup Refused(outq, s)
    BY <2>1 DEF s
  <2>4. ~Changes(Msg, c) /\ c \in Listed
    BY <1>9 DEF irc_server_handle_connect, Handles, Changes, botVars, Listed
  <2>5. ChLine("JOIN", c) \in Range(s) /\ c \notin Refused(outq, s)
    BY <1>7, <2>2, <2>3, <2>4
  <2> QED
    BY <1>2, <1>3, <2>2, <2>3, <2>5, JoinWaits
<1>10. CASE irc_server_handle_invite
  <2>1. ~Changes(Msg, c) /\ Msg.cmd = "INVITE"
    BY <1>10 DEF irc_server_handle_invite, Handles, Changes
  <2>2. CASE c \in Listed
    BY <1>8, <2>1, <2>2
  <2>3. CASE c \notin Listed
    <3> DEFINE s == JoinLines(Msg.ch, joined)
    <3>1. Msg.ch \in Channels
      BY <1>4, <2>1
    <3>2. c = Msg.ch /\ "JOIN_INVITE" \in flags
      BY <1>2, <1>10, <2>3, <3>1, AddOne DEF irc_server_handle_invite, Listed
    <3>3. irc_server_send(s) /\ astray' = astray \cup Refused(outq, s)
      BY <1>10, <3>2 DEF irc_server_handle_invite
    <3>4. IsSeq(s) /\ Typed(s) /\ ChLine("JOIN", c) \in Range(s)
      BY <1>2, <1>3, <1>7, <2>1, <3>2, JoinSent
    <3> HIDE DEF s
    <3> QED
      BY <1>2, <1>3, <3>3, <3>4, JoinWaits
  <2> QED
    BY <2>2, <2>3
<1>11. CASE irc_server_handle_join \/ irc_server_handle_names
  <2>1. Msg.cmd \in {"JOIN", "353"} /\ channels' = irc_server_channels_add(Msg.ch)
    BY <1>11 DEF irc_server_handle_join, irc_server_handle_names, Handles
  <2>2. Listed' = Listed \cup {Msg.ch}
    BY <1>2, <1>4, <2>1, AddOne DEF Listed
  <2>3. ~Changes(Msg, c)
    BY <1>6, <2>1 DEF Leaves
  <2>4. c \in Listed
    BY <2>1, <2>2, <2>3 DEF Changes
  <2> QED
    BY <1>8, <2>1, <2>3, <2>4
<1>12. CASE irc_server_handle_kick
  <2>1. Msg.cmd = "KICK" /\ channels' = irc_server_channels_add(Msg.ch)
    BY <1>12 DEF irc_server_handle_kick, Handles
  <2>2. Listed' = Listed \cup {Msg.ch}
    BY <1>2, <1>4, <2>1, AddOne DEF Listed
  <2>3. CASE c # Msg.ch
    BY <1>8, <2>1, <2>2, <2>3 DEF Changes
  <2>4. CASE c = Msg.ch
    <3>1. Changes(Msg, c)
      BY <2>1, <2>4 DEF Changes
    <3>2. irc_server_is_self(Msg.who)
      BY <1>5, <1>6, <2>1, <3>1 DEF Leaves
    <3> DEFINE s == JoinLines(Msg.ch, joined')
    <3>3. /\ irc_server_send(s) /\ joined' = joined \ {c}
          /\ astray' = (astray \ Settled(TRUE)) \cup Refused(outq, s)
      BY <1>12, <2>4, <3>2 DEF irc_server_handle_kick, KickedFlag
    <3>4. IsSeq(s) /\ Typed(s) /\ ChLine("JOIN", c) \in Range(s)
      BY <1>2, <1>3, <2>4, <3>3, JoinSent
    <3> HIDE DEF s
    <3>5. c \notin Refused(outq, s)
      BY <3>3
    <3> QED
      BY <1>2, <1>3, <3>3, <3>4, <3>5, JoinWaits
  <2> QED
    BY <2>3, <2>4
<1>13. CASE irc_server_handle_part
  <2>1. Msg.cmd = "PART"
    BY <1>13 DEF irc_server_handle_part, Handles
  <2>2. CASE irc_server_is_self(Msg.who)
    <3>1. Listed' = Listed \ {Msg.ch}
      BY <1>2, <1>13, <2>2, RemoveOne DEF irc_server_handle_part
    <3>2. c \in Listed /\ ~Changes(Msg, c)
      BY <3>1 DEF Changes
    <3> QED
      BY <1>8, <2>1, <3>2
  <2>3. CASE ~irc_server_is_self(Msg.who)
    <3>1. c \in Listed
      BY <1>13, <2>3 DEF irc_server_handle_part, Listed
    <3>2. ~Changes(Msg, c)
      BY <1>5, <2>1, <2>3 DEF Changes
    <3> QED
      BY <1>8, <2>1, <3>1, <3>2
  <2> QED
    BY <2>2, <2>3
<1>14. CASE irc_server_whois_pull
  <2>1. c \in Listed
    BY <1>14 DEF irc_server_whois_pull, Listed
  <2>2. Msg.cmd # "001" /\ ~Changes(Msg, c)
    BY <1>3, <1>4, <1>14 DEF irc_server_whois_pull, Changes
  <2> QED
    BY <1>8, <2>1, <2>2
<1>15. CASE irc_server_handle_disconnect \/ irc_server_handle_support \/ irc_server_handle_nick
            \/ irc_server_handle_mode \/ irc_server_handle_ping \/ irc_server_handle_event
            \/ irc_server_handle_whoisuser
  <2>1. c \in Listed
    BY <1>15 DEF irc_server_handle_disconnect, irc_server_handle_support, irc_server_handle_nick,
       irc_server_handle_mode, irc_server_handle_ping, irc_server_handle_event,
       irc_server_handle_whoisuser, botVars, Listed
  <2>2. Msg.cmd \in {"000", "005", "NICK", "MODE", "PING", "433", "311"}
    BY <1>15 DEF irc_server_handle_disconnect, irc_server_handle_support, irc_server_handle_nick,
       irc_server_handle_mode, irc_server_handle_ping, irc_server_handle_event,
       irc_server_handle_whoisuser, Handles
  <2> QED
    BY <1>8, <2>1, <2>2 DEF Changes
<1> QED
  BY <1>9, <1>10, <1>11, <1>12, <1>13, <1>14, <1>15 DEF Handlers

LEMMA ListedStep ==
    SessionInv /\ Extends = {} /\ NickInv /\ NetInv /\ JoinedInv /\ ListedInv /\ [Next]_vars
        => ListedInv'
<1> SUFFICES ASSUME SessionInv, Extends = {}, NickInv, NetInv, JoinedInv, ListedInv, [Next]_vars,
                    sess' = "reg", "nickname" \notin astray', "AUTO_REJOIN" \in flags',
                    NEW c \in Listed', c \notin astray', c \notin in', Quiet(inq', c)
             PROVE  (\E m \in Range(inq') : m.cmd = "001") \/ ChLine("JOIN", c) \in Range(outq')
  BY DEF ListedInv, Coming
<1>0. IsSeq(inq) /\ IsSeq(outq) /\ ListOK
  BY DEF SessionInv
<1>1. CASE Handlers
  <2>1. sess = "reg" /\ UNCHANGED <<in, flags>>
    BY <1>1, HandlerFrame DEF netVars
  <2> QED
    BY <1>1, <2>1, HandlerListed
<1>2. CASE Calls
  <2>1. ~irc_server_disconnect
    BY DEF irc_server_disconnect, NoSession
  <2>2. /\ UNCHANGED <<inq, sess, in, flags, joined>> /\ c \notin astray /\ "nickname" \notin astray
        /\ Range(outq) \subseteq Range(outq')
    BY <1>2, <2>1, CallFrame DEF netVars
  <2>3. CASE c \in Listed
    BY <2>2, <2>3 DEF ListedInv, Coming
  <2>4. CASE c \notin Listed
    <3>1. \E d \in Channels : irc_server_join(d)
      BY <1>2, <2>1, <2>4 DEF Calls, irc_server_part, irc_server_set_nickname, irc_server_connect,
         botVars, Listed
    <3>2. PICK d \in Channels : irc_server_join(d)
      BY <3>1
    <3>3. c = d
      BY <1>0, <2>4, <3>2, AddOne DEF irc_server_join, Listed
    <3>4. link = "up" /\ Ready
      BY <2>2, <3>2 DEF SessionInv, irc_server_join, Alive, Ready
    <3>5. c \notin joined
      BY <2>2, <3>3 DEF JoinedInv
    <3> DEFINE s == JoinLines(c, joined)
    <3>6. irc_server_send(s) /\ astray' = astray \cup Refused(outq, s)
      BY <3>2, <3>3, <3>4 DEF irc_server_join
    <3>7. IsSeq(s) /\ Typed(s) /\ ChLine("JOIN", c) \in Range(s)
      BY <3>3, <3>4, <3>5, JoinSent
    <3> HIDE DEF s
    <3> QED
      BY <3>3, <3>4, <3>6, <3>7, JoinWaits
  <2> QED
    BY <2>3, <2>4
<1>3. CASE ConnUp \/ ConnRetry
  BY <1>3 DEF ConnUp, ConnRetry, SessionInv, netVars
<1>4. CASE ConnLost
  BY <1>4 DEF ConnLost, NoSession
<1>5. CASE Network
  <2>1. c \in Listed /\ flags' = flags
    BY <1>5, NetworkFrame DEF botVars, Listed
  <2>2. c \in Channels
    BY <1>0, <2>1, RangeOfSeq DEF ListOK, Listed
  <2>3. ASSUME sess = "reg", astray \subseteq astray', c \notin in,
               Quiet(inq, c), Range(inq) \subseteq Range(inq')
        PROVE  (\E m \in Range(inq') : m.cmd = "001") \/ ChLine("JOIN", c) \in Range(outq')
    <3>1. Coming(c)
      BY <2>1, <2>3 DEF ListedInv
    <3>2. CASE ChLine("JOIN", c) \in Range(outq) /\ ChLine("JOIN", c) \notin Range(outq')
      <4>1. outq # <<>> /\ outq' = Tail(outq)
        BY <1>5, <3>2, NetworkFrame
      <4>2. Head(outq) = ChLine("JOIN", c)
        BY <1>0, <3>2, <4>1, TailQueue
      <4>3. Joins(Head(outq), Head(outq).ch) /\ Head(outq).ch = c
        BY <4>2 DEF Joins, ChLine
      <4>4. outq' # outq
        BY <3>2
      <4> QED
        BY <1>5, <2>3, <4>3, <4>4, NetworkFrame
    <3> QED
      BY <2>3, <3>1, <3>2 DEF Coming
  <2>4. CASE Nothing
    BY <2>3, <2>4 DEF Nothing
  <2>5. CASE Refuses
    BY <2>5 DEF Refuses
  <2>6. CASE Registers
    <3> DEFINE p == Append(inq, Line("001"))
    <3>1. IsSeq(p) /\ Line("001") \in Range(p)
      BY <1>0, AppendQueue
    <3>2. inq' = Append(p, [cmd |-> "005", prefixes |-> <<"o", "v">>])
      BY <2>6 DEF Registers
    <3> HIDE DEF p
    <3>3. Line("001") \in Range(inq')
      BY <3>1, <3>2, AppendQueue
    <3> QED
      BY <3>3 DEF Line
  <2>7. CASE Tells
    <3>1. PICK m : inq' = Append(inq, m)
      BY <2>7 DEF Tells
    <3>2. Quiet(inq, c) /\ Range(inq) \subseteq Range(inq')
      BY <1>0, <3>1, QuietAppend, AppendQueue
    <3> QED
      BY <2>3, <2>7, <3>2 DEF Tells
  <2>8. ASSUME NEW m, NEW n, inq' = Append(Append(inq, m), n)
        PROVE  Quiet(inq, c) /\ Range(inq) \subseteq Range(inq')
    <3> DEFINE p == Append(inq, m)
    <3>1. IsSeq(p) /\ inq' = Append(p, n) /\ Range(inq) \subseteq Range(p)
      BY <1>0, <2>8, AppendQueue
    <3>2. Quiet(p, c) => Quiet(inq, c)
      BY <1>0, QuietAppend
    <3> HIDE DEF p
    <3>3. Quiet(p, c) /\ Range(p) \subseteq Range(inq')
      BY <3>1, QuietAppend, AppendQueue
    <3> QED
      BY <3>1, <3>2, <3>3
  <2>9. CASE TellsTwo
    BY <2>3, <2>8, <2>9 DEF TellsTwo
  <2>10. CASE Renames
    <3>1. Quiet(inq, c) /\ Range(inq) \subseteq Range(inq')
      BY <1>0, <2>10, QuietAppend, AppendQueue DEF Renames
    <3> QED
      BY <2>3, <2>10, <3>1 DEF Renames
  <2>11. ASSUME NEW d \in Channels, Joining(d)
         PROVE  (\E m \in Range(inq') : m.cmd = "001") \/ ChLine("JOIN", c) \in Range(outq')
    <3>1. sess = "reg" /\ astray' = astray /\ c \notin in
      BY <2>11 DEF Joining
    <3>2. Quiet(inq, c) /\ Range(inq) \subseteq Range(inq')
      BY <2>8, <2>11 DEF Joining
    <3> QED
      BY <2>3, <3>1, <3>2
  <2>12. ASSUME NEW d \in Channels, Leaving(d)
         PROVE  (\E m \in Range(inq') : m.cmd = "001") \/ ChLine("JOIN", c) \in Range(outq')
    <3>1. sess = "reg" /\ astray' = astray /\ in' = in \ {d} /\ real \notin Others
      BY <2>12 DEF Leaving, SessionInv
    <3>2. PICK m : inq' = Append(inq, m) /\ m.cmd \in {"PART", "KICK"} /\ m.who = real /\ m.ch = d
      BY <2>12 DEF Leaving
    <3>3. Quiet(inq, c) /\ ~Changes(m, c) /\ Range(inq) \subseteq Range(inq')
      BY <1>0, <3>2, QuietAppend, AppendQueue
    <3>4. c # d
      BY <3>1, <3>2, <3>3 DEF Changes
    <3>5. c \notin in
      BY <3>1, <3>4
    <3> QED
      BY <2>3, <3>1, <3>3, <3>5
  <2> QED
    BY <1>5, <2>4, <2>5, <2>6, <2>7, <2>9, <2>10, <2>11, <2>12, NetworkFrame
<1>6. CASE UNCHANGED vars
  BY <1>6 DEF vars, netVars, botVars, histVars, Listed, ListedInv, Coming
<1> QED
  BY <1>1, <1>2, <1>3, <1>4, <1>5, <1>6 DEF Next

-----------------------------------------------------------------------------
(* The theorems.                                                           *)

ServerInv == SessionInv /\ NickInv /\ NetInv /\ JoinedInv /\ ListedInv

LEMMA ServerInvInit == Init => ServerInv
<1> SUFFICES ASSUME Init PROVE ServerInv
  OBVIOUS
<1>1. inq = <<>> /\ Range(inq) = {} /\ sess # "reg" /\ joined = {}
  BY EmptyQueue DEF Init
<1>2. NickInv /\ NetInv /\ JoinedInv /\ ListedInv
  BY <1>1 DEF NickInv, NetInv, JoinedInv, ListedInv, Unheard
<1> QED
  BY <1>2, SessionInit DEF ServerInv

LEMMA ServerInvStep == ServerInv /\ Extends = {} /\ [Next]_vars => ServerInv'
BY SessionStep, NickStep, NetStep, JoinedStep, ListedStep DEF ServerInv

LEMMA ServerInvAlways ==
    ASSUME Extends = {}
    PROVE  Spec => []ServerInv
<1>1. ServerInv /\ [Next]_vars => ServerInv'
  BY ServerInvStep
<1> QED
  BY <1>1, ServerInvInit, PTL DEF Spec

\* At rest, the channels the bot holds for joined are those it is in, whatever
\* the order of joins, parts, kicks and losses (irc_server_handle_join,
\* irc_server_handle_kick, irc_server_handle_part, irc_server_channels_clear).
THEOREM MembershipAlwaysKnown ==
    ASSUME Extends = {}
    PROVE  Spec => []MembershipKnown
<1>1. ServerInv => MembershipKnown
  <2> SUFFICES ASSUME ServerInv, AtRest, NEW c \in Sure PROVE c \in joined <=> c \in in
    BY DEF MembershipKnown
  <2>1. "nickname" \notin astray /\ c \in Channels \ astray /\ sess = "reg"
    BY DEF Sure, AtRest
  <2>2. Quiet(inq, c)
    BY EmptyQueue DEF AtRest, Quiet
  <2> QED
    BY <2>1, <2>2 DEF ServerInv, JoinedInv
<1> QED
  BY <1>1, ServerInvAlways, PTL

\* The nickname the server holds is the network's, a NICK under way aside
\* (irc_server_handle_nick, irc_server_set_nickname).
THEOREM NicknameAlwaysKnown ==
    ASSUME Extends = {}
    PROVE  Spec => []NicknameKnown
<1>1. ServerInv => NicknameKnown
  <2> SUFFICES ASSUME ServerInv, sess = "reg", "nickname" \notin astray,
                      \A i \in DOMAIN inq : inq[i].cmd # "NICK"
               PROVE  nickname = real
    BY DEF NicknameKnown
  <2>1. GoesBy(inq, nickname, Len(inq) + 1, real)
    BY DEF ServerInv, NickInv, Chain
  <2> QED
    BY <2>1 DEF GoesBy
<1> QED
  BY <1>1, ServerInvAlways, PTL

\* With AUTO_REJOIN the bot is, at rest, in every channel it lists
\* (irc_server_handle_connect, irc_server_join, irc_server_handle_kick).
THEOREM ListedAlwaysJoined ==
    ASSUME Extends = {}
    PROVE  Spec => []ListedJoined
<1>1. ServerInv => ListedJoined
  <2> SUFFICES ASSUME ServerInv, AtRest, "AUTO_REJOIN" \in flags, NEW c \in Sure, c \in Listed,
                      c \notin in
               PROVE  FALSE
    BY DEF ListedJoined
  <2>1. "nickname" \notin astray /\ c \notin astray /\ sess = "reg"
    BY DEF Sure, AtRest
  <2>2. Coming(c)
    BY <2>1 DEF ServerInv, ListedInv
  <2>3. Range(inq) = {} /\ Range(outq) = {}
    BY EmptyQueue DEF AtRest
  <2> QED
    BY <2>2, <2>3 DEF Coming, Quiet
<1> QED
  BY <1>1, ServerInvAlways, PTL

\* Only irc_server_handle_part takes a channel off the list, its own.
LEMMA OnlyPartForgets ==
    ASSUME SessionInv, [Next]_vars, NEW c \in Listed, c \notin Listed'
    PROVE  irc_server_handle_part /\ irc_server_is_self(Msg.who) /\ c = Msg.ch
<1>1. ListOK
  BY DEF SessionInv
<1>2. ASSUME NEW d \in Channels, channels' = irc_server_channels_add(d) PROVE FALSE
  BY <1>1, <1>2, AddOne DEF Listed
<1>3. channels' # channels
  BY DEF Listed
<1>4. CASE Handlers
  <2>1. inq # <<>> /\ Msg \in Range(inq)
    BY <1>4, HandlerFrame, TailQueue DEF Msg, SessionInv
  <2>2. Msg.cmd \in {"INVITE", "JOIN", "KICK", "353"} => Msg.ch \in Channels
    BY <2>1 DEF SessionInv, Typed
  <2>3. ~irc_server_handle_invite /\ ~irc_server_handle_join
    BY <1>2, <1>3, <2>2 DEF irc_server_handle_invite, irc_server_handle_join, Handles
  <2>4. ~irc_server_handle_kick /\ ~irc_server_handle_names
    BY <1>2, <2>2 DEF irc_server_handle_kick, irc_server_handle_names, Handles
  <2>5. irc_server_handle_part
    BY <1>3, <1>4, <2>3, <2>4
    DEF Handlers, irc_server_handle_disconnect, irc_server_handle_connect,
        irc_server_handle_support, irc_server_handle_nick, irc_server_handle_mode,
        irc_server_handle_ping, irc_server_handle_event, irc_server_handle_whoisuser,
        irc_server_whois_pull, botVars
  <2>6. irc_server_is_self(Msg.who) /\ irc_server_channels_remove(Msg.ch)
    BY <1>3, <2>5 DEF irc_server_handle_part
  <2> QED
    BY <1>1, <2>5, <2>6, RemoveOne
<1>5. CASE Calls
  BY <1>2, <1>3, <1>5 DEF Calls, irc_server_join, irc_server_part, irc_server_set_nickname,
     irc_server_connect, irc_server_disconnect, botVars
<1>6. CASE Network
  BY <1>3, <1>6, NetworkFrame DEF botVars
<1>7. CASE ConnUp \/ ConnLost \/ ConnRetry
  BY <1>3, <1>7 DEF ConnUp, ConnLost, ConnRetry, botVars
<1> QED
  BY <1>3, <1>4, <1>5, <1>6, <1>7 DEF Next, vars, botVars

\* A channel the bot is in is taken off the list only by an older PART, and its
\* JOIN follows (irc_server_handle_part).
THEOREM NeverForgotten ==
    ASSUME Extends = {}
    PROVE  Spec => NotForgotten
<1> DEFINE Kept == \A c \in Listed : c \in Sure \cap in /\ c \notin Range(channels') =>
                       \E i \in DOMAIN inq' : inq'[i].cmd = "JOIN" /\ inq'[i].ch = c
<1>1. ASSUME ServerInv, [Next]_vars PROVE Kept
  <2> SUFFICES ASSUME NEW c \in Listed, c \in Sure, c \in in, c \notin Listed'
               PROVE  \E i \in DOMAIN inq' : inq'[i].cmd = "JOIN" /\ inq'[i].ch = c
    BY DEF Listed
  <2>1. irc_server_handle_part /\ irc_server_is_self(Msg.who) /\ c = Msg.ch
    BY <1>1, OnlyPartForgets DEF ServerInv
  <2>2. Msg.cmd = "PART" /\ inq # <<>> /\ inq' = Tail(inq) /\ Msg = Head(inq) /\ IsSeq(inq)
    BY <1>1, <2>1 DEF irc_server_handle_part, Handles, Msg, ServerInv, SessionInv
  <2>3. sess = "reg" /\ "nickname" \notin astray /\ c \in Channels
    BY <1>1 DEF ServerInv, SessionInv, Sure
  <2>4. Chain(inq, nickname, real) /\ Rejoins(inq, c)
    BY <1>1, <2>3 DEF ServerInv, NickInv, NetInv
  <2>5. Msg = inq[1] /\ Msg.who \notin Others
    BY <2>1, <2>2, <2>4, TailQueue, ChainTail DEF irc_server_is_self
  <2>6. Leaves(inq[1], c)
    BY <2>1, <2>2, <2>5 DEF Leaves
  <2>7. /\ DOMAIN inq = 1..Len(inq) /\ Len(inq) \in Nat /\ 1 \in DOMAIN inq
        /\ DOMAIN inq' = 1..(Len(inq) - 1)
        /\ \A i \in DOMAIN inq' : inq'[i] = inq[i + 1]
    BY <2>2, TailQueue
  <2>8. PICK j \in DOMAIN inq : 1 < j /\ Joins(inq[j], c)
    BY <2>4, <2>6, <2>7 DEF Rejoins
  <2>9. j - 1 \in DOMAIN inq' /\ (j - 1) + 1 = j
    BY <2>7, <2>8
  <2>10. inq'[j - 1] = inq[j]
    BY <2>7, <2>9
  <2> QED
    BY <2>8, <2>9, <2>10 DEF Joins
<1> HIDE DEF Kept
<1>2. Spec => [][Kept]_vars
  BY <1>1, ServerInvAlways, PTL DEF Spec
<1> QED
  BY <1>2 DEF Kept, NotForgotten

-----------------------------------------------------------------------------
(* The voice of a user: what the lines on the way say of it.               *)

\* NAMES of channel c, and a MODE that gives or takes the voice of u there.
Names(m, c) == m.cmd = "353" /\ m.ch = c
Moves(m, c, u) == m.cmd = "MODE" /\ m.ch = c /\ u \in VoicesOf(m)
Speaks(m, c, u) == Names(m, c) \/ Moves(m, c, u)

\* The line m says that u has voice in c (`is'), or has not.
Voices(m, c, u, is) ==
    /\ Names(m, c) => (u \in m.voiced) = is
    /\ Moves(m, c, u) => m.add = is

Silent(q, c, u) == \A i \in DOMAIN q : ~Speaks(q[i], c, u)
Nameless(q, c) == \A i \in DOMAIN q : ~Names(q[i], c)

\* The last line of q about the voice of u in c says `is'.
LastVoices(q, c, u, is) ==
    \A i \in DOMAIN q :
        Speaks(q[i], c, u) /\ (\A j \in DOMAIN q : i < j => ~Speaks(q[j], c, u))
            => Voices(q[i], c, u, is)

\* Before the last NAMES of c the bot leaves c.
LeftBefore(q, c) ==
    \A i \in DOMAIN q :
        Names(q[i], c) /\ (\A j \in DOMAIN q : i < j => ~Names(q[j], c))
            => \E j \in DOMAIN q : j < i /\ Leaves(q[j], c)

\* Between two NAMES of c the bot leaves c; behind each it does (Ended); behind
\* each leave comes a NAMES (Renewed).
Parted(q, c) ==
    \A i, j \in DOMAIN q : Names(q[i], c) /\ Names(q[j], c) /\ i < j =>
        \E k \in DOMAIN q : i < k /\ k < j /\ Leaves(q[k], c)
Ended(q, c) == \A i \in DOMAIN q : Names(q[i], c) => \E j \in DOMAIN q : i < j /\ Leaves(q[j], c)
Renewed(q, c) == \A i \in DOMAIN q : Leaves(q[i], c) => \E j \in DOMAIN q : i < j /\ Names(q[j], c)

\* The bot's JOIN comes with the NAMES, and a 311 with its 318.
Enters(m) == m.cmd = "JOIN" /\ m.who \notin Others
Paired(q) ==
    \A i \in DOMAIN q :
       /\ Enters(q[i]) => i + 1 \in DOMAIN q /\ Names(q[i + 1], q[i].ch)
       /\ q[i].cmd = "311" => i + 1 \in DOMAIN q /\ q[i + 1].cmd = "318"

\* A line is of one kind.
LEMMA Kinds ==
    ASSUME NEW m, NEW c, NEW u
    PROVE  /\ Names(m, c) => ~Moves(m, c, u) /\ ~Leaves(m, c) /\ ~Enters(m)
           /\ Speaks(m, c, u) => m.cmd \in {"353", "MODE"} /\ m.ch = c
           /\ Leaves(m, c) => ~Enters(m) /\ m.cmd # "311"
BY DEF Names, Moves, Speaks, Leaves, Enters

\* Where the lines of a queue are when the first is taken.
LEMMA TailIndex ==
    ASSUME NEW q, IsSeq(q), q # <<>>, NEW t, t = Tail(q)
    PROVE  /\ IsSeq(t) /\ 1 \in DOMAIN q
           /\ \A i \in DOMAIN t : i \in Nat /\ 0 < i /\ i + 1 \in DOMAIN q /\ t[i] = q[i + 1]
           /\ \A j \in DOMAIN q : /\ j \in Nat /\ j # 0
                                  /\ j = 1 \/ (j - 1 \in DOMAIN t /\ t[j - 1] = q[j])
<1>1. /\ IsSeq(t) /\ 1 \in DOMAIN q
      /\ DOMAIN q = 1..Len(q) /\ Len(q) \in Nat /\ DOMAIN t = 1..(Len(q) - 1)
      /\ \A i \in DOMAIN t : t[i] = q[i + 1]
  BY TailQueue
<1>2. ASSUME NEW j \in DOMAIN q, j # 1 PROVE j - 1 \in DOMAIN t /\ (j - 1) + 1 = j
  BY <1>1, <1>2
<1>3. ASSUME NEW j \in DOMAIN q, j # 1 PROVE t[j - 1] = q[j]
  BY <1>1, <1>2, <1>3
<1>4. \A i \in DOMAIN t : i \in Nat /\ 0 < i /\ i + 1 \in DOMAIN q
  BY <1>1
<1>5. \A j \in DOMAIN q : j \in Nat /\ j # 0
  BY <1>1
<1> QED
  BY <1>1, <1>2, <1>3, <1>4, <1>5

\* Where they are when a line is added.
LEMMA AppendIndex ==
    ASSUME NEW q, IsSeq(q), NEW m, NEW t, t = Append(q, m)
    PROVE  /\ IsSeq(t) /\ Len(q) + 1 \in DOMAIN t /\ t[Len(q) + 1] = m /\ Len(q) \in Nat
           /\ \A i \in DOMAIN q : i \in Nat /\ i # 0 /\ i < Len(q) + 1 /\ i \in DOMAIN t /\ t[i] = q[i]
           /\ \A i \in DOMAIN t : i \in Nat /\ (i \in DOMAIN q \/ i = Len(q) + 1)
BY AppendQueue

LEMMA LastVoicesTail ==
    ASSUME NEW q, IsSeq(q), q # <<>>, NEW c, NEW u, NEW is \in BOOLEAN, LastVoices(q, c, u, is)
    PROVE  /\ LastVoices(Tail(q), c, u, is)
           /\ Speaks(q[1], c, u) /\ Silent(Tail(q), c, u) => Voices(q[1], c, u, is)
<1> DEFINE t == Tail(q)
<1>1. /\ 1 \in DOMAIN q
      /\ \A i \in DOMAIN t : i \in Nat /\ 0 < i /\ i + 1 \in DOMAIN q /\ t[i] = q[i + 1]
      /\ \A j \in DOMAIN q : /\ j \in Nat /\ j # 0
                             /\ j = 1 \/ (j - 1 \in DOMAIN t /\ t[j - 1] = q[j])
  BY TailIndex
<1> HIDE DEF t
<1>2. ASSUME NEW i \in DOMAIN t, Speaks(t[i], c, u),
             \A j \in DOMAIN t : i < j => ~Speaks(t[j], c, u)
      PROVE  Voices(t[i], c, u, is)
  <2>1. i + 1 \in DOMAIN q /\ t[i] = q[i + 1] /\ i \in Nat /\ 0 < i
    BY <1>1
  <2>2. ASSUME NEW j \in DOMAIN q, i + 1 < j PROVE ~Speaks(q[j], c, u)
    BY <1>1, <1>2, <2>1, <2>2
  <2> QED
    BY <1>2, <2>1, <2>2 DEF LastVoices
<1>3. ASSUME Speaks(q[1], c, u), Silent(t, c, u) PROVE Voices(q[1], c, u, is)
  <2>1. ASSUME NEW j \in DOMAIN q, 1 < j PROVE ~Speaks(q[j], c, u)
    BY <1>1, <1>3, <2>1 DEF Silent
  <2> QED
    BY <1>1, <1>3, <2>1 DEF LastVoices
<1> QED
  BY <1>2, <1>3 DEF LastVoices, t

LEMMA LastVoicesAppend ==
    ASSUME NEW q, IsSeq(q), NEW m, NEW c, NEW u, NEW is \in BOOLEAN,
           \/ ~Speaks(m, c, u) /\ LastVoices(q, c, u, is)
           \/ Speaks(m, c, u) /\ Voices(m, c, u, is)
    PROVE  LastVoices(Append(q, m), c, u, is)
<1> DEFINE t == Append(q, m)
           l == Len(q) + 1
<1>1. /\ l \in DOMAIN t /\ t[l] = m /\ l \in Nat
      /\ \A i \in DOMAIN q : i \in Nat /\ i # 0 /\ i < l /\ i \in DOMAIN t /\ t[i] = q[i]
      /\ \A i \in DOMAIN t : i \in Nat /\ (i \in DOMAIN q \/ i = l)
  BY AppendIndex
<1> HIDE DEF t, l
<1> SUFFICES ASSUME NEW i \in DOMAIN t, Speaks(t[i], c, u),
                    \A j \in DOMAIN t : i < j => ~Speaks(t[j], c, u)
             PROVE  Voices(t[i], c, u, is)
  BY DEF LastVoices, t
<1>2. CASE i = l
  BY <1>1, <1>2
<1>3. CASE i \in DOMAIN q
  <2>1. i < l /\ t[i] = q[i] /\ ~Speaks(m, c, u)
    BY <1>1, <1>3
  <2>2. \A j \in DOMAIN q : i < j => ~Speaks(q[j], c, u)
    BY <1>1
  <2> QED
    BY <1>3, <2>1, <2>2 DEF LastVoices
<1> QED
  BY <1>1, <1>2, <1>3

\* The lines that keep order between the stays of the bot in c.
Ordered(q, c, is) ==
    Parted(q, c) /\ (is => Renewed(q, c)) /\ (~is => Ended(q, c))

LEMMA OrderedTail ==
    ASSUME NEW q, IsSeq(q), q # <<>>, NEW c, NEW is \in BOOLEAN, Ordered(q, c, is)
    PROVE  /\ Ordered(Tail(q), c, is)
           /\ is /\ Leaves(q[1], c) => ~Nameless(Tail(q), c)
<1> DEFINE t == Tail(q)
<1>1. /\ 1 \in DOMAIN q
      /\ \A i \in DOMAIN t : i \in Nat /\ 0 < i /\ i + 1 \in DOMAIN q /\ t[i] = q[i + 1]
      /\ \A j \in DOMAIN q : /\ j \in Nat /\ j # 0
                             /\ j = 1 \/ (j - 1 \in DOMAIN t /\ t[j - 1] = q[j])
  BY TailIndex
<1> HIDE DEF t
<1>2. ASSUME NEW i \in DOMAIN t, NEW j \in DOMAIN t, Names(t[i], c), Names(t[j], c), i < j
      PROVE  \E k \in DOMAIN t : i < k /\ k < j /\ Leaves(t[k], c)
  <2>1. /\ i \in Nat /\ j \in Nat /\ i + 1 \in DOMAIN q /\ j + 1 \in DOMAIN q
        /\ t[i] = q[i + 1] /\ t[j] = q[j + 1] /\ i + 1 < j + 1
    BY <1>1, <1>2
  <2>2. PICK k \in DOMAIN q : i + 1 < k /\ k < j + 1 /\ Leaves(q[k], c)
    BY <1>2, <2>1 DEF Ordered, Parted
  <2>3. k - 1 \in DOMAIN t /\ t[k - 1] = q[k] /\ i < k - 1 /\ k - 1 < j
    BY <1>1, <2>1, <2>2
  <2> QED
    BY <2>2, <2>3
<1>3. ASSUME is, NEW i \in DOMAIN t, Leaves(t[i], c)
      PROVE  \E j \in DOMAIN t : i < j /\ Names(t[j], c)
  <2>1. i \in Nat /\ i + 1 \in DOMAIN q /\ t[i] = q[i + 1]
    BY <1>1
  <2>2. PICK j \in DOMAIN q : i + 1 < j /\ Names(q[j], c)
    BY <1>3, <2>1 DEF Ordered, Renewed
  <2>3. j - 1 \in DOMAIN t /\ t[j - 1] = q[j] /\ i < j - 1
    BY <1>1, <2>1, <2>2
  <2> QED
    BY <2>2, <2>3
<1>4. ASSUME ~is, NEW i \in DOMAIN t, Names(t[i], c)
      PROVE  \E j \in DOMAIN t : i < j /\ Leaves(t[j], c)
  <2>1. i \in Nat /\ i + 1 \in DOMAIN q /\ t[i] = q[i + 1]
    BY <1>1
  <2>2. PICK j \in DOMAIN q : i + 1 < j /\ Leaves(q[j], c)
    BY <1>4, <2>1 DEF Ordered, Ended
  <2>3. j - 1 \in DOMAIN t /\ t[j - 1] = q[j] /\ i < j - 1
    BY <1>1, <2>1, <2>2
  <2> QED
    BY <2>2, <2>3
<1>5. ASSUME is, Leaves(q[1], c) PROVE ~Nameless(t, c)
  <2>1. PICK j \in DOMAIN q : 1 < j /\ Names(q[j], c)
    BY <1>1, <1>5 DEF Ordered, Renewed
  <2>2. j - 1 \in DOMAIN t /\ t[j - 1] = q[j]
    BY <1>1, <2>1
  <2> QED
    BY <2>1, <2>2 DEF Nameless
<1>6. Parted(t, c)
  BY <1>2 DEF Parted
<1>7. (is => Renewed(t, c)) /\ (~is => Ended(t, c))
  BY <1>3, <1>4 DEF Renewed, Ended
<1> QED
  BY <1>5, <1>6, <1>7 DEF Ordered, t

\* A line that is neither, NAMES when the bot comes in, and a leave when it goes.
LEMMA OrderedAppend ==
    ASSUME NEW q, IsSeq(q), NEW m, NEW c, NEW is \in BOOLEAN, NEW is2 \in BOOLEAN,
           Ordered(q, c, is),
           \/ ~Names(m, c) /\ ~Leaves(m, c) /\ is2 = is
           \/ Names(m, c) /\ ~is /\ is2
           \/ Leaves(m, c) /\ ~is2
    PROVE  Ordered(Append(q, m), c, is2)
<1> DEFINE t == Append(q, m)
           l == Len(q) + 1
<1>1. /\ l \in DOMAIN t /\ t[l] = m /\ l \in Nat
      /\ \A i \in DOMAIN q : i \in Nat /\ i # 0 /\ i < l /\ i \in DOMAIN t /\ t[i] = q[i]
      /\ \A i \in DOMAIN t : i \in Nat /\ (i \in DOMAIN q \/ i = l)
  BY AppendIndex
<1> HIDE DEF t, l
<1>0. ~(Names(m, c) /\ Leaves(m, c))
  BY Kinds
<1>2. ASSUME NEW i \in DOMAIN t, NEW j \in DOMAIN t, Names(t[i], c), Names(t[j], c), i < j
      PROVE  \E k \in DOMAIN t : i < k /\ k < j /\ Leaves(t[k], c)
  <2>1. i \in DOMAIN q /\ t[i] = q[i]
    BY <1>1, <1>2
  <2>2. CASE j \in DOMAIN q
    <3>1. t[j] = q[j]
      BY <1>1, <2>2
    <3>2. PICK k \in DOMAIN q : i < k /\ k < j /\ Leaves(q[k], c)
      BY <1>2, <2>1, <2>2, <3>1 DEF Ordered, Parted
    <3> QED
      BY <1>1, <3>2
  <2>3. CASE j = l
    <3>1. Ended(q, c)
      BY <1>0, <1>1, <1>2, <2>3 DEF Ordered
    <3>2. PICK k \in DOMAIN q : i < k /\ Leaves(q[k], c)
      BY <1>2, <2>1, <3>1 DEF Ended
    <3> QED
      BY <1>1, <2>3, <3>2
  <2> QED
    BY <1>1, <2>2, <2>3
<1>3. ASSUME is2, NEW i \in DOMAIN t, Leaves(t[i], c)
      PROVE  \E j \in DOMAIN t : i < j /\ Names(t[j], c)
  <2>1. ~Leaves(m, c)
    BY <1>0, <1>3
  <2>2. i \in DOMAIN q /\ t[i] = q[i] /\ i < l
    BY <1>1, <1>3, <2>1
  <2>3. CASE Names(m, c)
    BY <1>1, <2>2, <2>3
  <2>4. CASE ~Names(m, c)
    <3>1. Renewed(q, c)
      BY <1>3, <2>1, <2>4 DEF Ordered
    <3>2. PICK j \in DOMAIN q : i < j /\ Names(q[j], c)
      BY <1>3, <2>2, <3>1 DEF Renewed
    <3> QED
      BY <1>1, <3>2
  <2> QED
    BY <2>3, <2>4
<1>4. ASSUME ~is2, NEW i \in DOMAIN t, Names(t[i], c)
      PROVE  \E j \in DOMAIN t : i < j /\ Leaves(t[j], c)
  <2>1. ~Names(m, c)
    BY <1>0, <1>4
  <2>2. i \in DOMAIN q /\ t[i] = q[i] /\ i < l
    BY <1>1, <1>4, <2>1
  <2>3. CASE Leaves(m, c)
    BY <1>1, <2>2, <2>3
  <2>4. CASE ~Leaves(m, c)
    <3>1. Ended(q, c)
      BY <1>4, <2>1, <2>4 DEF Ordered
    <3>2. PICK j \in DOMAIN q : i < j /\ Leaves(q[j], c)
      BY <1>4, <2>2, <3>1 DEF Ended
    <3> QED
      BY <1>1, <3>2
  <2> QED
    BY <2>3, <2>4
<1>5. Parted(t, c)
  BY <1>2 DEF Parted
<1>6. (is2 => Renewed(t, c)) /\ (~is2 => Ended(t, c))
  BY <1>3, <1>4 DEF Renewed, Ended
<1> QED
  BY <1>5, <1>6 DEF Ordered, t

LEMMA LeftBeforeTail ==
    ASSUME NEW q, IsSeq(q), q # <<>>, NEW c
    PROVE  /\ LeftBefore(q, c) /\ ~Leaves(q[1], c) => LeftBefore(Tail(q), c)
           /\ Parted(q, c) /\ Names(q[1], c) => LeftBefore(Tail(q), c)
           /\ LeftBefore(q, c) /\ Names(q[1], c) => ~Nameless(Tail(q), c)
<1> DEFINE t == Tail(q)
<1>1. /\ 1 \in DOMAIN q
      /\ \A i \in DOMAIN t : i \in Nat /\ 0 < i /\ i + 1 \in DOMAIN q /\ t[i] = q[i + 1]
      /\ \A j \in DOMAIN q : /\ j \in Nat /\ j # 0
                             /\ j = 1 \/ (j - 1 \in DOMAIN t /\ t[j - 1] = q[j])
  BY TailIndex
<1> HIDE DEF t
<1>2. ASSUME \/ LeftBefore(q, c) /\ ~Leaves(q[1], c)
             \/ Parted(q, c) /\ Names(q[1], c),
             NEW i \in DOMAIN t, Names(t[i], c), \A j \in DOMAIN t : i < j => ~Names(t[j], c)
      PROVE  \E j \in DOMAIN t : j < i /\ Leaves(t[j], c)
  <2>1. i + 1 \in DOMAIN q /\ t[i] = q[i + 1] /\ i \in Nat /\ 0 < i
    BY <1>1
  <2>2. ASSUME NEW j \in DOMAIN q, i + 1 < j PROVE ~Names(q[j], c)
    BY <1>1, <1>2, <2>1, <2>2
  <2>3. \E k \in DOMAIN q : 1 < k /\ k < i + 1 /\ Leaves(q[k], c)
    <3>1. CASE LeftBefore(q, c) /\ ~Leaves(q[1], c)
      <4>1. PICK k \in DOMAIN q : k < i + 1 /\ Leaves(q[k], c)
        BY <1>2, <2>1, <2>2, <3>1 DEF LeftBefore
      <4>2. k # 1 /\ k \in Nat /\ k # 0
        BY <1>1, <3>1, <4>1
      <4> QED
        BY <4>1, <4>2
    <3>2. CASE Parted(q, c) /\ Names(q[1], c)
      BY <1>1, <1>2, <2>1, <3>2 DEF Parted
    <3> QED
      BY <1>2, <3>1, <3>2
  <2>4. PICK k \in DOMAIN q : 1 < k /\ k < i + 1 /\ Leaves(q[k], c)
    BY <2>3
  <2>5. k - 1 \in DOMAIN t /\ t[k - 1] = q[k] /\ k - 1 < i
    BY <1>1, <2>1, <2>4
  <2> QED
    BY <2>4, <2>5
<1>3. ASSUME LeftBefore(q, c), Names(q[1], c), Nameless(t, c) PROVE FALSE
  <2>1. ASSUME NEW j \in DOMAIN q, 1 < j PROVE ~Names(q[j], c)
    BY <1>1, <1>3, <2>1 DEF Nameless
  <2>2. PICK j \in DOMAIN q : j < 1 /\ Leaves(q[j], c)
    BY <1>1, <1>3, <2>1 DEF LeftBefore
  <2> QED
    BY <1>1, <2>2
<1>4. /\ LeftBefore(q, c) /\ ~Leaves(q[1], c) => LeftBefore(t, c)
      /\ Parted(q, c) /\ Names(q[1], c) => LeftBefore(t, c)
  BY <1>2 DEF LeftBefore
<1> QED
  BY <1>3, <1>4 DEF t

LEMMA LeftBeforeAppend ==
    ASSUME NEW q, IsSeq(q), NEW m, NEW c,
           \/ ~Names(m, c) /\ LeftBefore(q, c)
           \/ Names(m, c) /\ \E i \in DOMAIN q : Leaves(q[i], c)
    PROVE  LeftBefore(Append(q, m), c)
<1> DEFINE t == Append(q, m)
           l == Len(q) + 1
<1>1. /\ l \in DOMAIN t /\ t[l] = m /\ l \in Nat
      /\ \A i \in DOMAIN q : i \in Nat /\ i # 0 /\ i < l /\ i \in DOMAIN t /\ t[i] = q[i]
      /\ \A i \in DOMAIN t : i \in Nat /\ (i \in DOMAIN q \/ i = l)
  BY AppendIndex
<1> HIDE DEF t, l
<1> SUFFICES ASSUME NEW i \in DOMAIN t, Names(t[i], c),
                    \A j \in DOMAIN t : i < j => ~Names(t[j], c)
             PROVE  \E j \in DOMAIN t : j < i /\ Leaves(t[j], c)
  BY DEF LeftBefore, t
<1>2. CASE i = l
  <2>1. PICK j \in DOMAIN q : Leaves(q[j], c)
    BY <1>1, <1>2
  <2> QED
    BY <1>1, <1>2, <2>1
<1>3. CASE i \in DOMAIN q
  <2>1. i < l /\ t[i] = q[i] /\ ~Names(m, c)
    BY <1>1, <1>3
  <2>2. \A j \in DOMAIN q : i < j => ~Names(q[j], c)
    BY <1>1
  <2>3. PICK j \in DOMAIN q : j < i /\ Leaves(q[j], c)
    BY <1>3, <2>1, <2>2 DEF LeftBefore
  <2> QED
    BY <1>1, <2>3
<1> QED
  BY <1>1, <1>2, <1>3

LEMMA PairedTail ==
    ASSUME NEW q, IsSeq(q), q # <<>>, Paired(q)
    PROVE  /\ Paired(Tail(q))
           /\ Enters(q[1]) => ~Nameless(Tail(q), q[1].ch)
           /\ q[1].cmd = "311" => Tail(q) # <<>> /\ Tail(q)[1].cmd = "318"
<1> DEFINE t == Tail(q)
<1>1. /\ 1 \in DOMAIN q
      /\ \A i \in DOMAIN t : i \in Nat /\ 0 < i /\ i + 1 \in DOMAIN q /\ t[i] = q[i + 1]
      /\ \A j \in DOMAIN q : /\ j \in Nat /\ j # 0
                             /\ j = 1 \/ (j - 1 \in DOMAIN t /\ t[j - 1] = q[j])
  BY TailIndex
<1> HIDE DEF t
<1>2. ASSUME NEW i \in DOMAIN t
      PROVE  /\ Enters(t[i]) => i + 1 \in DOMAIN t /\ Names(t[i + 1], t[i].ch)
             /\ t[i].cmd = "311" => i + 1 \in DOMAIN t /\ t[i + 1].cmd = "318"
  <2>1. i \in Nat /\ 0 < i /\ i + 1 \in DOMAIN q /\ t[i] = q[i + 1]
    BY <1>1
  <2>2. (i + 1) + 1 \in DOMAIN q => i + 1 \in DOMAIN t /\ t[i + 1] = q[(i + 1) + 1]
    <3>1. (i + 1) + 1 # 1 /\ ((i + 1) + 1) - 1 = i + 1
      BY <2>1
    <3> QED
      BY <1>1, <3>1
  <2> QED
    BY <2>1, <2>2 DEF Paired
<1>3. /\ Enters(q[1]) => 2 \in DOMAIN q /\ Names(q[2], q[1].ch)
      /\ q[1].cmd = "311" => 2 \in DOMAIN q /\ q[2].cmd = "318"
  <2>1. 1 + 1 = 2
    OBVIOUS
  <2> QED
    BY <1>1, <2>1 DEF Paired
<1>4. 2 \in DOMAIN q => 1 \in DOMAIN t /\ t[1] = q[2]
  <2>1. 2 - 1 = 1 /\ 2 # 1
    OBVIOUS
  <2> QED
    BY <1>1, <2>1
<1>5. 1 \in DOMAIN t => t # <<>>
  BY EmptyQueue
<1> QED
  BY <1>2, <1>3, <1>4, <1>5 DEF Paired, Nameless, t

LEMMA PairedAppend ==
    ASSUME NEW q, IsSeq(q), Paired(q), NEW m, ~Enters(m), m.cmd # "311"
    PROVE  Paired(Append(q, m))
<1> DEFINE t == Append(q, m)
           l == Len(q) + 1
<1>1. /\ t[l] = m
      /\ \A i \in DOMAIN q : i \in DOMAIN t /\ t[i] = q[i]
      /\ \A i \in DOMAIN t : i \in DOMAIN q \/ i = l
  BY AppendIndex
<1> HIDE DEF t, l
<1> QED
  BY <1>1 DEF Paired, t

LEMMA PairedTwo ==
    ASSUME NEW q, IsSeq(q), Paired(q), NEW m, NEW n, ~Enters(n), n.cmd # "311",
           Enters(m) => Names(n, m.ch), m.cmd = "311" => n.cmd = "318"
    PROVE  Paired(Append(Append(q, m), n))
<1> DEFINE t == Append(q, m)
           v == Append(t, n)
           l == Len(q) + 1
<1>1. /\ IsSeq(t) /\ t[l] = m /\ l \in DOMAIN t /\ Len(t) = l
      /\ \A i \in DOMAIN q : i \in DOMAIN t /\ t[i] = q[i]
      /\ \A i \in DOMAIN t : i \in DOMAIN q \/ i = l
  BY AppendIndex, AppendQueue
<1> HIDE DEF t
<1>2. /\ l + 1 \in DOMAIN v /\ v[l + 1] = n
      /\ \A i \in DOMAIN t : i \in DOMAIN v /\ v[i] = t[i]
      /\ \A i \in DOMAIN v : i \in DOMAIN t \/ i = l + 1
  BY <1>1, AppendIndex
<1> HIDE DEF v, l
<1>3. ASSUME NEW i \in DOMAIN v
      PROVE  /\ Enters(v[i]) => i + 1 \in DOMAIN v /\ Names(v[i + 1], v[i].ch)
             /\ v[i].cmd = "311" => i + 1 \in DOMAIN v /\ v[i + 1].cmd = "318"
  <2>1. CASE i \in DOMAIN q
    BY <1>1, <1>2, <2>1 DEF Paired
  <2>2. CASE i = l
    BY <1>1, <1>2, <2>2
  <2>3. CASE i = l + 1
    BY <1>2, <2>3
  <2> QED
    BY <1>1, <1>2, <2>1, <2>2, <2>3
<1> QED
  BY <1>3 DEF Paired, v, t

\* The arguments the network gives to the letters of a MODE message are read
\* back right when the letters without one come last.
LEMMA ArgumentsRead ==
    ASSUME NEW s, s \in Seq({"o", "v", "b", "n"}), NEW u,
           \A k, l \in DOMAIN s : s[k] = "n" /\ k <= l => s[l] = "n",
           NEW m, m.letters = s, m.args = ArgsFor(s, u)
    PROVE  VoicesOf(m) = IF "v" \in Range(s) THEN {u} ELSE {}
<1> DEFINE at == {k \in DOMAIN s : s[k] # "n"}
           upto(i) == {j \in at : j <= i}
           nth(i) == CHOOSE k \in at : Cardinality(upto(k)) = i
           args == [i \in 1..Cardinality(at) |-> IF s[nth(i)] = "b" THEN "mask" ELSE u]
<1>1. DOMAIN s = 1..Len(s) /\ Len(s) \in Nat
  BY LenProperties
<1>2. ArgsFor(s, u) = args
  BY DEF ArgsFor
<1>3. IsFiniteSet(at)
  <2>1. IsFiniteSet(1..Len(s)) /\ at \in SUBSET (1..Len(s))
    BY <1>1, FS_Interval
  <2> QED
    BY <2>1, FS_Subset
<1>4. ASSUME NEW k \in at
      PROVE  Cardinality(upto(k)) = k /\ k \in 1..Cardinality(at)
  <2>1. k \in DOMAIN s /\ k \in Nat /\ k >= 1
    BY <1>1
  <2>2. \A j \in 1..k : j \in at
    <3> SUFFICES ASSUME NEW j \in 1..k, s[j] = "n" PROVE FALSE
      BY <1>1, <2>1
    <3>1. j \in DOMAIN s /\ j <= k
      BY <1>1, <2>1
    <3> QED
      BY <2>1, <3>1
  <2>3. upto(k) = 1..k
    BY <1>1, <2>1, <2>2
  <2>4. Cardinality(1..k) = k
    BY <2>1, FS_Interval
  <2>5. upto(k) \in SUBSET at
    OBVIOUS
  <2>6. Cardinality(upto(k)) <= Cardinality(at) /\ Cardinality(at) \in Nat
    BY <1>3, <2>5, FS_Subset, FS_CardinalityType
  <2> HIDE DEF at, upto
  <2> QED
    BY <2>1, <2>3, <2>4, <2>6
<1>5. ASSUME NEW k \in at PROVE nth(k) = k
  <2>1. \A j \in at : Cardinality(upto(j)) = j
    BY <1>4
  <2> HIDE DEF at, upto
  <2> QED
    BY <2>1
<1>6. ASSUME NEW k \in DOMAIN s, s[k] = "v"
      PROVE  k \in DOMAIN args /\ args[k] = u
  <2>1. k \in at
    BY <1>6
  <2>2. k \in 1..Cardinality(at) /\ nth(k) = k
    BY <1>4, <1>5, <2>1
  <2> HIDE DEF at, nth
  <2> QED
    BY <1>6, <2>2
<1>7. VoicesOf(m) = {args[k] : k \in {k \in DOMAIN s : s[k] = "v" /\ k \in DOMAIN args}}
  BY <1>2 DEF VoicesOf, ArgOf
<1> HIDE DEF args
<1>8. CASE "v" \in Range(s)
  <2>1. PICK k \in DOMAIN s : s[k] = "v"
    BY <1>8 DEF Range
  <2> QED
    BY <1>6, <1>7, <1>8, <2>1
<1>9. CASE "v" \notin Range(s)
  <2>1. \A k \in DOMAIN s : s[k] # "v"
    BY <1>9 DEF Range
  <2> QED
    BY <1>7, <1>9, <2>1
<1> QED
  BY <1>8, <1>9

-----------------------------------------------------------------------------
(* What the handlers do to the tables of users.                            *)

\* A table has a row for each channel.
OnChannels(f) == f = [c \in Channels |-> f[c]]

\* The line m, which the consumer handles, is cmd about c.
Told(m, cmd, c) == ~whois /\ m.cmd = cmd /\ m.ch = c
Expelled(m, c) ==
    (Told(m, "KICK", c) \/ Told(m, "PART", c)) /\ irc_server_is_self(m.who)

\* The users of c, and those with voice, once m is handled.
UsersAfter(m, c) ==
    IF Told(m, "353", c) THEN users[c] \cup m.names
    ELSE IF Expelled(m, c) THEN {}
    ELSE IF Told(m, "KICK", c) THEN users[c] \ {m.who} ELSE users[c]
VoiceAfter(m, c) ==
    IF Told(m, "353", c) THEN voice[c] \cup (m.voiced \ users[c])
    ELSE IF Expelled(m, c) THEN {}
    ELSE IF Told(m, "KICK", c) THEN voice[c] \ {m.who}
    ELSE IF Told(m, "MODE", c) /\ c \in Listed /\ irc_server_modes_find("v") # 0
    THEN IF m.add THEN voice[c] \cup (VoicesOf(m) \cap users[c]) ELSE voice[c] \ VoicesOf(m)
    ELSE voice[c]

LEMMA EmptyRows ==
    OnChannels([c \in Channels |-> {}]) /\ \A c \in Channels : [d \in Channels |-> {}][c] = {}
BY DEF OnChannels

\* The tables after the line at the head of the queue.
TablesSet ==
    LET m == inq[1] IN
    /\ OnChannels(users') /\ OnChannels(voice')
    /\ \A c \in Channels :
          /\ users'[c] = UsersAfter(m, c) /\ voice'[c] = VoiceAfter(m, c)
          /\ c \in Listed /\ ~Expelled(m, c) => c \in Listed'
          /\ Told(m, "353", c) => c \in Listed'
          /\ Expelled(m, c) => users'[c] = {}

LEMMA HandlerTables ==
    ASSUME SessionInv, Handlers, OnChannels(users), OnChannels(voice)
    PROVE  TablesSet
<1> USE DEF SessionInv
<1>1. inq # <<>> /\ Msg = inq[1] /\ Msg \in Range(inq) /\ IsSeq(inq)
  BY HandlerFrame, TailQueue DEF Msg
<1>2. Msg.cmd \in {"INVITE", "JOIN", "KICK", "PART", "MODE", "353"} =>
        "ch" \in DOMAIN Msg /\ Msg.ch \in Channels
  BY <1>1 DEF Typed
<1> DEFINE m == inq[1]
<1>3. ASSUME UNCHANGED <<users, voice>>, Listed \subseteq Listed',
             whois \/ m.cmd \notin {"353", "KICK", "PART", "MODE"}
      PROVE  TablesSet
  BY <1>3 DEF TablesSet, UsersAfter, VoiceAfter, Told, Expelled
<1>4. \A d \in Channels : channels' = irc_server_channels_add(d) => Listed' = Listed \cup {d}
  BY AddOne DEF Listed
<1>5. UNCHANGED channels => Listed' = Listed
  BY DEF Listed
<1>6. CASE irc_server_handle_disconnect
  BY <1>1, <1>3, <1>5, <1>6 DEF irc_server_handle_disconnect, Handles, botVars
<1>7. CASE irc_server_handle_connect
  BY <1>1, <1>3, <1>5, <1>7 DEF irc_server_handle_connect, Handles, botVars
<1>8. CASE irc_server_handle_support
  BY <1>1, <1>3, <1>5, <1>8 DEF irc_server_handle_support, Handles
<1>9. CASE irc_server_handle_invite
  <2>1. UNCHANGED <<users, voice>> /\ Msg.cmd = "INVITE" /\ Listed \subseteq Listed'
    BY <1>2, <1>4, <1>5, <1>9 DEF irc_server_handle_invite, Handles
  <2> QED
    BY <1>1, <1>3, <2>1
<1>10. CASE irc_server_handle_join
  <2>1. UNCHANGED <<users, voice>> /\ Msg.cmd = "JOIN" /\ Listed \subseteq Listed'
    BY <1>2, <1>4, <1>10 DEF irc_server_handle_join, Handles
  <2> QED
    BY <1>1, <1>3, <2>1
<1>11. CASE irc_server_handle_kick
  <2> DEFINE d == m.ch
  <2>1. d \in Channels /\ m.cmd = "KICK" /\ ~whois /\ Listed' = Listed \cup {d}
    BY <1>1, <1>2, <1>4, <1>11 DEF irc_server_handle_kick, Handles
  <2>2. CASE irc_server_is_self(m.who)
    <3>1. users' = [users EXCEPT ![d] = {}] /\ voice' = [voice EXCEPT ![d] = {}]
      BY <1>1, <1>11, <2>2 DEF irc_server_handle_kick, irc_channel_clear
    <3>2. OnChannels(users') /\ OnChannels(voice')
          /\ \A c \in Channels : /\ users'[c] = IF c = d THEN {} ELSE users[c]
                                 /\ voice'[c] = IF c = d THEN {} ELSE voice[c]
      BY <2>1, <3>1 DEF OnChannels
    <3> QED
      BY <2>1, <2>2, <3>2 DEF TablesSet, UsersAfter, VoiceAfter, Told, Expelled
  <2>3. CASE ~irc_server_is_self(m.who)
    <3>1. /\ users' = [users EXCEPT ![d] = users[d] \ {m.who}]
          /\ voice' = [voice EXCEPT ![d] = voice[d] \ {m.who}]
      BY <1>1, <1>11, <2>3 DEF irc_server_handle_kick, irc_channel_remove
    <3>2. OnChannels(users') /\ OnChannels(voice')
          /\ \A c \in Channels : /\ users'[c] = IF c = d THEN users[d] \ {m.who} ELSE users[c]
                                 /\ voice'[c] = IF c = d THEN voice[d] \ {m.who} ELSE voice[c]
      BY <2>1, <3>1 DEF OnChannels
    <3> QED
      BY <2>1, <2>3, <3>2 DEF TablesSet, UsersAfter, VoiceAfter, Told, Expelled
  <2> QED
    BY <2>2, <2>3
<1>12. CASE irc_server_handle_part
  <2> DEFINE d == m.ch
  <2>1. d \in Channels /\ m.cmd = "PART" /\ ~whois
    BY <1>1, <1>2, <1>12 DEF irc_server_handle_part, Handles
  <2>2. CASE irc_server_is_self(m.who)
    <3>1. irc_server_channels_remove(d)
      BY <1>1, <1>12, <2>2 DEF irc_server_handle_part
    <3>2. /\ users' = [users EXCEPT ![d] = {}] /\ voice' = [voice EXCEPT ![d] = {}]
          /\ Listed' = Listed \ {d}
      BY <3>1, RemoveOne DEF irc_server_channels_remove, irc_channel_clear
    <3>3. OnChannels(users') /\ OnChannels(voice')
          /\ \A c \in Channels : /\ users'[c] = IF c = d THEN {} ELSE users[c]
                                 /\ voice'[c] = IF c = d THEN {} ELSE voice[c]
      BY <2>1, <3>2 DEF OnChannels
    <3> QED
      BY <2>1, <2>2, <3>2, <3>3 DEF TablesSet, UsersAfter, VoiceAfter, Told, Expelled
  <2>3. CASE ~irc_server_is_self(m.who)
    <3>1. UNCHANGED <<users, voice>> /\ Listed' = Listed
      BY <1>1, <1>5, <1>12, <2>3 DEF irc_server_handle_part
    <3> QED
      BY <2>1, <2>3, <3>1 DEF TablesSet, UsersAfter, VoiceAfter, Told, Expelled
  <2> QED
    BY <2>2, <2>3
<1>13. CASE irc_server_handle_nick
  BY <1>1, <1>3, <1>5, <1>13 DEF irc_server_handle_nick, Handles
<1>14. CASE irc_server_handle_mode
  <2> DEFINE d == m.ch
             x == IF m.add THEN voice[d] \cup (VoicesOf(m) \cap users[d]) ELSE voice[d] \ VoicesOf(m)
  <2>1. d \in Channels /\ m.cmd = "MODE" /\ ~whois /\ Listed' = Listed /\ users' = users
    BY <1>1, <1>2, <1>5, <1>14 DEF irc_server_handle_mode, Handles
  <2>2. voice' = IF d \notin Listed \/ irc_server_modes_find("v") = 0 THEN voice
                 ELSE [voice EXCEPT ![d] = x]
    BY <1>1, <1>14 DEF irc_server_handle_mode
  <2>3. CASE d \notin Listed \/ irc_server_modes_find("v") = 0
    BY <2>1, <2>2, <2>3 DEF TablesSet, UsersAfter, VoiceAfter, Told, Expelled
  <2>4. CASE d \in Listed /\ irc_server_modes_find("v") # 0
    <3>1. OnChannels(voice') /\ \A c \in Channels : voice'[c] = IF c = d THEN x ELSE voice[c]
      <4> HIDE DEF x
      <4>1. voice' = [voice EXCEPT ![d] = x]
        BY <2>2, <2>4
      <4> QED
        BY <2>1, <4>1 DEF OnChannels
    <3> QED
      BY <2>1, <2>4, <3>1 DEF TablesSet, UsersAfter, VoiceAfter, Told, Expelled
  <2> QED
    BY <2>3, <2>4
<1>15. CASE irc_server_handle_names
  <2> DEFINE d == m.ch
  <2>1. d \in Channels /\ m.cmd = "353" /\ ~whois /\ Listed' = Listed \cup {d}
    BY <1>1, <1>2, <1>4, <1>15 DEF irc_server_handle_names, Handles
  <2>2. /\ users' = [users EXCEPT ![d] = users[d] \cup m.names]
        /\ voice' = [voice EXCEPT ![d] = voice[d] \cup (m.voiced \ users[d])]
    BY <1>1, <1>15 DEF irc_server_handle_names, irc_channel_add
  <2>3. OnChannels(users') /\ OnChannels(voice')
        /\ \A c \in Channels :
              /\ users'[c] = IF c = d THEN users[d] \cup m.names ELSE users[c]
              /\ voice'[c] = IF c = d THEN voice[d] \cup (m.voiced \ users[d]) ELSE voice[c]
    BY <2>1, <2>2 DEF OnChannels
  <2> QED
    BY <2>1, <2>3 DEF TablesSet, UsersAfter, VoiceAfter, Told, Expelled
<1>16. CASE irc_server_handle_ping
  BY <1>1, <1>3, <1>5, <1>16 DEF irc_server_handle_ping, Handles, botVars
<1>17. CASE irc_server_handle_event
  BY <1>1, <1>3, <1>5, <1>17 DEF irc_server_handle_event, Handles, botVars
<1>18. CASE irc_server_handle_whoisuser
  BY <1>1, <1>3, <1>5, <1>18 DEF irc_server_handle_whoisuser, Handles
<1>19. CASE irc_server_whois_pull
  BY <1>1, <1>3, <1>5, <1>19 DEF irc_server_whois_pull
<1> QED
  BY <1>6, <1>7, <1>8, <1>9, <1>10, <1>11, <1>12, <1>13, <1>14, <1>15, <1>16, <1>17, <1>18, <1>19
  DEF Handlers

\* The handlers of 005, 311 and 318 set the modes and the loop of a WHOIS.
LEMMA HandlerModes ==
    ASSUME SessionInv, Handlers
    PROVE  /\ prefixes' = IF ~whois /\ inq[1].cmd = "005" THEN inq[1].prefixes ELSE prefixes
           /\ whois' <=> IF whois THEN inq[1].cmd # "318" ELSE inq[1].cmd = "311"
           /\ UNCHANGED steady
<1>1. Msg = inq[1]
  BY HandlerFrame, TailQueue DEF Msg, SessionInv
<1> USE DEF Handles, botVars, histVars
<1>2. CASE irc_server_handle_disconnect
  BY <1>1, <1>2 DEF irc_server_handle_disconnect
<1>3. CASE irc_server_handle_connect
  BY <1>1, <1>3 DEF irc_server_handle_connect
<1>4. CASE irc_server_handle_support
  BY <1>1, <1>4 DEF irc_server_handle_support
<1>5. CASE irc_server_handle_invite
  BY <1>1, <1>5 DEF irc_server_handle_invite
<1>6. CASE irc_server_handle_join
  BY <1>1, <1>6 DEF irc_server_handle_join
<1>7. CASE irc_server_handle_kick
  BY <1>1, <1>7 DEF irc_server_handle_kick
<1>8. CASE irc_server_handle_part
  BY <1>1, <1>8 DEF irc_server_handle_part
<1>9. CASE irc_server_handle_nick
  BY <1>1, <1>9 DEF irc_server_handle_nick
<1>10. CASE irc_server_handle_mode
  BY <1>1, <1>10 DEF irc_server_handle_mode
<1>11. CASE irc_server_handle_names
  BY <1>1, <1>11 DEF irc_server_handle_names
<1>12. CASE irc_server_handle_ping
  BY <1>1, <1>12 DEF irc_server_handle_ping
<1>13. CASE irc_server_handle_event
  BY <1>1, <1>13 DEF irc_server_handle_event
<1>14. CASE irc_server_handle_whoisuser
  BY <1>1, <1>14 DEF irc_server_handle_whoisuser
<1>15. CASE irc_server_whois_pull
  BY <1>1, <1>15 DEF irc_server_whois_pull
<1> QED
  BY <1>2, <1>3, <1>4, <1>5, <1>6, <1>7, <1>8, <1>9, <1>10, <1>11, <1>12, <1>13, <1>14, <1>15
  DEF Handlers

\* Only a line about the bot settles a channel, and none that the loop of a
\* WHOIS drops is forgotten.
LEMMA HandlerAstray ==
    ASSUME SessionInv, Handlers, sess = "reg", NEW c \in Channels, c \notin astray'
    PROVE  /\ c \in astray => ~whois /\ ((Enters(inq[1]) /\ inq[1].ch = c) \/ Expelled(inq[1], c))
           /\ whois => ~("ch" \in DOMAIN inq[1] /\ inq[1].ch = c)
<1> USE DEF Handles, botVars, histVars
<1>1. Msg = inq[1] /\ real \notin Others
  BY HandlerFrame, TailQueue DEF Msg, SessionInv
<1>2. CASE irc_server_handle_disconnect
  BY <1>1, <1>2 DEF irc_server_handle_disconnect
<1>3. CASE irc_server_handle_connect
  BY <1>1, <1>3 DEF irc_server_handle_connect
<1>4. CASE irc_server_handle_support
  BY <1>1, <1>4 DEF irc_server_handle_support
<1>5. CASE irc_server_handle_invite
  BY <1>1, <1>5 DEF irc_server_handle_invite
<1>6. CASE irc_server_handle_join
  BY <1>1, <1>6 DEF irc_server_handle_join, Settled, Enters
<1>7. CASE irc_server_handle_kick
  <2>1. Msg.cmd = "KICK" /\ ~whois
    BY <1>7 DEF irc_server_handle_kick
  <2>2. CASE irc_server_is_self(Msg.who)
    <3>1. \E r : astray' = (astray \ {Msg.ch}) \cup r
      BY <1>7, <2>2 DEF irc_server_handle_kick, Settled
    <3> QED
      BY <1>1, <2>1, <2>2, <3>1 DEF Expelled, Told
  <2>3. CASE ~irc_server_is_self(Msg.who)
    BY <1>1, <1>7, <2>1, <2>3 DEF irc_server_handle_kick
  <2> QED
    BY <2>2, <2>3
<1>8. CASE irc_server_handle_part
  <2>1. Msg.cmd = "PART" /\ ~whois
    BY <1>8 DEF irc_server_handle_part
  <2>2. CASE irc_server_is_self(Msg.who)
    BY <1>1, <1>8, <2>1, <2>2 DEF irc_server_handle_part, Settled, Expelled, Told
  <2>3. CASE ~irc_server_is_self(Msg.who)
    BY <1>1, <1>8, <2>1, <2>3 DEF irc_server_handle_part
  <2> QED
    BY <2>2, <2>3
<1>9. CASE irc_server_handle_nick
  BY <1>1, <1>9 DEF irc_server_handle_nick
<1>10. CASE irc_server_handle_mode
  BY <1>1, <1>10 DEF irc_server_handle_mode
<1>11. CASE irc_server_handle_names
  BY <1>1, <1>11 DEF irc_server_handle_names
<1>12. CASE irc_server_handle_ping
  BY <1>1, <1>12 DEF irc_server_handle_ping
<1>13. CASE irc_server_handle_event
  BY <1>1, <1>13 DEF irc_server_handle_event
<1>14. CASE irc_server_handle_whoisuser
  BY <1>1, <1>14 DEF irc_server_handle_whoisuser
<1>15. CASE irc_server_whois_pull
  BY <1>1, <1>15 DEF irc_server_whois_pull
<1> QED
  BY <1>2, <1>3, <1>4, <1>5, <1>6, <1>7, <1>8, <1>9, <1>10, <1>11, <1>12, <1>13, <1>14, <1>15
  DEF Handlers

\* A call other than irc_server_disconnect leaves them all alone.
LEMMA CallTables ==
    ASSUME SessionInv, Calls, ~irc_server_disconnect
    PROVE  /\ UNCHANGED <<inq, netVars, users, voice, prefixes, whois, steady>>
           /\ Listed \subseteq Listed'
           /\ astray \subseteq astray' /\ ("nickname" \in astray <=> "nickname" \in astray')
<1>1. /\ UNCHANGED <<inq, netVars>>
      /\ astray \subseteq astray' /\ ("nickname" \in astray <=> "nickname" \in astray')
  BY CallFrame
<1>2. UNCHANGED channels => Listed' = Listed
  BY DEF Listed
<1>3. \A c \in Channels : channels' = irc_server_channels_add(c) => Listed' = Listed \cup {c}
  BY AddOne DEF Listed, SessionInv
<1>4. ASSUME NEW c \in Channels, irc_server_join(c)
      PROVE  UNCHANGED <<users, voice, prefixes, whois, steady>> /\ Listed \subseteq Listed'
  BY <1>3, <1>4 DEF irc_server_join
<1>5. ASSUME NEW l, irc_server_part(l)
      PROVE  UNCHANGED <<users, voice, prefixes, whois, steady>> /\ Listed \subseteq Listed'
  BY <1>2, <1>5 DEF irc_server_part, botVars, histVars
<1>6. ASSUME NEW n \in Nicks, irc_server_set_nickname(n)
      PROVE  UNCHANGED <<users, voice, prefixes, whois, steady>> /\ Listed \subseteq Listed'
  BY <1>2, <1>6 DEF irc_server_set_nickname, histVars
<1>7. CASE irc_server_connect
  BY <1>1, <1>2, <1>7 DEF irc_server_connect, botVars, histVars
<1> QED
  BY <1>1, <1>4, <1>5, <1>6, <1>7 DEF Calls

-----------------------------------------------------------------------------
(* The tables of users and of voices.                                      *)

\* The network says which modes there are before it uses one, and lists no voice
\* of a user it does not name.
Tidy(q) ==
    \A m \in Range(q) : /\ m.cmd = "005" => m.prefixes = <<"o", "v">>
                        /\ m.cmd = "353" => m.voiced \subseteq m.names

TablesInv ==
    /\ OnChannels(users) /\ OnChannels(voice)
    /\ OnChannels(members) /\ OnChannels(netvoice) /\ OnChannels(steady)
    /\ \A c \in Channels : /\ voice[c] \subseteq users[c]
                           /\ netvoice[c] \subseteq members[c]
                           /\ users[c] # {} => c \in Listed
    /\ Tidy(inq)

\* The modes of a session are known before a line that needs them, and before
\* the loop of a WHOIS.
PrefixesInv ==
    /\ prefixes \in {<<>>, <<"o", "v">>}
    /\ prefixes = <<>> =>
          /\ ~whois
          /\ \A i \in DOMAIN inq : inq[i].cmd \in {"MODE", "311"} =>
                \E j \in DOMAIN inq : j < i /\ inq[j].cmd = "005"
          /\ sess = "reg" => \E j \in DOMAIN inq : inq[j].cmd = "005"

LEMMA TablesInit == Init => TablesInv /\ PrefixesInv
<1> SUFFICES ASSUME Init PROVE TablesInv /\ PrefixesInv
  OBVIOUS
<1>1. Range(inq) = {} /\ DOMAIN inq = {}
  BY EmptyQueue DEF Init
<1> QED
  BY <1>1 DEF Init, TablesInv, PrefixesInv, OnChannels, Tidy

LEMMA HandlerTablesInv ==
    ASSUME SessionInv, Handlers, TablesInv, PrefixesInv
    PROVE  TablesInv' /\ PrefixesInv'
<1> DEFINE m == inq[1]
           t == Tail(inq)
<1>1. IsSeq(inq) /\ inq # <<>> /\ inq' = t /\ UNCHANGED <<netVars, steady>>
  BY HandlerFrame, HandlerModes DEF SessionInv
<1>2. m \in Range(inq) /\ Range(t) \subseteq Range(inq)
  BY <1>1, TailQueue
<1>3. Tidy(inq')
  BY <1>1, <1>2 DEF TablesInv, Tidy
<1>4. TablesSet
  BY HandlerTables DEF TablesInv
<1>5. ASSUME NEW c \in Channels
      PROVE  voice'[c] \subseteq users'[c] /\ (users'[c] # {} => c \in Listed')
  <2>1. voice[c] \subseteq users[c] /\ (users[c] # {} => c \in Listed)
    BY DEF TablesInv
  <2>2. Told(m, "353", c) => m.voiced \subseteq m.names
    BY <1>2 DEF TablesInv, Tidy, Told
  <2>3. /\ users'[c] = UsersAfter(m, c) /\ voice'[c] = VoiceAfter(m, c)
        /\ c \in Listed /\ ~Expelled(m, c) => c \in Listed'
        /\ Told(m, "353", c) => c \in Listed'
        /\ Expelled(m, c) => users'[c] = {}
    BY <1>4 DEF TablesSet
  <2>4. voice'[c] \subseteq users'[c]
    BY <2>1, <2>2, <2>3 DEF UsersAfter, VoiceAfter
  <2>5. users'[c] # {} => c \in Listed'
    BY <2>1, <2>3 DEF UsersAfter
  <2> QED
    BY <2>4, <2>5
<1>6. TablesInv'
  BY <1>1, <1>3, <1>4, <1>5 DEF TablesInv, TablesSet, OnChannels, netVars
<1>7. PrefixesInv'
  <2>1. /\ prefixes' = IF ~whois /\ m.cmd = "005" THEN m.prefixes ELSE prefixes
        /\ whois' <=> IF whois THEN m.cmd # "318" ELSE m.cmd = "311"
    BY HandlerModes
  <2>2. m.cmd = "005" => m.prefixes = <<"o", "v">>
    BY <1>2 DEF TablesInv, Tidy
  <2>3. prefixes' \in {<<>>, <<"o", "v">>}
    BY <2>1, <2>2 DEF PrefixesInv
  <2>4. <<"o", "v">> # <<>>
    <3>1. <<"o", "v">>[1] = "o" /\ 1 \in DOMAIN <<"o", "v">>
      OBVIOUS
    <3> QED
      BY <3>1, EmptyQueue
  <2>5. ASSUME prefixes' = <<>>
        PROVE  /\ ~whois'
               /\ \A i \in DOMAIN inq' : inq'[i].cmd \in {"MODE", "311"} =>
                     \E j \in DOMAIN inq' : j < i /\ inq'[j].cmd = "005"
               /\ sess' = "reg" => \E j \in DOMAIN inq' : inq'[j].cmd = "005"
    <3>0. prefixes = <<>>
      BY <2>1, <2>2, <2>4, <2>5
    <3>1. ~whois /\ m.cmd # "005"
      BY <2>1, <2>2, <2>4, <2>5, <3>0 DEF PrefixesInv
    <3>2. /\ 1 \in DOMAIN inq
          /\ \A i \in DOMAIN t : i \in Nat /\ 0 < i /\ i + 1 \in DOMAIN inq /\ t[i] = inq[i + 1]
          /\ \A j \in DOMAIN inq : /\ j \in Nat /\ j # 0
                                   /\ j = 1 \/ (j - 1 \in DOMAIN t /\ t[j - 1] = inq[j])
      BY <1>1, TailIndex
    <3> HIDE DEF t
    <3>3. m.cmd # "311"
      <4>1. ASSUME m.cmd = "311" PROVE FALSE
        <5>1. PICK j \in DOMAIN inq : j < 1 /\ inq[j].cmd = "005"
          BY <3>0, <3>2, <4>1 DEF PrefixesInv
        <5> QED
          BY <3>2, <5>1
      <4> QED
        BY <4>1
    <3>4. ASSUME NEW i \in DOMAIN t, t[i].cmd \in {"MODE", "311"}
          PROVE  \E j \in DOMAIN t : j < i /\ t[j].cmd = "005"
      <4>1. i + 1 \in DOMAIN inq /\ t[i] = inq[i + 1] /\ i \in Nat
        BY <3>2
      <4>2. PICK j \in DOMAIN inq : j < i + 1 /\ inq[j].cmd = "005"
        BY <3>0, <3>4, <4>1 DEF PrefixesInv
      <4>3. j - 1 \in DOMAIN t /\ t[j - 1] = inq[j] /\ j - 1 < i
        BY <3>1, <3>2, <4>1, <4>2
      <4> QED
        BY <4>2, <4>3
    <3>5. ASSUME sess' = "reg" PROVE \E j \in DOMAIN t : t[j].cmd = "005"
      <4>1. PICK j \in DOMAIN inq : inq[j].cmd = "005"
        BY <1>1, <3>0, <3>5 DEF PrefixesInv, netVars
      <4>2. j - 1 \in DOMAIN t /\ t[j - 1] = inq[j]
        BY <3>1, <3>2, <4>1
      <4> QED
        BY <4>1, <4>2
    <3> QED
      BY <1>1, <2>1, <3>1, <3>3, <3>4, <3>5 DEF t
  <2> QED
    BY <2>3, <2>5 DEF PrefixesInv
<1> QED
  BY <1>6, <1>7

\* What ConnLost leaves of the input is its first line, or nothing, and a 000.
LEMMA LostFirst ==
    ASSUME SessionInv, ConnLost
    PROVE  \A m \in Range(inq') : (inq # <<>> /\ m = inq[1]) \/ m = Line("000")
<1>1. PICK n \in 0..(IF inq = <<>> THEN 0 ELSE 1) :
        inq' = SubSeq(inq, 1, n) \/ inq' = Append(SubSeq(inq, 1, n), Line("000"))
  BY DEF ConnLost
<1>2. IsSeq(inq) /\ Len(inq) \in Nat /\ (inq # <<>> => Len(inq) # 0)
  BY QueueDomain, EmptySeq DEF SessionInv, IsSeq
<1> DEFINE p == SubSeq(inq, 1, n)
<1>3. IsSeq(p) /\ \A m \in Range(p) : inq # <<>> /\ m = inq[1]
  <2>1. n \in Nat /\ n <= 1 /\ n <= Len(inq) /\ (inq = <<>> => n = 0)
    BY <1>2
  <2>2. IsSeq(p)
    BY <1>2, <2>1, PrefixQueue
  <2>3. \A i \in 1..n : inq[i] \in Range(inq)
    BY <1>2, <2>1, QueueDomain DEF Range
  <2>4. Len(p) = IF 1 <= n THEN n ELSE 0
    BY <2>1, <2>3, SubSeqProperties
  <2>5. \A i \in 1..n : p[i] = inq[i]
    BY <2>1
  <2>6. DOMAIN p = 1..n
    BY <2>1, <2>2, <2>4, QueueDomain
  <2> HIDE DEF p
  <2>7. \A i \in DOMAIN p : inq # <<>> /\ p[i] = inq[1]
    BY <2>1, <2>5, <2>6
  <2> QED
    BY <2>2, <2>7 DEF Range
<1>4. inq' = p \/ inq' = Append(p, Line("000"))
  BY <1>1
<1> HIDE DEF p
<1>5. Range(Append(p, Line("000"))) = Range(p) \cup {Line("000")}
  BY <1>3, AppendQueue
<1>6. ASSUME NEW m \in Range(inq') PROVE m \in Range(p) \/ m = Line("000")
  <2>1. CASE inq' = p
    BY <1>6, <2>1
  <2>2. CASE inq' = Append(p, Line("000"))
    BY <1>5, <1>6, <2>2
  <2> QED
    BY <1>4, <2>1, <2>2
<1> QED
  BY <1>3, <1>6

\* A registered session tells the stays of the bot in a channel apart.
StaysInv ==
    sess = "reg" => Paired(inq) /\ \A c \in Channels : Ordered(inq, c, c \in in)

\* A line about others, and two of them, change nothing of that.
LEMMA OrderedSame ==
    ASSUME NEW q, IsSeq(q), NEW m, NEW c, NEW is \in BOOLEAN, Ordered(q, c, is),
           ~Names(m, c), ~Leaves(m, c)
    PROVE  Ordered(Append(q, m), c, is)
BY OrderedAppend

LEMMA OrderedTwo ==
    ASSUME NEW q, IsSeq(q), NEW m, NEW n, NEW c, NEW is \in BOOLEAN, Ordered(q, c, is),
           ~Names(m, c), ~Leaves(m, c), ~Names(n, c), ~Leaves(n, c)
    PROVE  Ordered(Append(Append(q, m), n), c, is)
<1> DEFINE t == Append(q, m)
<1>1. IsSeq(t) /\ Ordered(t, c, is)
  BY AppendQueue, OrderedAppend
<1> HIDE DEF t
<1>2. Ordered(Append(t, n), c, is)
  BY <1>1, OrderedAppend
<1> QED
  BY <1>2 DEF t

LEMMA StaysStep == SessionInv /\ StaysInv /\ [Next]_vars => StaysInv'
<1> SUFFICES ASSUME SessionInv, StaysInv, [Next]_vars, sess' = "reg"
             PROVE  Paired(inq') /\ \A c \in Channels : Ordered(inq', c, c \in in')
  BY DEF StaysInv
<1>0. /\ IsSeq(inq) /\ (sess = "reg" => real \notin Others)
      /\ \A c \in Channels : (c \in in) \in BOOLEAN /\ (c \in in') \in BOOLEAN
  BY DEF SessionInv
<1>1. CASE Handlers
  <2>1. sess = "reg" /\ in' = in /\ inq # <<>> /\ inq' = Tail(inq)
    BY <1>1, HandlerFrame DEF netVars
  <2>2. Paired(inq) /\ \A c \in Channels : Ordered(inq, c, c \in in)
    BY <2>1 DEF StaysInv
  <2>3. Paired(Tail(inq))
    BY <1>0, <2>1, <2>2, PairedTail
  <2>4. \A c \in Channels : Ordered(Tail(inq), c, c \in in)
    BY <1>0, <2>1, <2>2, OrderedTail
  <2> QED
    BY <2>1, <2>3, <2>4
<1>2. CASE Calls
  <2>1. ~irc_server_disconnect
    BY DEF irc_server_disconnect, NoSession
  <2> QED
    BY <1>2, <2>1, CallFrame DEF netVars, StaysInv
<1>3. CASE ConnUp \/ ConnRetry
  BY <1>3 DEF ConnUp, ConnRetry, SessionInv, netVars
<1>4. CASE ConnLost
  BY <1>4 DEF ConnLost, NoSession
<1>5. CASE Network
  <2>1. CASE Nothing
    BY <2>1 DEF Nothing, StaysInv
  <2>2. CASE Refuses
    BY <2>2 DEF Refuses
  <2>3. CASE Registers
    <3> DEFINE a == Line("001")
               b == [cmd |-> "005", prefixes |-> <<"o", "v">>]
    <3>1. /\ link = "up" /\ sess # "reg" /\ in' = {}
          /\ inq' = Append(Append(inq, a), b)
      BY <1>5, <2>3, NetworkFrame DEF Registers, SessionInv
    <3>2. a.cmd = "001" /\ b.cmd = "005"
      BY DEF Line
    <3> HIDE DEF a, b
    <3>3. \A i \in DOMAIN inq : inq[i].cmd = "433"
      BY <3>1 DEF SessionInv, Range
    <3>4. Paired(inq) /\ \A c \in Channels : Ordered(inq, c, FALSE)
      BY <3>3 DEF Paired, Enters, Ordered, Parted, Ended, Names
    <3>5. Paired(inq')
      BY <1>0, <3>1, <3>2, <3>4, PairedTwo DEF Enters
    <3>6. \A c \in Channels : Ordered(inq', c, FALSE)
      BY <1>0, <3>1, <3>2, <3>4, OrderedTwo DEF Names, Leaves
    <3>7. \A c \in Channels : (c \in in') = FALSE
      BY <3>1
    <3> QED
      BY <3>5, <3>6, <3>7
  <2>4. CASE Tells
    <3>1. PICK m : Plain(m) /\ inq' = Append(inq, m)
      BY <2>4 DEF Tells
    <3>2. sess = "reg" /\ in' = in
      BY <2>4 DEF Tells
    <3>3. ~Enters(m) /\ m.cmd # "311" /\ \A c : ~Names(m, c) /\ ~Leaves(m, c)
      BY <3>1 DEF Plain, Enters, Names, Leaves
    <3>4. Paired(inq) /\ \A c \in Channels : Ordered(inq, c, c \in in)
      BY <3>2 DEF StaysInv
    <3>5. Paired(inq')
      BY <1>0, <3>1, <3>3, <3>4, PairedAppend
    <3>6. ASSUME NEW c \in Channels PROVE Ordered(inq', c, c \in in)
      BY <1>0, <3>1, <3>3, <3>4, OrderedSame
    <3> QED
      BY <3>2, <3>5, <3>6
  <2>5. CASE TellsTwo
    <3> DEFINE a == Line("311")
               b == Line("318")
    <3>1. sess = "reg" /\ in' = in /\ inq' = Append(Append(inq, a), b)
      BY <2>5 DEF TellsTwo
    <3>2. a.cmd = "311" /\ b.cmd = "318"
      BY DEF Line
    <3> HIDE DEF a, b
    <3>3. Paired(inq) /\ \A c \in Channels : Ordered(inq, c, c \in in)
      BY <3>1 DEF StaysInv
    <3>4. Paired(inq')
      BY <1>0, <3>1, <3>2, <3>3, PairedTwo DEF Enters
    <3>5. ASSUME NEW c \in Channels PROVE Ordered(inq', c, c \in in)
      <4>1. ~Names(a, c) /\ ~Leaves(a, c) /\ ~Names(b, c) /\ ~Leaves(b, c)
        BY <3>2 DEF Names, Leaves
      <4>2. PICK is \in BOOLEAN : is = (c \in in)
        BY <1>0
      <4>3. Ordered(Append(Append(inq, a), b), c, is)
        BY <1>0, <3>3, <4>1, <4>2, OrderedTwo
      <4> QED
        BY <3>1, <4>2, <4>3
    <3> QED
      BY <3>1, <3>4, <3>5
  <2>6. CASE Renames
    <3>1. PICK m : inq' = Append(inq, m) /\ m.cmd = "NICK"
      BY <2>6 DEF Renames
    <3>2. sess = "reg" /\ in' = in
      BY <2>6 DEF Renames
    <3>3. ~Enters(m) /\ m.cmd # "311" /\ \A c : ~Names(m, c) /\ ~Leaves(m, c)
      BY <3>1 DEF Enters, Names, Leaves
    <3>4. Paired(inq) /\ \A c \in Channels : Ordered(inq, c, c \in in)
      BY <3>2 DEF StaysInv
    <3>5. Paired(inq')
      BY <1>0, <3>1, <3>3, <3>4, PairedAppend
    <3>6. ASSUME NEW c \in Channels PROVE Ordered(inq', c, c \in in)
      BY <1>0, <3>1, <3>3, <3>4, OrderedSame
    <3> QED
      BY <3>2, <3>5, <3>6
  <2>7. ASSUME NEW d \in Channels, Joining(d)
        PROVE  Paired(inq') /\ \A c \in Channels : Ordered(inq', c, c \in in')
    <3>1. sess = "reg" /\ d \notin in /\ in' = in \cup {d}
      BY <2>7 DEF Joining
    <3>2. PICK m, n : /\ inq' = Append(Append(inq, m), n)
                      /\ m.cmd = "JOIN" /\ m.ch = d /\ n.cmd = "353" /\ n.ch = d
      BY <2>7 DEF Joining
    <3>3. Paired(inq) /\ \A c \in Channels : Ordered(inq, c, c \in in)
      BY <3>1 DEF StaysInv
    <3>4. Paired(inq')
      BY <1>0, <3>2, <3>3, PairedTwo DEF Enters, Names
    <3>5. ASSUME NEW c \in Channels PROVE Ordered(inq', c, c \in in')
      <4>1. CASE c = d
        <5> DEFINE t == Append(inq, m)
        <5>1. IsSeq(t) /\ Ordered(t, c, c \in in)
          <6>1. ~Names(m, c) /\ ~Leaves(m, c) /\ IsSeq(t)
            BY <1>0, <3>2, AppendQueue DEF Names, Leaves
          <6> QED
            BY <1>0, <3>3, <6>1, OrderedSame
        <5> HIDE DEF t
        <5>2. Names(n, c) /\ c \notin in /\ c \in in'
          BY <3>1, <3>2, <4>1 DEF Names
        <5>3. Ordered(Append(t, n), c, c \in in')
          BY <1>0, <5>1, <5>2, OrderedAppend
        <5> QED
          BY <3>2, <5>3 DEF t
      <4>2. CASE c # d
        <5>1. ~Names(m, c) /\ ~Leaves(m, c) /\ ~Names(n, c) /\ ~Leaves(n, c)
          BY <3>2, <4>2 DEF Names, Leaves
        <5>2. (c \in in') = (c \in in)
          BY <3>1, <4>2
        <5>3. PICK is \in BOOLEAN : is = (c \in in)
          BY <1>0
        <5>4. Ordered(Append(Append(inq, m), n), c, is)
          BY <1>0, <3>3, <5>1, <5>3, OrderedTwo
        <5> QED
          BY <3>2, <5>2, <5>3, <5>4
      <4> QED
        BY <4>1, <4>2
    <3> QED
      BY <3>4, <3>5
  <2>8. ASSUME NEW d \in Channels, Leaving(d)
        PROVE  Paired(inq') /\ \A c \in Channels : Ordered(inq', c, c \in in')
    <3>1. sess = "reg" /\ in' = in \ {d} /\ real \notin Others
      BY <1>0, <2>8 DEF Leaving
    <3>2. PICK m : inq' = Append(inq, m) /\ m.cmd \in {"PART", "KICK"} /\ m.who = real /\ m.ch = d
      BY <2>8 DEF Leaving
    <3>3. Paired(inq) /\ \A c \in Channels : Ordered(inq, c, c \in in)
      BY <3>1 DEF StaysInv
    <3>4. Paired(inq')
      BY <1>0, <3>2, <3>3, PairedAppend DEF Enters
    <3>5. ASSUME NEW c \in Channels PROVE Ordered(inq', c, c \in in')
      <4>1. CASE c = d
        <5>1. Leaves(m, c) /\ ~(c \in in')
          BY <3>1, <3>2, <4>1 DEF Leaves
        <5> QED
          BY <1>0, <3>2, <3>3, <5>1, OrderedAppend
      <4>2. CASE c # d
        <5>1. ~Names(m, c) /\ ~Leaves(m, c) /\ (c \in in') = (c \in in)
          BY <3>1, <3>2, <4>2 DEF Names, Leaves
        <5> QED
          BY <1>0, <3>2, <3>3, <5>1, OrderedAppend
      <4> QED
        BY <4>1, <4>2
    <3> QED
      BY <3>4, <3>5
  <2> QED
    BY <1>5, <2>1, <2>2, <2>3, <2>4, <2>5, <2>6, <2>7, <2>8, NetworkFrame
<1>6. CASE UNCHANGED vars
  BY <1>6 DEF vars, netVars, StaysInv
<1> QED
  BY <1>1, <1>2, <1>3, <1>4, <1>5, <1>6 DEF Next

\* A line or two about anything but the voice of u in c.
Unrelated(c, u) ==
    \/ inq' = inq
    \/ \E m : inq' = Append(inq, m) /\ ~Speaks(m, c, u)
    \/ \E m, n : inq' = Append(Append(inq, m), n) /\ ~Speaks(m, c, u) /\ ~Speaks(n, c, u)

\* What the network does that matters to the voice of u in c.
Elsewhere(c, u) ==
    /\ c \in in /\ u \in steady[c] /\ (u \in netvoice'[c]) = (u \in netvoice[c])
    /\ Unrelated(c, u)
Moving(c, u) ==
    /\ c \in in /\ u \in steady[c]
    /\ \E m : inq' = Append(inq, m) /\ Moves(m, c, u) /\ m.add = (u \in netvoice'[c])
Entering(c, u) ==
    \E m, n : /\ inq' = Append(Append(inq, m), n)
              /\ m.cmd = "JOIN" /\ Names(n, c) /\ (u \in n.voiced) = (u \in netvoice'[c])
              /\ u \in users[c] => ~whois /\ \E i \in DOMAIN inq : Leaves(inq[i], c)

\* In a MODE message the letters without an argument come last.
ArgumentsLast ==
    \A s \in ModeStrings :
        \A k, l \in DOMAIN s : s[k] = "n" /\ k <= l => s[l] = "n"

\* The MODE line a user gets.
LEMMA ModeLine ==
    ASSUME ArgumentsLast,
           NEW d \in Channels, NEW v \in Others, NEW add \in BOOLEAN, NEW s \in ModeStrings,
           NetMode(d, v, add, s)
    PROVE  \E m : /\ inq' = Append(inq, m) /\ m.cmd = "MODE" /\ m.ch = d /\ m.add = add
                  /\ VoicesOf(m) = IF "v" \in Range(s) THEN {v} ELSE {}
<1> DEFINE m == [cmd |-> "MODE", ch |-> d, add |-> add, letters |-> s, args |-> ArgsFor(s, v)]
<1>1. inq' = Append(inq, m)
  BY DEF NetMode, NetSends
<1>2. m.cmd = "MODE" /\ m.ch = d /\ m.add = add /\ m.letters = s /\ m.args = ArgsFor(s, v)
  OBVIOUS
<1> HIDE DEF m
<1>3. s \in Seq({"o", "v", "b", "n"})
  BY ServerAssumption
<1>4. VoicesOf(m) = IF "v" \in Range(s) THEN {v} ELSE {}
  BY <1>2, <1>3, ArgumentsRead DEF ArgumentsLast
<1> QED
  BY <1>1, <1>2, <1>4

LEMMA NetworkVoice ==
    ASSUME ArgumentsLast,
           SessionInv, OnChannels(netvoice), OnChannels(steady), Network,
           NEW c \in Channels, c \in in', NEW u \in steady'[c]
    PROVE  Elsewhere(c, u) \/ Moving(c, u) \/ Entering(c, u)
<1>1. IsSeq(inq)
  BY DEF SessionInv
<1>2. CASE NetRegisters
  BY <1>2 DEF NetRegisters, SessionInv, NetReads
<1>3. CASE NetNick
  <2>1. UNCHANGED <<in, netvoice, steady>>
    BY <1>3 DEF NetNick
  <2>2. ~Speaks(Line("433"), c, u) /\ ~Speaks([cmd |-> "NICK", who |-> real, new |-> real'], c, u)
    BY DEF Speaks, Names, Moves, Line
  <2> QED
    BY <1>3, <2>1, <2>2 DEF NetNick, Elsewhere, Unrelated
<1>4. CASE NetJoin
  <2> DEFINE d == Head(outq).ch
             m == [cmd |-> "JOIN", who |-> real, ch |-> d]
             n == [cmd |-> "353", ch |-> d, names |-> members[d] \cup {real}, voiced |-> netvoice[d]]
  <2>1. inq' = Append(Append(inq, m), n)
    BY <1>1, <1>4, AppendTwo DEF NetJoin
  <2>2. /\ in' = in \cup {d} /\ netvoice' = netvoice
        /\ steady' = [steady EXCEPT ![d] = IF Outdated(d) THEN {} ELSE members[d]]
    BY <1>4 DEF NetJoin
  <2>3. m.cmd = "JOIN" /\ n.cmd = "353" /\ n.ch = d /\ n.voiced = netvoice[d]
    OBVIOUS
  <2> HIDE DEF m, n
  <2>4. CASE c = d
    <3>1. u \in IF Outdated(c) THEN {} ELSE members[c]
      BY <2>2, <2>4 DEF OnChannels
    <3>2. ~Outdated(c)
      BY <3>1
    <3>3. u \in users[c] => ~whois /\ \E i \in DOMAIN inq : Leaves(inq[i], c)
      BY <3>2 DEF Outdated, Leaves
    <3> QED
      BY <2>1, <2>2, <2>3, <2>4, <3>3 DEF Entering, Names
  <2>5. CASE c # d
    <3>1. steady'[c] = steady[c]
      BY <2>2, <2>5 DEF OnChannels
    <3>2. ~Speaks(m, c, u) /\ ~Speaks(n, c, u)
      BY <2>3, <2>5 DEF Speaks, Names, Moves
    <3> QED
      BY <2>1, <2>2, <2>5, <3>1, <3>2 DEF Elsewhere, Unrelated
  <2> QED
    BY <2>4, <2>5
<1>5. CASE NetPart
  <2> DEFINE m == [cmd |-> "PART", who |-> real, ch |-> Head(outq).ch]
  <2>1. inq' = Append(inq, m) /\ c \in in /\ UNCHANGED <<netvoice, steady>>
    BY <1>5 DEF NetPart, histVars
  <2>2. ~Speaks(m, c, u)
    BY DEF Speaks, Names, Moves
  <2> HIDE DEF m
  <2> QED
    BY <2>1, <2>2 DEF Elsewhere, Unrelated
<1>6. CASE NetWhois
  <2>1. /\ inq' = Append(Append(inq, Line("311")), Line("318"))
        /\ UNCHANGED <<in, netvoice, steady>>
    BY <1>1, <1>6, AppendTwo DEF NetWhois, netVars, histVars
  <2>2. ~Speaks(Line("311"), c, u) /\ ~Speaks(Line("318"), c, u)
    BY DEF Speaks, Names, Moves, Line
  <2> QED
    BY <2>1, <2>2 DEF Elsewhere, Unrelated
<1>7. CASE NetIgnores
  BY <1>7 DEF NetIgnores, netVars, histVars, Elsewhere, Unrelated
<1>8. CASE NetText
  <2>1. ~Speaks(Line("PING"), c, u) /\ \A d : ~Speaks(ChLine("INVITE", d), c, u)
    BY DEF Speaks, Names, Moves, Line, ChLine
  <2>2. UNCHANGED <<in, netvoice, steady>>
    BY <1>8 DEF NetText
  <2>3. \E m : inq' = Append(inq, m) /\ ~Speaks(m, c, u)
    BY <1>8, <2>1 DEF NetText, NetSends
  <2> QED
    BY <2>2, <2>3 DEF Elsewhere, Unrelated
<1>9. ASSUME NEW d \in Channels, NetKicksBot(d)
      PROVE  Elsewhere(c, u)
  <2> DEFINE m == [cmd |-> "KICK", who |-> real, ch |-> d]
  <2>1. inq' = Append(inq, m) /\ c \in in /\ UNCHANGED <<netvoice, steady>>
    BY <1>9 DEF NetKicksBot, NetSends
  <2>2. ~Speaks(m, c, u)
    BY DEF Speaks, Names, Moves
  <2> HIDE DEF m
  <2> QED
    BY <2>1, <2>2 DEF Elsewhere, Unrelated
<1>10. ASSUME NEW d \in Channels, NEW v \in Others, NetUserJoins(d, v)
       PROVE  Elsewhere(c, u)
  <2> DEFINE m == [cmd |-> "JOIN", who |-> v, ch |-> d]
  <2>1. inq' = Append(inq, m) /\ c \in in /\ UNCHANGED <<netvoice, steady>>
    BY <1>10 DEF NetUserJoins, NetSends
  <2>2. ~Speaks(m, c, u)
    BY DEF Speaks, Names, Moves
  <2> HIDE DEF m
  <2> QED
    BY <2>1, <2>2 DEF Elsewhere, Unrelated
<1>11. ASSUME NEW d \in Channels, NEW v \in Others, NEW cmd \in {"PART", "KICK"},
              NetUserLeaves(d, v, cmd)
       PROVE  Elsewhere(c, u)
  <2> DEFINE m == [cmd |-> cmd, who |-> v, ch |-> d]
  <2>1. /\ inq' = Append(inq, m) /\ c \in in
        /\ netvoice' = [netvoice EXCEPT ![d] = netvoice[d] \ {v}]
        /\ steady' = [steady EXCEPT ![d] = steady[d] \ {v}]
    BY <1>11 DEF NetUserLeaves, NetSends
  <2>2. ~Speaks(m, c, u)
    BY DEF Speaks, Names, Moves
  <2> HIDE DEF m
  <2>3. u \in steady[c] /\ (u \in netvoice'[c]) = (u \in netvoice[c])
    <3>1. netvoice'[c] = IF c = d THEN netvoice[c] \ {v} ELSE netvoice[c]
      BY <2>1 DEF OnChannels
    <3>2. steady'[c] = IF c = d THEN steady[c] \ {v} ELSE steady[c]
      BY <2>1 DEF OnChannels
    <3> QED
      BY <3>1, <3>2
  <2> QED
    BY <2>1, <2>2, <2>3 DEF Elsewhere, Unrelated
<1>12. ASSUME NEW d \in Channels, NEW v \in Others, NEW add \in BOOLEAN, NEW s \in ModeStrings,
              NetMode(d, v, add, s)
       PROVE  Elsewhere(c, u) \/ Moving(c, u)
  <2>1. PICK m : /\ inq' = Append(inq, m) /\ m.cmd = "MODE" /\ m.ch = d /\ m.add = add
                 /\ VoicesOf(m) = IF "v" \in Range(s) THEN {v} ELSE {}
    BY <1>12, ModeLine
  <2>2. c \in in /\ u \in steady[c]
    BY <1>12 DEF NetMode
  <2>3. netvoice' = IF "v" \notin Range(s) THEN netvoice
                    ELSE [netvoice EXCEPT ![d] = IF add THEN netvoice[d] \cup {v}
                                                 ELSE netvoice[d] \ {v}]
    BY <1>12 DEF NetMode
  <2>4. CASE c = d /\ u = v /\ "v" \in Range(s)
    <3>1. (u \in netvoice'[c]) = add
      BY <2>3, <2>4 DEF OnChannels
    <3>2. Moves(m, c, u)
      BY <2>1, <2>4 DEF Moves
    <3> QED
      BY <2>1, <2>2, <3>1, <3>2 DEF Moving
  <2>5. CASE ~(c = d /\ u = v /\ "v" \in Range(s))
    <3>1. (u \in netvoice'[c]) = (u \in netvoice[c])
      BY <2>3, <2>5 DEF OnChannels
    <3>2. ~Speaks(m, c, u)
      BY <2>1, <2>5 DEF Speaks, Moves, Names
    <3> QED
      BY <2>1, <2>2, <3>1, <3>2 DEF Elsewhere, Unrelated
  <2> QED
    BY <2>4, <2>5
<1> QED
  BY <1>2, <1>3, <1>4, <1>5, <1>6, <1>7, <1>8, <1>9, <1>10, <1>11, <1>12 DEF Network, NetAnswers

LEMMA NetworkTables ==
    ASSUME SessionInv, TablesInv, Network
    PROVE  TablesInv'
<1>1. IsSeq(inq) /\ UNCHANGED <<users, voice, channels>>
  BY NetworkFrame DEF SessionInv, botVars
<1> DEFINE Fine(m) == /\ m.cmd = "005" => m.prefixes = <<"o", "v">>
                      /\ m.cmd = "353" => m.voiced \subseteq m.names
           Rows == /\ OnChannels(members') /\ OnChannels(netvoice') /\ OnChannels(steady')
                   /\ \A c \in Channels : netvoice'[c] \subseteq members'[c]
<1>2. ASSUME \/ inq' = inq
             \/ \E m : inq' = Append(inq, m) /\ Fine(m)
             \/ \E m, n : inq' = Append(Append(inq, m), n) /\ Fine(m) /\ Fine(n)
      PROVE  Tidy(inq')
  <2>1. ASSUME NEW q, IsSeq(q), NEW m, Tidy(q), Fine(m)
        PROVE  IsSeq(Append(q, m)) /\ Tidy(Append(q, m))
    BY <2>1, AppendQueue DEF Tidy
  <2>2. Tidy(inq)
    BY DEF TablesInv
  <2> HIDE DEF Fine
  <2>3. CASE \E m : inq' = Append(inq, m) /\ Fine(m)
    BY <1>1, <2>1, <2>2, <2>3
  <2>4. CASE \E m, n : inq' = Append(Append(inq, m), n) /\ Fine(m) /\ Fine(n)
    <3>1. PICK m, n : inq' = Append(Append(inq, m), n) /\ Fine(m) /\ Fine(n)
      BY <2>4
    <3> DEFINE p == Append(inq, m)
    <3>2. IsSeq(p) /\ Tidy(p)
      BY <1>1, <2>1, <2>2, <3>1
    <3> HIDE DEF p
    <3>3. Tidy(Append(p, n))
      BY <2>1, <3>1, <3>2
    <3> QED
      BY <3>1, <3>3 DEF p
  <2> QED
    BY <1>2, <2>2, <2>3, <2>4
<1>3. UNCHANGED <<members, netvoice, steady>> => Rows
  BY DEF TablesInv, OnChannels
<1>4. ASSUME Rows, Tidy(inq') PROVE TablesInv'
  <2>1. Listed' = Listed
    BY <1>1 DEF Listed
  <2> QED
    BY <1>1, <1>4, <2>1 DEF TablesInv, OnChannels
<1> HIDE DEF Rows
<1>5. CASE NetRegisters
  <2> DEFINE a == Line("001")
             b == [cmd |-> "005", prefixes |-> <<"o", "v">>]
  <2>1. Fine(Line("433")) /\ Fine(a) /\ Fine(b)
    BY DEF Line
  <2>2. inq' = Append(inq, Line("433")) \/ inq' = inq \o <<a, b>>
    BY <1>5 DEF NetRegisters
  <2> HIDE DEF Fine, a, b
  <2>3. inq' = Append(inq, Line("433")) \/ inq' = Append(Append(inq, a), b)
    BY <1>1, <2>2, AppendTwo
  <2>4. UNCHANGED <<members, netvoice, steady>>
    BY <1>5 DEF NetRegisters
  <2> QED
    BY <1>2, <1>3, <1>4, <2>1, <2>3, <2>4
<1>6. CASE NetNick
  <2>1. Fine(Line("433")) /\ Fine([cmd |-> "NICK", who |-> real, new |-> real'])
    BY DEF Line
  <2> HIDE DEF Fine
  <2> QED
    BY <1>2, <1>3, <1>4, <1>6, <2>1 DEF NetNick
<1>7. CASE NetJoin
  <2> DEFINE d == Head(outq).ch
             m == [cmd |-> "JOIN", who |-> real, ch |-> d]
             n == [cmd |-> "353", ch |-> d, names |-> members[d] \cup {real}, voiced |-> netvoice[d]]
  <2>1. inq' = Append(Append(inq, m), n)
    BY <1>1, <1>7, AppendTwo DEF NetJoin
  <2>2. d \in Channels
    <3>1. outq # <<>> /\ Head(outq).cmd = "JOIN"
      BY <1>7 DEF NetJoin, NetReads
    <3> QED
      BY <3>1, TailQueue DEF SessionInv, Typed
  <2>3. Fine(m) /\ Fine(n)
    BY <2>2 DEF TablesInv
  <2> HIDE DEF Fine, m, n
  <2>4. /\ UNCHANGED <<members, netvoice>>
        /\ steady' = [steady EXCEPT ![d] = IF Outdated(d) THEN {} ELSE members[d]]
    BY <1>7 DEF NetJoin
  <2>5. Rows
    BY <2>4 DEF Rows, TablesInv, OnChannels
  <2> QED
    BY <1>2, <1>4, <2>1, <2>3, <2>5
<1>8. CASE NetPart
  <2>1. Fine([cmd |-> "PART", who |-> real, ch |-> Head(outq).ch])
    OBVIOUS
  <2> HIDE DEF Fine
  <2> QED
    BY <1>2, <1>3, <1>4, <1>8, <2>1 DEF NetPart, histVars
<1>9. CASE NetWhois
  <2>1. inq' = Append(Append(inq, Line("311")), Line("318"))
    BY <1>1, <1>9, AppendTwo DEF NetWhois
  <2>2. Fine(Line("311")) /\ Fine(Line("318"))
    BY DEF Line
  <2> HIDE DEF Fine
  <2> QED
    BY <1>2, <1>3, <1>4, <1>9, <2>1, <2>2 DEF NetWhois, netVars, histVars
<1>10. CASE NetIgnores
  BY <1>2, <1>3, <1>4, <1>10 DEF NetIgnores, netVars, histVars
<1>11. CASE NetText
  <2>1. Fine(Line("PING")) /\ \A d : Fine(ChLine("INVITE", d))
    BY DEF Line, ChLine
  <2> HIDE DEF Fine
  <2>2. \E m : inq' = Append(inq, m) /\ Fine(m)
    BY <1>11, <2>1 DEF NetText, NetSends
  <2> QED
    BY <1>2, <1>3, <1>4, <1>11, <2>2 DEF NetText
<1>12. ASSUME NEW d \in Channels, NetKicksBot(d) PROVE TablesInv'
  <2>1. Fine([cmd |-> "KICK", who |-> real, ch |-> d])
    OBVIOUS
  <2> HIDE DEF Fine
  <2> QED
    BY <1>2, <1>3, <1>4, <1>12, <2>1 DEF NetKicksBot, NetSends
<1>13. ASSUME NEW d \in Channels, NEW v \in Others, NetUserJoins(d, v) PROVE TablesInv'
  <2>1. Fine([cmd |-> "JOIN", who |-> v, ch |-> d])
    OBVIOUS
  <2> HIDE DEF Fine
  <2>2. UNCHANGED <<netvoice, steady>> /\ members' = [members EXCEPT ![d] = members[d] \cup {v}]
    BY <1>13 DEF NetUserJoins
  <2>3. Rows
    BY <2>2 DEF Rows, TablesInv, OnChannels
  <2> QED
    BY <1>2, <1>4, <1>13, <2>1, <2>3 DEF NetUserJoins, NetSends
<1>14. ASSUME NEW d \in Channels, NEW v \in Others, NEW cmd \in {"PART", "KICK"},
              NetUserLeaves(d, v, cmd)
       PROVE  TablesInv'
  <2>1. Fine([cmd |-> cmd, who |-> v, ch |-> d])
    OBVIOUS
  <2> HIDE DEF Fine
  <2>2. /\ members' = [members EXCEPT ![d] = members[d] \ {v}]
        /\ netvoice' = [netvoice EXCEPT ![d] = netvoice[d] \ {v}]
        /\ steady' = [steady EXCEPT ![d] = steady[d] \ {v}]
    BY <1>14 DEF NetUserLeaves
  <2>3. Rows
    BY <2>2 DEF Rows, TablesInv, OnChannels
  <2> QED
    BY <1>2, <1>4, <1>14, <2>1, <2>3 DEF NetUserLeaves, NetSends
<1>15. ASSUME NEW d \in Channels, NEW v \in Others, NEW add \in BOOLEAN, NEW s \in ModeStrings,
              NetMode(d, v, add, s)
       PROVE  TablesInv'
  <2>1. Fine([cmd |-> "MODE", ch |-> d, add |-> add, letters |-> s, args |-> ArgsFor(s, v)])
    OBVIOUS
  <2> HIDE DEF Fine
  <2>2. /\ UNCHANGED <<members, steady>> /\ v \in members[d]
        /\ netvoice' = IF "v" \notin Range(s) THEN netvoice
                       ELSE [netvoice EXCEPT ![d] = IF add THEN netvoice[d] \cup {v}
                                                    ELSE netvoice[d] \ {v}]
    BY <1>15 DEF NetMode
  <2>3. Rows
    BY <2>2 DEF Rows, TablesInv, OnChannels
  <2> QED
    BY <1>2, <1>4, <1>15, <2>1, <2>3 DEF NetMode, NetSends
<1> QED
  BY <1>5, <1>6, <1>7, <1>8, <1>9, <1>10, <1>11, <1>12, <1>13, <1>14, <1>15
  DEF Network, NetAnswers

\* The lines of a session that come before the one about its modes.
Known(q) == \E j \in DOMAIN q : q[j].cmd = "005"
Spelled(q) ==
    \A i \in DOMAIN q : q[i].cmd \in {"MODE", "311"} =>
        \E j \in DOMAIN q : j < i /\ q[j].cmd = "005"

LEMMA SpelledAppend ==
    ASSUME NEW q, IsSeq(q), NEW m, Spelled(q), m.cmd \in {"MODE", "311"} => Known(q)
    PROVE  /\ IsSeq(Append(q, m)) /\ Spelled(Append(q, m))
           /\ Known(q) \/ m.cmd = "005" => Known(Append(q, m))
<1> DEFINE t == Append(q, m)
           l == Len(q) + 1
<1>1. /\ IsSeq(t) /\ l \in DOMAIN t /\ t[l] = m
      /\ \A i \in DOMAIN q : i \in Nat /\ i # 0 /\ i < l /\ i \in DOMAIN t /\ t[i] = q[i]
      /\ \A i \in DOMAIN t : i \in Nat /\ (i \in DOMAIN q \/ i = l)
  BY AppendIndex
<1> HIDE DEF t, l
<1>2. ASSUME NEW i \in DOMAIN t, t[i].cmd \in {"MODE", "311"}
      PROVE  \E j \in DOMAIN t : j < i /\ t[j].cmd = "005"
  <2>1. CASE i \in DOMAIN q
    <3>1. PICK j \in DOMAIN q : j < i /\ q[j].cmd = "005"
      BY <1>1, <1>2, <2>1 DEF Spelled
    <3> QED
      BY <1>1, <3>1
  <2>2. CASE i = l
    <3>1. PICK j \in DOMAIN q : q[j].cmd = "005"
      BY <1>1, <1>2, <2>2 DEF Known
    <3> QED
      BY <1>1, <2>2, <3>1
  <2> QED
    BY <1>1, <2>1, <2>2
<1>3. ASSUME Known(q) \/ m.cmd = "005" PROVE Known(t)
  BY <1>1, <1>3 DEF Known
<1> QED
  BY <1>1, <1>2, <1>3 DEF Spelled, t

LEMMA SpelledTwo ==
    ASSUME NEW q, IsSeq(q), NEW m, NEW n, Spelled(q), m.cmd # "MODE", n.cmd \notin {"MODE", "311"},
           m.cmd = "311" => Known(q)
    PROVE  /\ Spelled(Append(Append(q, m), n))
           /\ Known(q) \/ n.cmd = "005" => Known(Append(Append(q, m), n))
<1> DEFINE t == Append(q, m)
<1>1. IsSeq(t) /\ Spelled(t) /\ (Known(q) => Known(t))
  BY SpelledAppend
<1> HIDE DEF t
<1>2. Spelled(Append(t, n)) /\ (Known(t) \/ n.cmd = "005" => Known(Append(t, n)))
  BY <1>1, SpelledAppend
<1> QED
  BY <1>1, <1>2 DEF t

LEMMA NetworkPrefixes ==
    ASSUME SessionInv, PrefixesInv, Network
    PROVE  PrefixesInv'
<1>1. IsSeq(inq) /\ UNCHANGED <<prefixes, whois>>
  BY NetworkFrame DEF SessionInv, botVars
<1> SUFFICES ASSUME prefixes = <<>>
             PROVE  Spelled(inq') /\ (sess' = "reg" => Known(inq'))
  BY <1>1 DEF PrefixesInv, Spelled, Known
<1>2. Spelled(inq) /\ (sess = "reg" => Known(inq))
  BY DEF PrefixesInv, Spelled, Known
<1>3. CASE Nothing
  BY <1>2, <1>3 DEF Nothing
<1>4. CASE Refuses
  BY <1>1, <1>2, <1>4, SpelledAppend DEF Refuses, Line
<1>5. CASE Registers
  <2> DEFINE a == Line("001")
             b == [cmd |-> "005", prefixes |-> <<"o", "v">>]
  <2>1. inq' = Append(Append(inq, a), b) /\ a.cmd = "001" /\ b.cmd = "005"
    BY <1>5 DEF Registers, Line
  <2> HIDE DEF a, b
  <2> QED
    BY <1>1, <1>2, <2>1, SpelledTwo
<1>6. CASE Tells
  <2>1. sess = "reg" /\ \E m : inq' = Append(inq, m)
    BY <1>6 DEF Tells
  <2> QED
    BY <1>1, <1>2, <2>1, SpelledAppend
<1>7. CASE TellsTwo
  <2> DEFINE a == Line("311")
             b == Line("318")
  <2>1. sess = "reg" /\ inq' = Append(Append(inq, a), b) /\ a.cmd = "311" /\ b.cmd = "318"
    BY <1>7 DEF TellsTwo, Line
  <2> HIDE DEF a, b
  <2> QED
    BY <1>1, <1>2, <2>1, SpelledTwo
<1>8. CASE Renames
  <2>1. sess = "reg" /\ \E m : inq' = Append(inq, m)
    BY <1>8 DEF Renames
  <2> QED
    BY <1>1, <1>2, <2>1, SpelledAppend
<1>9. ASSUME NEW c \in Channels, Joining(c)
      PROVE  Spelled(inq') /\ (sess' = "reg" => Known(inq'))
  <2>1. sess = "reg" /\ \E m, n : /\ inq' = Append(Append(inq, m), n)
                                  /\ m.cmd = "JOIN" /\ n.cmd = "353"
    BY <1>9 DEF Joining
  <2> QED
    BY <1>1, <1>2, <2>1, SpelledTwo
<1>10. ASSUME NEW c \in Channels, Leaving(c)
       PROVE  Spelled(inq') /\ (sess' = "reg" => Known(inq'))
  <2>1. sess = "reg" /\ \E m : inq' = Append(inq, m)
    BY <1>10 DEF Leaving
  <2> QED
    BY <1>1, <1>2, <2>1, SpelledAppend
<1> QED
  BY <1>3, <1>4, <1>5, <1>6, <1>7, <1>8, <1>9, <1>10, NetworkFrame

LEMMA TablesStep ==
    SessionInv /\ TablesInv /\ PrefixesInv /\ [Next]_vars => TablesInv' /\ PrefixesInv'
<1> SUFFICES ASSUME SessionInv, TablesInv, PrefixesInv, [Next]_vars
             PROVE  TablesInv' /\ PrefixesInv'
  OBVIOUS
<1>1. UNCHANGED channels => Listed' = Listed
  BY DEF Listed
<1>2. CASE Handlers
  BY <1>2, HandlerTablesInv
<1>3. CASE irc_server_disconnect
  <2>1. /\ users' = [c \in Channels |-> {}] /\ voice' = [c \in Channels |-> {}]
        /\ steady' = [c \in Channels |-> {}] /\ UNCHANGED <<members, netvoice>>
        /\ inq' = <<>> /\ prefixes' = <<>> /\ ~whois' /\ sess' = "none"
    BY <1>3 DEF irc_server_disconnect, irc_server_channels_clear, irc_server_clear, NoSession
  <2>2. Range(inq') = {} /\ DOMAIN inq' = {}
    BY <2>1, EmptyQueue
  <2>3. TablesInv'
    BY <2>1, <2>2, EmptyRows DEF TablesInv, OnChannels, Tidy
  <2>4. PrefixesInv'
    BY <2>1, <2>2 DEF PrefixesInv
  <2> QED
    BY <2>3, <2>4
<1>4. CASE Calls /\ ~irc_server_disconnect
  <2>1. /\ UNCHANGED <<inq, netVars, users, voice, prefixes, whois, steady>>
        /\ Listed \subseteq Listed'
    BY <1>4, CallTables
  <2>2. TablesInv'
    BY <2>1 DEF TablesInv, OnChannels, netVars
  <2>3. PrefixesInv'
    BY <2>1 DEF PrefixesInv, netVars
  <2> QED
    BY <2>2, <2>3
<1>5. CASE ConnUp \/ ConnRetry \/ UNCHANGED vars
  <2>1. UNCHANGED <<inq, netVars, botVars, steady>>
    BY <1>5 DEF ConnUp, ConnRetry, vars, histVars
  <2>2. TablesInv'
    BY <1>1, <2>1 DEF TablesInv, OnChannels, netVars, botVars
  <2>3. PrefixesInv'
    BY <2>1 DEF PrefixesInv, netVars, botVars
  <2> QED
    BY <2>2, <2>3
<1>6. CASE ConnLost
  <2>1. /\ UNCHANGED <<botVars, members, netvoice>> /\ sess' = "none"
        /\ steady' = [c \in Channels |-> {}]
    BY <1>6 DEF ConnLost, NoSession
  <2>2. \A m \in Range(inq') : (inq # <<>> /\ m = inq[1]) \/ m = Line("000")
    BY <1>6, LostFirst
  <2>3. Line("000").cmd = "000"
    BY DEF Line
  <2>4. inq # <<>> => 1 \in DOMAIN inq /\ inq[1] \in Range(inq) /\ \A j \in DOMAIN inq : j \in Nat /\ j # 0
    BY TailQueue DEF SessionInv
  <2>5. Tidy(inq')
    BY <2>2, <2>3, <2>4 DEF TablesInv, Tidy
  <2>6. TablesInv'
    BY <1>1, <2>1, <2>5, EmptyRows DEF TablesInv, OnChannels, botVars
  <2>7. ASSUME prefixes = <<>>, inq # <<>> PROVE inq[1].cmd \notin {"MODE", "311"}
    <3>1. inq[1].cmd \in {"MODE", "311"} => \E j \in DOMAIN inq : j < 1 /\ inq[j].cmd = "005"
      BY <2>4, <2>7 DEF PrefixesInv
    <3>2. \A j \in DOMAIN inq : ~(j < 1)
      BY <2>4, <2>7
    <3> QED
      BY <3>1, <3>2
  <2>8. ASSUME prefixes = <<>>, NEW i \in DOMAIN inq' PROVE inq'[i].cmd \notin {"MODE", "311"}
    <3>1. inq'[i] \in Range(inq')
      BY <2>8 DEF Range
    <3> QED
      BY <2>2, <2>3, <2>7, <2>8, <3>1
  <2>9. PrefixesInv'
    BY <2>1, <2>8 DEF PrefixesInv, botVars
  <2> QED
    BY <2>6, <2>9
<1>7. CASE Network
  BY <1>7, NetworkTables, NetworkPrefixes
<1> QED
  BY <1>2, <1>3, <1>4, <1>5, <1>6, <1>7 DEF Next

-----------------------------------------------------------------------------
(* The voice of a user who stayed.                                         *)

\* In the loop of a WHOIS, which drops a line.
Deaf == whois /\ (inq = <<>> \/ inq[1].cmd # "318")

\* With the lines q to come the bot will know whether u has voice in c.  A user
\* it holds already, whose modes NAMES leaves alone, is forgotten before that.
Follows(q, c, u, is) ==
    /\ LastVoices(q, c, u, is)
    /\ u \in users[c] => LeftBefore(q, c) /\ (Deaf => Nameless(q, c))
    /\ Silent(q, c, u) /\ c \notin astray /\ u \in users[c] => (u \in voice[c]) = is

VoiceInv ==
    sess = "reg" /\ "nickname" \notin astray =>
        \A c \in Channels : c \in in =>
            \A u \in steady[c] : Follows(inq, c, u, u \in netvoice[c])

\* The lines the bot takes for the end of its stay are those that are.
LEMMA OwnLeaves ==
    ASSUME SessionInv, Extends = {}, NickInv, Handlers, sess = "reg", "nickname" \notin astray',
           NEW c, ~whois
    PROVE  Expelled(inq[1], c) <=> Leaves(inq[1], c)
<1>1. IsSeq(inq) /\ inq # <<>> /\ Chain(inq, nickname, real)
  BY HandlerFrame, HandlerNick DEF SessionInv, NickInv
<1>2. /\ nickname \notin Others
      /\ inq[1].cmd \in {"KICK", "PART", "NICK"} => (inq[1].who \notin Others <=> inq[1].who = nickname)
  BY <1>1, ChainTail DEF Chain
<1>3. \A n : irc_server_is_self(n) <=> n = nickname
  BY DEF irc_server_is_self
<1> QED
  BY <1>2, <1>3 DEF Expelled, Told, Leaves

\* A line that is handled: users the bot keeps are forgotten in time.
LEMMA ForgottenHandled ==
    ASSUME SessionInv, Extends = {}, NickInv, TablesInv, StaysInv, Handlers, sess = "reg",
           "nickname" \notin astray', NEW c \in Channels, c \in in, NEW u, u \in users'[c],
           u \in users[c] => LeftBefore(inq, c) /\ (Deaf => Nameless(inq, c))
    PROVE  LeftBefore(inq', c) /\ (Deaf' => Nameless(inq', c))
<1> DEFINE m == inq[1]
           t == Tail(inq)
<1>1. IsSeq(inq) /\ inq # <<>> /\ inq' = t
  BY HandlerFrame DEF SessionInv
<1>2. users'[c] = UsersAfter(m, c) /\ (Expelled(m, c) => users'[c] = {})
  BY HandlerTables DEF TablesInv, TablesSet
<1>3. whois' <=> IF whois THEN m.cmd # "318" ELSE m.cmd = "311"
  BY HandlerModes
<1>4. Parted(inq, c) /\ Paired(inq)
  BY DEF StaysInv, Ordered
<1>5. /\ LeftBefore(inq, c) /\ ~Leaves(m, c) => LeftBefore(t, c)
      /\ Names(m, c) => LeftBefore(t, c)
  BY <1>1, <1>4, LeftBeforeTail
<1>6. m.cmd = "311" => t # <<>> /\ t[1].cmd = "318"
  BY <1>1, <1>4, PairedTail
<1>7. Nameless(inq, c) => Nameless(t, c)
  BY <1>1, TailIndex DEF Nameless
<1>8. Nameless(t, c) => LeftBefore(t, c)
  BY DEF Nameless, LeftBefore
<1>9. Deaf' <=> whois' /\ (t = <<>> \/ t[1].cmd # "318")
  BY <1>1 DEF Deaf
<1>10. CASE whois
  <2>1. u \in users[c]
    BY <1>2, <1>10 DEF UsersAfter, Told, Expelled
  <2>2. m.cmd # "318" => Deaf
    BY <1>10 DEF Deaf
  <2>3. Leaves(m, c) => m.cmd # "318"
    BY DEF Leaves
  <2> HIDE DEF m, t
  <2> QED
    BY <1>1, <1>3, <1>5, <1>7, <1>8, <1>9, <1>10, <2>1, <2>2, <2>3
<1>11. CASE ~whois
  <2>1. ~Deaf'
    BY <1>3, <1>6, <1>9, <1>11
  <2>2. ~Leaves(m, c)
    BY <1>2, <1>11, OwnLeaves
  <2>3. ~Names(m, c) => u \in users[c]
    BY <1>2, <1>11 DEF UsersAfter, Told, Expelled, Names
  <2> HIDE DEF m, t
  <2> QED
    BY <1>1, <1>5, <2>1, <2>2, <2>3
<1> QED
  BY <1>10, <1>11

\* With nothing about the voice behind it, it leaves the bot right.
LEMMA VoiceHandled ==
    ASSUME SessionInv, Extends = {}, NickInv, TablesInv, PrefixesInv, StaysInv, Handlers,
           sess = "reg", "nickname" \notin astray', NEW c \in Channels, c \in in, NEW u,
           NEW is \in BOOLEAN, Follows(inq, c, u, is),
           Silent(inq', c, u), c \notin astray', u \in users'[c]
    PROVE  (u \in voice'[c]) = is
<1> DEFINE m == inq[1]
           t == Tail(inq)
<1>1. IsSeq(inq) /\ inq # <<>> /\ inq' = t /\ m \in Range(inq)
  BY HandlerFrame, TailQueue DEF SessionInv
<1>2. /\ users'[c] = UsersAfter(m, c) /\ voice'[c] = VoiceAfter(m, c)
      /\ Expelled(m, c) => users'[c] = {}
  BY HandlerTables DEF TablesInv, TablesSet
<1>3. voice[c] \subseteq users[c] /\ (users[c] # {} => c \in Listed)
  BY DEF TablesInv
<1>4. ~Expelled(m, c)
  BY <1>2
<1>5. Nameless(t, c)
  BY <1>1 DEF Silent, Speaks, Nameless
<1>6. ~(Enters(m) /\ m.ch = c)
  BY <1>1, <1>5, PairedTail DEF StaysInv
<1>7. c \notin astray /\ (whois => ~("ch" \in DOMAIN m /\ m.ch = c))
  BY <1>4, <1>6, HandlerAstray
<1>8. /\ Speaks(m, c, u) => Voices(m, c, u, is)
      /\ LeftBefore(inq, c) /\ Names(m, c) => ~Nameless(t, c)
  BY <1>1, LastVoicesTail, LeftBeforeTail DEF Follows
<1>9. ~Speaks(m, c, u) => Silent(inq, c, u)
  <2>1. \A j \in DOMAIN inq : j = 1 \/ (j - 1 \in DOMAIN t /\ t[j - 1] = inq[j])
    BY <1>1, TailIndex
  <2> HIDE DEF t
  <2> QED
    BY <1>1, <2>1 DEF Silent
<1>10. ~Speaks(m, c, u) /\ u \in users[c] => (u \in voice[c]) = is
  BY <1>7, <1>9 DEF Follows
<1>11. Speaks(m, c, u) => "ch" \in DOMAIN m /\ m.ch = c
  BY <1>1, Kinds DEF SessionInv, Typed
<1> HIDE DEF m, t
<1>12. CASE whois
  BY <1>2, <1>7, <1>10, <1>11, <1>12 DEF UsersAfter, VoiceAfter, Told, Expelled
<1>13. CASE ~whois /\ Names(m, c)
  <2>1. u \notin users[c]
    BY <1>5, <1>8, <1>13 DEF Follows
  <2>2. (u \in m.voiced) = is
    BY <1>8, <1>13 DEF Speaks, Voices
  <2>3. voice'[c] = voice[c] \cup (m.voiced \ users[c])
    BY <1>2, <1>13 DEF VoiceAfter, Told, Names
  <2> QED
    BY <1>3, <2>1, <2>2, <2>3
<1>14. CASE ~whois /\ Moves(m, c, u)
  <2>1. m.cmd = "MODE" /\ m.ch = c /\ u \in VoicesOf(m)
    BY <1>14 DEF Moves
  <2>2. u \in users[c] /\ c \in Listed
    BY <1>2, <1>3, <2>1 DEF UsersAfter, Told, Expelled
  <2>3. m.add = is
    BY <1>8, <1>14 DEF Speaks, Voices
  <2>4. irc_server_modes_find("v") # 0
    <3>1. 1 \in DOMAIN inq /\ \A j \in DOMAIN inq : j \in Nat /\ j # 0
      BY <1>1, TailIndex
    <3>2. ~\E j \in DOMAIN inq : j < 1
      BY <3>1
    <3>3. prefixes = <<"o", "v">>
      BY <2>1, <3>1, <3>2 DEF PrefixesInv, m
    <3>4. DOMAIN prefixes = 1..2 /\ prefixes[1] = "o" /\ prefixes[2] = "v"
      BY <3>3
    <3>5. \A i \in DOMAIN prefixes : prefixes[i] = "v" <=> i = 2
      BY <3>4
    <3> QED
      BY <3>4, <3>5 DEF irc_server_modes_find
  <2>5. voice'[c] = IF m.add THEN voice[c] \cup (VoicesOf(m) \cap users[c])
                    ELSE voice[c] \ VoicesOf(m)
    BY <1>2, <1>14, <2>1, <2>2, <2>4 DEF VoiceAfter, Told, Expelled
  <2> QED
    BY <2>1, <2>2, <2>3, <2>5
<1>15. CASE ~whois /\ ~Speaks(m, c, u)
  <2>1. u \in users[c]
    BY <1>2, <1>15 DEF UsersAfter, Told, Expelled, Speaks, Names
  <2>2. u \in voice'[c] <=> u \in voice[c]
    <3>1. CASE Told(m, "KICK", c)
      <4>1. users'[c] = users[c] \ {m.who} /\ voice'[c] = voice[c] \ {m.who}
        BY <1>2, <1>4, <3>1 DEF UsersAfter, VoiceAfter, Told
      <4> QED
        BY <4>1
    <3>2. CASE Told(m, "MODE", c)
      <4>1. u \notin VoicesOf(m)
        BY <1>15, <3>2 DEF Speaks, Moves, Told
      <4>2. voice'[c] \in {voice[c], voice[c] \cup (VoicesOf(m) \cap users[c]), voice[c] \ VoicesOf(m)}
        BY <1>2, <1>4, <3>2 DEF VoiceAfter, Told
      <4> QED
        BY <4>1, <4>2
    <3>3. CASE ~Told(m, "KICK", c) /\ ~Told(m, "MODE", c)
      BY <1>2, <1>4, <1>15, <3>3 DEF VoiceAfter, Told, Speaks, Names
    <3> QED
      BY <3>1, <3>2, <3>3
  <2> QED
    BY <1>10, <1>15, <2>1, <2>2
<1> QED
  BY <1>12, <1>13, <1>14, <1>15 DEF Speaks

\* A line that is added is there, behind those that were.
LEMMA AppendKeeps ==
    ASSUME NEW q, IsSeq(q), NEW m
    PROVE  /\ IsSeq(Append(q, m))
           /\ \E i \in DOMAIN Append(q, m) : Append(q, m)[i] = m
           /\ \A i \in DOMAIN q : i \in DOMAIN Append(q, m) /\ Append(q, m)[i] = q[i]
           /\ \A i \in DOMAIN Append(q, m) :
                 Append(q, m)[i] = m \/ (i \in DOMAIN q /\ Append(q, m)[i] = q[i])
<1> DEFINE t == Append(q, m)
           l == Len(q)
<1>1. /\ IsSeq(t) /\ DOMAIN q = 1..l /\ l \in Nat /\ DOMAIN t = 1..(l + 1)
      /\ t[l + 1] = m /\ \A i \in DOMAIN q : t[i] = q[i]
  BY AppendQueue
<1> HIDE DEF t, l
<1>2. /\ l + 1 \in DOMAIN t /\ \A i \in DOMAIN q : i \in DOMAIN t
      /\ \A i \in DOMAIN t : i \in DOMAIN q \/ i = l + 1
  BY <1>1
<1>3. /\ IsSeq(t) /\ \E i \in DOMAIN t : t[i] = m
      /\ \A i \in DOMAIN q : i \in DOMAIN t /\ t[i] = q[i]
      /\ \A i \in DOMAIN t : t[i] = m \/ (i \in DOMAIN q /\ t[i] = q[i])
  BY <1>1, <1>2
<1> QED
  BY <1>3 DEF t

LEMMA FollowsAppend ==
    ASSUME NEW q, IsSeq(q), NEW m, NEW c, NEW u, NEW is \in BOOLEAN,
           Follows(q, c, u, is), ~Speaks(m, c, u)
    PROVE  IsSeq(Append(q, m)) /\ Follows(Append(q, m), c, u, is)
<1> DEFINE t == Append(q, m)
<1>1. /\ IsSeq(t) /\ ~Names(m, c)
      /\ \A i \in DOMAIN q : i \in DOMAIN t /\ t[i] = q[i]
      /\ \A i \in DOMAIN t : t[i] = m \/ (i \in DOMAIN q /\ t[i] = q[i])
  BY AppendKeeps DEF Speaks
<1>2. LastVoices(t, c, u, is)
  BY LastVoicesAppend DEF Follows
<1>3. LeftBefore(q, c) => LeftBefore(t, c)
  BY <1>1, LeftBeforeAppend
<1> HIDE DEF t
<1>4. Nameless(q, c) => Nameless(t, c)
  BY <1>1 DEF Nameless
<1>5. Silent(t, c, u) => Silent(q, c, u)
  BY <1>1 DEF Silent
<1> QED
  BY <1>1, <1>2, <1>3, <1>4, <1>5 DEF Follows, t

LEMMA FollowsMoves ==
    ASSUME NEW q, IsSeq(q), NEW m, NEW c, NEW u, NEW is \in BOOLEAN, NEW is2 \in BOOLEAN,
           Follows(q, c, u, is), Moves(m, c, u), m.add = is2
    PROVE  Follows(Append(q, m), c, u, is2)
<1> DEFINE t == Append(q, m)
<1>0. ~Names(m, c) /\ Speaks(m, c, u) /\ Voices(m, c, u, is2)
  BY Kinds DEF Speaks, Voices
<1>1. /\ \E i \in DOMAIN t : t[i] = m
      /\ \A i \in DOMAIN t : t[i] = m \/ (i \in DOMAIN q /\ t[i] = q[i])
  BY AppendKeeps
<1>2. LastVoices(t, c, u, is2)
  BY <1>0, LastVoicesAppend
<1>3. LeftBefore(q, c) => LeftBefore(t, c)
  BY <1>0, LeftBeforeAppend
<1> HIDE DEF t
<1>4. Nameless(q, c) => Nameless(t, c)
  BY <1>0, <1>1 DEF Nameless
<1>5. ~Silent(t, c, u)
  BY <1>0, <1>1 DEF Silent
<1> QED
  BY <1>2, <1>3, <1>4, <1>5 DEF Follows, t

LEMMA FollowsEntry ==
    ASSUME NEW q, IsSeq(q), NEW m, NEW n, NEW c, NEW u, NEW is \in BOOLEAN,
           Names(n, c), (u \in n.voiced) = is,
           u \in users[c] => ~whois /\ \E i \in DOMAIN q : Leaves(q[i], c)
    PROVE  Follows(Append(Append(q, m), n), c, u, is)
<1> DEFINE p == Append(q, m)
           t == Append(p, n)
<1>0. IsSeq(p) /\ \A i \in DOMAIN q : i \in DOMAIN p /\ p[i] = q[i]
  BY AppendKeeps
<1> HIDE DEF p
<1>1. IsSeq(p) /\ ((\E i \in DOMAIN q : Leaves(q[i], c)) => \E i \in DOMAIN p : Leaves(p[i], c))
  BY <1>0
<1>6. \E i \in DOMAIN t : t[i] = n
  BY <1>0, AppendKeeps
<1> HIDE DEF t
<1>2. Speaks(n, c, u) /\ Voices(n, c, u, is) /\ \E i \in DOMAIN t : t[i] = n
  BY <1>6, Kinds DEF Speaks, Voices
<1> USE DEF t
<1>3. LastVoices(t, c, u, is)
  BY <1>1, <1>2, LastVoicesAppend
<1>4. (\E i \in DOMAIN p : Leaves(p[i], c)) => LeftBefore(t, c)
  BY <1>1, LeftBeforeAppend
<1> HIDE DEF t
<1>5. ~Silent(t, c, u)
  BY <1>2 DEF Silent
<1> QED
  BY <1>1, <1>3, <1>4, <1>5 DEF Follows, Deaf, t, p

\* What the network says is followed.
LEMMA VoiceTold ==
    ASSUME ArgumentsLast,
           SessionInv, TablesInv, VoiceInv, Network, "nickname" \notin astray',
           NEW c \in Channels, c \in in', NEW u \in steady'[c]
    PROVE  Follows(inq, c, u, u \in netvoice[c])'
<1>1. IsSeq(inq) /\ UNCHANGED <<users, voice, whois>>
  BY NetworkFrame DEF SessionInv, botVars
<1>2. astray \subseteq astray'
  BY NetworkFrame
  DEF Nothing, Refuses, Registers, Tells, TellsTwo, Renames, Joining, Leaving
<1>0. (u \in netvoice[c]) \in BOOLEAN /\ (u \in netvoice'[c]) \in BOOLEAN
  OBVIOUS
<1>3. PICK is \in BOOLEAN : is = (u \in netvoice[c])
  BY <1>0
<1>4. PICK is2 \in BOOLEAN : is2 = (u \in netvoice'[c])
  BY <1>0
<1>5. c \in in /\ u \in steady[c] => Follows(inq, c, u, is)
  BY <1>2, <1>3 DEF VoiceInv, SessionInv
<1>6. Follows(inq', c, u, is2)
  <2>1. CASE Elsewhere(c, u)
    <3>1. Follows(inq, c, u, is) /\ is2 = is /\ Unrelated(c, u)
      BY <1>3, <1>4, <1>5, <2>1 DEF Elsewhere
    <3>2. CASE \E m : inq' = Append(inq, m) /\ ~Speaks(m, c, u)
      BY <1>1, <3>1, <3>2, FollowsAppend
    <3>3. CASE \E m, n : inq' = Append(Append(inq, m), n) /\ ~Speaks(m, c, u) /\ ~Speaks(n, c, u)
      <4>1. PICK m, n : inq' = Append(Append(inq, m), n) /\ ~Speaks(m, c, u) /\ ~Speaks(n, c, u)
        BY <3>3
      <4> DEFINE p == Append(inq, m)
      <4>2. IsSeq(p) /\ Follows(p, c, u, is)
        BY <1>1, <3>1, <4>1, FollowsAppend
      <4> HIDE DEF p
      <4>3. Follows(Append(p, n), c, u, is)
        BY <4>1, <4>2, FollowsAppend
      <4> QED
        BY <3>1, <4>1, <4>3 DEF p
    <3> QED
      BY <3>1, <3>2, <3>3 DEF Unrelated
  <2>2. CASE Moving(c, u)
    <3>1. Follows(inq, c, u, is) /\ \E m : inq' = Append(inq, m) /\ Moves(m, c, u) /\ m.add = is2
      BY <1>4, <1>5, <2>2 DEF Moving
    <3> QED
      BY <1>1, <3>1, FollowsMoves
  <2>3. CASE Entering(c, u)
    <3>1. PICK m, n : /\ inq' = Append(Append(inq, m), n)
                      /\ Names(n, c) /\ (u \in n.voiced) = is2
      BY <1>4, <2>3 DEF Entering
    <3>2. u \in users[c] => ~whois /\ \E i \in DOMAIN inq : Leaves(inq[i], c)
      BY <2>3 DEF Entering
    <3> QED
      BY <1>1, <3>1, <3>2, FollowsEntry
  <2> QED
    BY <2>1, <2>2, <2>3, NetworkVoice DEF TablesInv
<1>7. Deaf' => Deaf
  <2>1. ASSUME inq # <<>> PROVE inq' # <<>> /\ inq'[1] = inq[1]
    <3>1. 1 \in DOMAIN inq
      BY <1>1, <2>1, TailQueue
    <3>2. ASSUME NEW q, IsSeq(q), 1 \in DOMAIN q, NEW m
          PROVE  IsSeq(Append(q, m)) /\ 1 \in DOMAIN Append(q, m) /\ Append(q, m)[1] = q[1]
      BY <3>2, AppendKeeps
    <3>3. 1 \in DOMAIN inq' /\ inq'[1] = inq[1]
      <4>1. CASE inq' = inq
        BY <3>1, <4>1
      <4>2. CASE \E m : inq' = Append(inq, m)
        BY <1>1, <3>1, <3>2, <4>2
      <4>3. CASE \E m, n : inq' = Append(Append(inq, m), n)
        <5>1. PICK m, n : inq' = Append(Append(inq, m), n)
          BY <4>3
        <5> DEFINE p == Append(inq, m)
        <5>2. IsSeq(p) /\ 1 \in DOMAIN p /\ p[1] = inq[1]
          BY <1>1, <3>1, <3>2
        <5> HIDE DEF p
        <5>3. 1 \in DOMAIN Append(p, n) /\ Append(p, n)[1] = p[1]
          BY <3>2, <5>2
        <5> QED
          BY <5>1, <5>2, <5>3 DEF p
      <4>4. Elsewhere(c, u) \/ Moving(c, u) \/ Entering(c, u)
        BY NetworkVoice DEF TablesInv
      <4> QED
        BY <4>1, <4>2, <4>3, <4>4 DEF Elsewhere, Unrelated, Moving, Entering
    <3> QED
      BY <3>3, EmptyQueue
  <2> QED
    BY <1>1, <2>1 DEF Deaf
<1> QED
  BY <1>1, <1>2, <1>4, <1>6, <1>7 DEF Follows

LEMMA VoiceStep ==
    ASSUME ArgumentsLast,
           Extends = {}
    PROVE  SessionInv /\ NickInv /\ TablesInv /\ PrefixesInv /\ StaysInv /\ VoiceInv
               /\ [Next]_vars => VoiceInv'
<1> SUFFICES ASSUME SessionInv, NickInv, TablesInv, PrefixesInv, StaysInv, VoiceInv, [Next]_vars,
                    sess' = "reg", "nickname" \notin astray',
                    NEW c \in Channels, c \in in', NEW u \in steady'[c]
             PROVE  Follows(inq, c, u, u \in netvoice[c])'
  BY DEF VoiceInv
<1>1. CASE Handlers
  <2>1. /\ sess = "reg" /\ c \in in /\ u \in steady[c] /\ netvoice' = netvoice
        /\ "nickname" \notin astray /\ IsSeq(inq) /\ inq # <<>> /\ inq' = Tail(inq)
    BY <1>1, HandlerFrame, HandlerModes, HandlerNick DEF netVars, SessionInv
  <2>0. (u \in netvoice[c]) \in BOOLEAN
    OBVIOUS
  <2>2. PICK is \in BOOLEAN : is = (u \in netvoice[c])
    BY <2>0
  <2>3. Follows(inq, c, u, is)
    BY <2>1, <2>2 DEF VoiceInv
  <2>4. LastVoices(inq', c, u, is)
    BY <2>1, <2>3, LastVoicesTail DEF Follows
  <2>5. u \in users'[c] => LeftBefore(inq', c) /\ (Deaf' => Nameless(inq', c))
    BY <1>1, <2>1, <2>3, ForgottenHandled DEF Follows
  <2>6. Silent(inq', c, u) /\ c \notin astray' /\ u \in users'[c] => (u \in voice'[c]) = is
    BY <1>1, <2>1, <2>3, VoiceHandled
  <2> QED
    BY <2>1, <2>2, <2>4, <2>5, <2>6 DEF Follows
<1>2. CASE Calls
  <2>1. ~irc_server_disconnect
    BY DEF irc_server_disconnect, NoSession
  <2>2. /\ UNCHANGED <<inq, netVars, users, voice, whois, steady>> /\ astray \subseteq astray'
    BY <1>2, <2>1, CallTables
  <2>3. Follows(inq, c, u, u \in netvoice[c])
    BY <2>2 DEF VoiceInv, netVars
  <2> QED
    BY <2>2, <2>3 DEF Follows, Deaf, netVars
<1>3. CASE ConnUp \/ ConnRetry \/ ConnLost
  <2>1. link \in {"down", "lost", "up"} /\ sess' = (IF ConnLost THEN "none" ELSE sess)
    BY <1>3 DEF ConnUp, ConnRetry, ConnLost, NoSession, netVars
  <2> QED
    BY <1>3, <2>1 DEF ConnUp, ConnRetry, ConnLost, NoSession, SessionInv
<1>4. CASE Network
  BY <1>4, VoiceTold
<1>5. CASE UNCHANGED vars
  <2>1. UNCHANGED <<sess, in, steady, netvoice, inq, users, voice, whois, astray>>
    BY <1>5 DEF vars, netVars, botVars, histVars
  <2>2. Follows(inq, c, u, u \in netvoice[c])
    BY <2>1 DEF VoiceInv
  <2> QED
    BY <2>1, <2>2 DEF Follows, Deaf
<1> QED
  BY <1>1, <1>2, <1>3, <1>4, <1>5 DEF Next

\* server.c, irc_server_handle_mode, irc_server_handle_names: at rest the voice of
\* a user who stayed in the channel is what the network has, however MODE, NAMES,
\* KICK, PART and WHOIS lines came: when no nickname is the beginning of another
\* and the network gives the letters without an argument last.
THEOREM VoiceAlwaysKnown ==
    ASSUME ArgumentsLast,
           Extends = {}
    PROVE  Spec => []VoiceKnown
<1> DEFINE IInv == ServerInv /\ TablesInv /\ PrefixesInv /\ StaysInv /\ VoiceInv
<1>1. Init => IInv
  BY ServerInvInit, TablesInit DEF Init, StaysInv, VoiceInv
<1>2. IInv /\ [Next]_vars => IInv'
  BY ServerInvStep, TablesStep, StaysStep, VoiceStep DEF ServerInv
<1>3. IInv => VoiceKnown
  <2> SUFFICES ASSUME IInv, AtRest, NEW c \in Sure, c \in in, NEW u \in users[c], u \in steady[c]
               PROVE  u \in voice[c] <=> u \in netvoice[c]
    BY DEF VoiceKnown
  <2>1. c \in Channels /\ "nickname" \notin astray /\ c \notin astray
    BY DEF Sure
  <2>2. Follows(<<>>, c, u, u \in netvoice[c])
    BY <2>1 DEF VoiceInv, AtRest
  <2>3. Silent(<<>>, c, u)
    BY EmptyQueue DEF Silent
  <2> QED
    BY <2>1, <2>2, <2>3 DEF Follows
<1> QED
  BY <1>1, <1>2, <1>3, PTL DEF Spec

=============================================================================
