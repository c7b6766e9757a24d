---------------------------- MODULE Bot_proofs -----------------------------
(***************************************************************************)
(* The bot keeps its lists, its dispatch and its references right for every *)
(* number of plugins and servers and every depth of nested calls.          *)
(*                                                                         *)
(* The invariant says of each frame of the call stack what the loop or the  *)
(* call it stands for relies on until it goes on: what is below the top of *)
(* the stack has read the lists already and is not asked again.            *)
(***************************************************************************)
EXTENDS Bot, FiniteSetTheorems, SequenceTheorems, TLAPS

\* What the variables hold at any time.
Once(list) == \A i, j \in DOMAIN list : list[i] = list[j] => i = j

PlugInv ==
    /\ plugins \in Seq(Plugs) /\ Once(plugins)
    /\ life \in [Plugs -> {"closed", "open", "loaded", "leaked", "unloading"}]
SrvInv ==
    /\ servers \in Seq(Srvs) /\ Once(servers)
    /\ link \in [Srvs -> Srvs \cup {Nil}] /\ refc \in [Srvs -> Nat]
    /\ conn \subseteq alive /\ Listed(servers) \subseteq alive /\ alive \subseteq Srvs
    /\ handles \in [Plugs -> SUBSET Srvs] /\ dropped \subseteq Srvs /\ twice \subseteq Srvs
    /\ ConnectedListed
Kept ==
    /\ stack \in Seq(Frame) /\ fault \in {"none", "freed", "null", "active coroutine"}
    /\ PlugInv /\ SrvInv

\* Loops that only the outermost call runs, or irc_bot_finish.
Outermost(i, f) ==
    /\ f.fn \in {"plugin_add", "finish"} => i = 1
    /\ f.fn \in {"plugin_clear", "server_clear"} => i = 1 \/ (i = 2 /\ stack[1].fn = "finish")

\* What is known of a plugin and a server in the middle of a call.
Lasts(i, f) ==
    /\ Outermost(i, f)
    /\ f.fn = "plugin_remove" => life[f.p] = "unloading"
    /\ f.fn = "plugin_add" => life[f.p] = "open"
    /\ f.fn = "plugin_clear" =>
          /\ f.p = Nil => plugins = <<>>
          /\ f.p \in Listed(plugins) => plugins[1] = f.p
    /\ f.fn = "server_remove" => f.s \in twice \/ (f.s \in Listed(servers) /\ f.s \notin conn)
    /\ f.fn = "finish" /\ f.step = "end" =>
          plugins = <<>> \/ (2 \in DOMAIN stack /\ stack[2].fn = "plugin_clear")

Pair(f, g) ==
    /\ f.fn = "plugin_remove" /\ g.fn = "plugin_remove" => f.p # g.p
    /\ f.fn = "server_remove" /\ g.fn = "server_remove" /\ f.s = g.s => f.s \in twice

\* How far a dispatch is.
Offered(q, f) ==
    \/ f.seen[q] = IF q = f.cmd THEN 0 ELSE 1
    \/ f.seen[q] = 0 /\ is_command(q, f) /\ f.cmd # Nil /\ is_command(f.cmd, f)
Offers(f) ==
    /\ f.stayed = Listed(plugins)
    /\ f.cmd # Nil => is_command(f.cmd, f)
    /\ \A q \in Plugs : f.seen[q] <= 1
    /\ f.step \in {"plugins", "command"} => \A q \in Plugs : q = f.cmd => f.seen[q] = 0
    /\ f.step = "plugins" =>
          /\ f.p = Nil => \A q \in f.stayed : Offered(q, f)
          /\ \A i, j \in DOMAIN plugins : plugins[j] = f.p =>
                /\ i < j => Offered(plugins[i], f)
                /\ i >= j => f.seen[plugins[i]] = 0 /\ plugins[i] # f.cmd
    /\ f.step = "command" => \A q \in f.stayed : Offered(q, f)
    /\ f.step = "observe" =>
         \A q \in f.stayed : f.seen[q] = 1 \/ (f.seen[q] = 0 /\ is_command(q, f) /\ f.cmd # Nil)

LoadedListed == \A p \in Plugs : life[p] = "loaded" <=> p \in Listed(plugins)
UnloadingNow ==
    fault = "none" => \A p \in Plugs : life[p] = "unloading" =>
        \E i \in DOMAIN stack : stack[i].fn = "plugin_remove" /\ stack[i].p = p

BotInv ==
    /\ Kept /\ LoadedListed /\ UnloadingNow
    /\ \A i \in DOMAIN stack : Lasts(i, stack[i])
    /\ \A i, j \in DOMAIN stack : i # j => Pair(stack[i], stack[j])
    /\ \A i \in DOMAIN stack : stack[i].fn = "dispatch" => Offers(stack[i])

-----------------------------------------------------------------------------
(* Sequences.                                                              *)

LEMMA Nothing ==
    ASSUME NEW S
    PROVE  <<>> \in Seq(S) /\ Len(<<>>) = 0 /\ DOMAIN <<>> = {}
<1>1. <<>> \in Seq(S) /\ Len(<<>>) = 0
  BY EmptySeq
<1>2. DOMAIN <<>> = 1..Len(<<>>)
  BY <1>1, LenProperties
<1> QED
  BY <1>1, <1>2

\* One element behind a sequence, and two.
LEMMA OneMore ==
    ASSUME NEW S, NEW s \in Seq(S), NEW a \in S
    PROVE  /\ s \o <<a>> \in Seq(S) /\ Len(s \o <<a>>) = Len(s) + 1 /\ Len(s) \in Nat
           /\ DOMAIN s = 1..Len(s) /\ DOMAIN (s \o <<a>>) = 1..(Len(s) + 1)
           /\ \A i \in 1..Len(s) : (s \o <<a>>)[i] = s[i]
           /\ (s \o <<a>>)[Len(s) + 1] = a
<1> DEFINE b == <<a>>
<1>1. b \in Seq(S) /\ Len(b) = 1 /\ b[1] = a /\ Len(s) \in Nat
  OBVIOUS
<1> HIDE DEF b
<1> DEFINE t == s \o b
<1>2. /\ t \in Seq(S) /\ Len(t) = Len(s) + Len(b)
      /\ \A i \in 1..Len(s) + Len(b) : t[i] = IF i <= Len(s) THEN s[i] ELSE b[i - Len(s)]
  BY <1>1, ConcatProperties
<1> HIDE DEF t
<1>3. Len(t) = Len(s) + 1 /\ DOMAIN t = 1..(Len(s) + 1) /\ DOMAIN s = 1..Len(s)
  BY <1>1, <1>2, LenProperties
<1>4. \A i \in 1..Len(s) : t[i] = s[i]
  BY <1>1, <1>2
<1>5. t[Len(s) + 1] = a
  <2>1. Len(s) + 1 \in 1..Len(s) + Len(b) /\ ~(Len(s) + 1 <= Len(s)) /\ Len(s) + 1 - Len(s) = 1
    BY <1>1
  <2> QED
    BY <1>1, <1>2, <2>1
<1> QED
  BY <1>1, <1>2, <1>3, <1>4, <1>5 DEF t, b

LEMMA TwoMore ==
    ASSUME NEW S, NEW s \in Seq(S), NEW a \in S, NEW b \in S
    PROVE  /\ s \o <<a, b>> \in Seq(S) /\ Len(s \o <<a, b>>) = Len(s) + 2 /\ Len(s) \in Nat
           /\ DOMAIN s = 1..Len(s) /\ DOMAIN (s \o <<a, b>>) = 1..(Len(s) + 2)
           /\ \A i \in 1..Len(s) : (s \o <<a, b>>)[i] = s[i]
           /\ (s \o <<a, b>>)[Len(s) + 1] = a /\ (s \o <<a, b>>)[Len(s) + 2] = b
<1> DEFINE c == <<a, b>>
<1>1. c \in Seq(S) /\ Len(c) = 2 /\ c[1] = a /\ c[2] = b /\ Len(s) \in Nat
  OBVIOUS
<1> HIDE DEF c
<1> DEFINE t == s \o c
<1>2. /\ t \in Seq(S) /\ Len(t) = Len(s) + Len(c)
      /\ \A i \in 1..Len(s) + Len(c) : t[i] = IF i <= Len(s) THEN s[i] ELSE c[i - Len(s)]
  BY <1>1, ConcatProperties
<1> HIDE DEF t
<1>3. Len(t) = Len(s) + 2 /\ DOMAIN t = 1..(Len(s) + 2) /\ DOMAIN s = 1..Len(s)
  BY <1>1, <1>2, LenProperties
<1>4. \A i \in 1..Len(s) : t[i] = s[i]
  BY <1>1, <1>2
<1>5. t[Len(s) + 1] = a /\ t[Len(s) + 2] = b
  <2>1. /\ Len(s) + 1 \in 1..Len(s) + Len(c) /\ ~(Len(s) + 1 <= Len(s)) /\ Len(s) + 1 - Len(s) = 1
        /\ Len(s) + 2 \in 1..Len(s) + Len(c) /\ ~(Len(s) + 2 <= Len(s)) /\ Len(s) + 2 - Len(s) = 2
    BY <1>1
  <2> QED
    BY <1>1, <1>2, <2>1
<1> QED
  BY <1>1, <1>2, <1>3, <1>4, <1>5 DEF t, c

LEMMA AllButLast ==
    ASSUME NEW S, NEW s \in Seq(S), s # <<>>
    PROVE  /\ Front(s) \in Seq(S) /\ Len(Front(s)) = Len(s) - 1 /\ Len(s) \in Nat \ {0}
           /\ DOMAIN s = 1..Len(s) /\ DOMAIN Front(s) = 1..(Len(s) - 1)
           /\ \A i \in 1..(Len(s) - 1) : Front(s)[i] = s[i]
           /\ Last(s) = s[Len(s)] /\ Last(s) \in S
<1>1. Len(s) \in Nat \ {0} /\ DOMAIN s = 1..Len(s) /\ \A i \in 1..Len(s) : s[i] \in S
  BY LenProperties, EmptySeq
<1> DEFINE n == Len(s) - 1
           f == SubSeq(s, 1, n)
<1>2. n \in Nat /\ n + 1 = Len(s) /\ \A i \in 1..n : s[i] \in S
  BY <1>1
<1> HIDE DEF n
<1>3. f \in Seq(S) /\ Len(f) = n /\ \A i \in 1..n : f[i] = s[i]
  <2>1. /\ f \in Seq(S) /\ Len(f) = IF 1 <= n THEN n - 1 + 1 ELSE 0
        /\ \A i \in 1..n - 1 + 1 : f[i] = s[1 + i - 1]
    BY <1>2, SubSeqProperties
  <2>2. n - 1 + 1 = n /\ (~(1 <= n) => n = 0) /\ \A i \in 1..n : 1 + i - 1 = i
    BY <1>2
  <2> QED
    BY <2>1, <2>2
<1> HIDE DEF f
<1>4. DOMAIN f = 1..n
  BY <1>3, LenProperties
<1>5. Front(s) = f /\ Last(s) = s[Len(s)]
  BY DEF Front, Last, f, n
<1>6. Last(s) \in S
  BY <1>1, <1>5
<1> QED
  BY <1>1, <1>3, <1>4, <1>5, <1>6 DEF n

-----------------------------------------------------------------------------
(* The lists of the bot.                                                   *)

LEMMA PlaceOps ==
    ASSUME NEW S, NEW list \in Seq(S), NEW x \in Listed(list)
    PROVE  Place(list, x) \in DOMAIN list /\ list[Place(list, x)] = x
<1>1. \E k \in DOMAIN list : list[k] = x
  BY DEF Listed
<1> QED
  BY <1>1 DEF Place

\* The next of an element, which stands right behind it.
LEMMA SuccessorOps ==
    ASSUME NEW S, NEW list \in Seq(S), Once(list), NEW k \in DOMAIN list
    PROVE  /\ Place(list, list[k]) = k /\ k \in 1..Len(list) /\ Len(list) \in Nat
           /\ k < Len(list) => Successor(list, list[k]) = list[k + 1] /\ k + 1 \in DOMAIN list
           /\ k = Len(list) => Successor(list, list[k]) = Nil
<1>1. Len(list) \in Nat /\ DOMAIN list = 1..Len(list)
  BY LenProperties
<1>2. Place(list, list[k]) = k
  <2>1. list[k] \in Listed(list)
    BY DEF Listed
  <2> QED
    BY <2>1, PlaceOps DEF Once
<1> QED
  BY <1>1, <1>2 DEF Successor

LEMMA SuccessorListed ==
    ASSUME NEW S, NEW list \in Seq(S), Once(list), NEW x \in Listed(list)
    PROVE  Successor(list, x) \in Listed(list) \cup {Nil}
<1>1. PICK k \in DOMAIN list : list[k] = x
  BY DEF Listed
<1>2. Len(list) \in Nat /\ DOMAIN list = 1..Len(list)
  BY LenProperties
<1>3. CASE k < Len(list)
  BY <1>1, <1>3, SuccessorOps DEF Listed
<1>4. CASE k = Len(list)
  BY <1>1, <1>4, SuccessorOps
<1> QED
  BY <1>2, <1>3, <1>4

LEMMA HeadListed ==
    ASSUME NEW S, NEW list \in Seq(S)
    PROVE  /\ HeadOf(list) \in Listed(list) \cup {Nil}
           /\ list # <<>> => HeadOf(list) = list[1] /\ 1 \in DOMAIN list
           /\ list = <<>> => HeadOf(list) = Nil /\ Listed(list) = {}
           /\ Listed(list) \subseteq S
<1>1. Len(list) \in Nat /\ DOMAIN list = 1..Len(list) /\ \A i \in DOMAIN list : list[i] \in S
  BY LenProperties
<1>2. list # <<>> => Len(list) # 0
  BY EmptySeq
<1>3. list # <<>> => 1 \in DOMAIN list
  BY <1>1, <1>2
<1>4. list = <<>> => DOMAIN list = {}
  BY EmptySeq
<1> QED
  BY <1>1, <1>3, <1>4 DEF HeadOf, Listed

LEMMA GetListed ==
    ASSUME NEW list, NEW name
    PROVE  /\ Get(list, name) \in Listed(list) \cup {Nil}
           /\ Get(list, name) # Nil => NameOf[Get(list, name)] = name
           /\ Get(list, name) = Nil => \A x \in Listed(list) : NameOf[x] = name => Nil \in Listed(list)
<1>1. CASE \E x \in Listed(list) : NameOf[x] = name
  <2> DEFINE y == CHOOSE x \in Listed(list) : NameOf[x] = name
  <2>1. y \in Listed(list) /\ NameOf[y] = name
    BY <1>1
  <2>2. Get(list, name) = y
    BY <1>1 DEF Get
  <2> QED
    BY <2>1, <2>2
<1>2. CASE ~\E x \in Listed(list) : NameOf[x] = name
  BY <1>2 DEF Get
<1> QED
  BY <1>1, <1>2

\* LL_DELETE takes one element out and keeps the order of the others.
LEMMA DeleteOps ==
    ASSUME NEW S, NEW list \in Seq(S), Once(list), NEW x
    PROVE  /\ LL_DELETE(list, x) \in Seq(S) /\ Once(LL_DELETE(list, x))
           /\ Listed(LL_DELETE(list, x)) = Listed(list) \ {x}
           /\ \A i, j \in DOMAIN LL_DELETE(list, x) :
                \E a, b \in DOMAIN list :
                    /\ LL_DELETE(list, x)[i] = list[a] /\ LL_DELETE(list, x)[j] = list[b]
                    /\ i < j => a < b
                    /\ i >= j => a >= b
           /\ \A y : 1 \in DOMAIN list /\ list[1] = y /\ y \in Listed(LL_DELETE(list, x)) =>
                        1 \in DOMAIN LL_DELETE(list, x) /\ LL_DELETE(list, x)[1] = y
           /\ 1 \in DOMAIN list /\ list[1] = x =>
                HeadOf(LL_DELETE(list, x)) = Successor(list, x)
<1> DEFINE new == LL_DELETE(list, x)
           n == Len(list)
           k == Place(list, x)
<1>0. n \in Nat /\ DOMAIN list = 1..n /\ \A i \in 1..n : list[i] \in S
  BY LenProperties
<1>1. CASE x \notin Listed(list)
  <2>1. new = list
    BY <1>1 DEF LL_DELETE
  <2>2. \A y : y \in Listed(list) => y # x
    BY <1>1
  <2>3. ~(1 \in DOMAIN list /\ list[1] = x)
    BY <1>1 DEF Listed
  <2> HIDE DEF new, n
  <2>4. \A i, j \in DOMAIN list : \E a, b \in DOMAIN list :
           list[i] = list[a] /\ list[j] = list[b] /\ (i < j => a < b) /\ (i >= j => a >= b)
    BY <1>0
  <2> QED
    BY <2>1, <2>2, <2>3, <2>4, <1>1 DEF new
<1>2. CASE x \in Listed(list)
  <2>1. k \in 1..n /\ list[k] = x
    BY <1>0, <1>2, PlaceOps
  <2> HIDE DEF k
  <2> DEFINE a == SubSeq(list, 1, k - 1)
             b == SubSeq(list, k + 1, n)
  <2>2. new = a \o b
    BY <1>2 DEF LL_DELETE, RemoveAt, k
  <2>3. a \in Seq(S) /\ Len(a) = k - 1 /\ \A i \in 1..k - 1 : a[i] = list[i]
    <3>1. /\ a \in Seq(S) /\ Len(a) = IF 1 <= k - 1 THEN k - 1 - 1 + 1 ELSE 0
          /\ \A i \in 1..k - 1 - 1 + 1 : a[i] = list[1 + i - 1]
      <4>1. 1 \in Int /\ k - 1 \in Int /\ \A i \in 1..k - 1 : list[i] \in S
        BY <1>0, <2>1
      <4> QED
        BY <4>1, SubSeqProperties
    <3>2. \A i \in 1..k - 1 : i \in 1..k - 1 - 1 + 1 /\ 1 + i - 1 = i
      BY <1>0, <2>1
    <3>3. (IF 1 <= k - 1 THEN k - 1 - 1 + 1 ELSE 0) = k - 1
      BY <1>0, <2>1
    <3> QED
      BY <3>1, <3>2, <3>3
  <2>4. b \in Seq(S) /\ Len(b) = n - k /\ \A i \in 1..n - k : b[i] = list[k + i]
    <3>1. /\ b \in Seq(S) /\ Len(b) = IF k + 1 <= n THEN n - (k + 1) + 1 ELSE 0
          /\ \A i \in 1..n - (k + 1) + 1 : b[i] = list[k + 1 + i - 1]
      <4>1. k + 1 \in Int /\ n \in Int /\ \A i \in k + 1..n : list[i] \in S
        BY <1>0, <2>1
      <4> QED
        BY <4>1, SubSeqProperties
    <3>2. \A i \in 1..n - k : i \in 1..n - (k + 1) + 1 /\ k + 1 + i - 1 = k + i
      BY <1>0, <2>1
    <3>3. (IF k + 1 <= n THEN n - (k + 1) + 1 ELSE 0) = n - k
      <4>1. CASE k + 1 <= n
        BY <1>0, <2>1, <4>1
      <4>2. CASE ~(k + 1 <= n)
        <5> HIDE DEF n
        <5>1. n \in Nat /\ k \in Nat /\ 1 <= k /\ k <= n
          BY <1>0, <2>1
        <5>2. n - k = 0
          BY <4>2, <5>1
        <5> QED
          BY <4>2, <5>2
      <4> QED
        BY <4>1, <4>2
    <3> QED
      BY <3>1, <3>2, <3>3
  <2> HIDE DEF a, b, n
  <2>5. /\ new \in Seq(S) /\ Len(new) = n - 1
        /\ \A i \in 1..n - 1 : new[i] = IF i < k THEN list[i] ELSE list[i + 1]
    <3> DEFINE w == a \o b
    <3>1. /\ w \in Seq(S) /\ Len(w) = Len(a) + Len(b)
          /\ \A i \in 1..Len(a) + Len(b) : w[i] = IF i <= Len(a) THEN a[i] ELSE b[i - Len(a)]
      BY <2>3, <2>4, ConcatProperties
    <3> HIDE DEF w
    <3>2. Len(w) = n - 1
      BY <1>0, <2>1, <2>3, <2>4, <3>1
    <3>3. \A i \in 1..n - 1 : w[i] = IF i < k THEN list[i] ELSE list[i + 1]
      <4> TAKE i \in 1..n - 1
      <4>1. CASE i < k
        <5>1. i \in 1..k - 1 /\ i \in 1..Len(a) + Len(b) /\ i <= Len(a)
          BY <1>0, <2>1, <2>3, <2>4, <4>1
        <5> QED
          BY <2>3, <3>1, <4>1, <5>1
      <4>2. CASE ~(i < k)
        <5>1. /\ i - (k - 1) \in 1..n - k /\ i \in 1..Len(a) + Len(b) /\ ~(i <= Len(a))
              /\ k + (i - (k - 1)) = i + 1
          BY <1>0, <2>1, <2>3, <2>4, <4>2
        <5> QED
          BY <2>3, <2>4, <3>1, <4>2, <5>1
      <4> QED
        BY <4>1, <4>2
    <3> QED
      BY <2>2, <3>1, <3>2, <3>3 DEF w
  <2> HIDE DEF new
  <2>6. DOMAIN new = 1..n - 1
    BY <2>5, LenProperties
  <2> DEFINE m(i) == IF i < k THEN i ELSE i + 1
  <2>7. \A i \in DOMAIN new : m(i) \in DOMAIN list /\ new[i] = list[m(i)] /\ m(i) # k
    BY <1>0, <2>1, <2>5, <2>6
  <2>8. \A i, j \in DOMAIN new : (i < j => m(i) < m(j)) /\ (i >= j => m(i) >= m(j)) /\ (m(i) = m(j) => i = j)
    BY <1>0, <2>1, <2>6
  <2>9. \A c \in DOMAIN list : c # k => \E i \in DOMAIN new : m(i) = c
    <3> TAKE c \in DOMAIN list
    <3> HAVE c # k
    <3>1. CASE c < k
      BY <1>0, <2>1, <2>6, <3>1
    <3>2. CASE c > k
      <4>1. c - 1 \in DOMAIN new /\ m(c - 1) = c
        BY <1>0, <2>1, <2>6, <3>2
      <4> QED
        BY <4>1
    <3> QED
      BY <1>0, <2>1, <3>1, <3>2
  <2> HIDE DEF m
  <2>10. Once(new)
    BY <2>7, <2>8 DEF Once
  <2>11. Listed(new) = Listed(list) \ {x}
    <3>1. \A y \in Listed(new) : y \in Listed(list) /\ y # x
      BY <1>0, <2>1, <2>7 DEF Listed, Once
    <3>2. ASSUME NEW y \in Listed(list), y # x PROVE y \in Listed(new)
      <4>1. PICK c \in DOMAIN list : list[c] = y
        BY DEF Listed
      <4>2. c # k
        BY <2>1, <3>2, <4>1
      <4>3. PICK i \in DOMAIN new : m(i) = c
        BY <2>9, <4>2
      <4> QED
        BY <2>7, <4>1, <4>3 DEF Listed
    <3> QED
      BY <3>1, <3>2
  <2>12. \A i, j \in DOMAIN new : \E c, d \in DOMAIN list :
            new[i] = list[c] /\ new[j] = list[d] /\ (i < j => c < d) /\ (i >= j => c >= d)
    BY <2>7, <2>8
  <2>13. ASSUME NEW y, 1 \in DOMAIN list, list[1] = y, y \in Listed(new)
         PROVE  1 \in DOMAIN new /\ new[1] = y
    <3>1. k # 1
      BY <2>1, <2>11, <2>13
    <3>2. 1 < k /\ 1 \in 1..n - 1
      BY <1>0, <2>1, <3>1
    <3> QED
      BY <2>5, <2>6, <2>13, <3>2
  <2>14. ASSUME 1 \in DOMAIN list, list[1] = x PROVE HeadOf(new) = Successor(list, x)
    <3>1. k = 1
      BY <1>0, <2>1, <2>14 DEF Once
    <3>2. Successor(list, x) = IF 1 < n THEN list[2] ELSE Nil
      <4>1. Successor(list, x) = IF k < n THEN list[k + 1] ELSE Nil
        BY DEF Successor, k, n
      <4> QED
        BY <3>1, <4>1
    <3>3. CASE 1 < n
      <4>1. 1 \in 1..n - 1 /\ new[1] = list[2]
        <5>1. 1 \in 1..n - 1 /\ ~(1 < k) /\ 1 + 1 = 2
          BY <1>0, <3>1, <3>3
        <5> QED
          BY <2>5, <5>1
      <4>2. new # <<>>
        <5>1. Len(new) # 0
          BY <1>0, <2>5, <3>3
        <5> QED
          BY <2>5, <5>1, EmptySeq
      <4> QED
        BY <3>2, <3>3, <4>1, <4>2 DEF HeadOf
    <3>4. CASE ~(1 < n)
      <4>1. Len(new) = 0
        BY <1>0, <2>1, <2>5, <3>4
      <4>2. new = <<>>
        BY <2>5, <4>1, EmptySeq
      <4> QED
        BY <3>2, <3>4, <4>2 DEF HeadOf
    <3> QED
      BY <3>3, <3>4
  <2> QED
    BY <2>5, <2>10, <2>11, <2>12, <2>13, <2>14 DEF new
<1> QED
  BY <1>1, <1>2

\* Lists grow at one end, by what they do not have.
LEMMA PrependOps ==
    ASSUME NEW S, NEW list \in Seq(S), Once(list), NEW x \in S, x \notin Listed(list)
    PROVE  <<x>> \o list \in Seq(S) /\ Once(<<x>> \o list) /\ Listed(<<x>> \o list) = Listed(list) \cup {x}
<1> DEFINE n == Len(list)
           b == <<x>>
<1>0. n \in Nat /\ DOMAIN list = 1..n /\ \A i \in 1..n : list[i] # x
  BY LenProperties DEF Listed
<1>1. b \in Seq(S) /\ Len(b) = 1 /\ b[1] = x
  OBVIOUS
<1> HIDE DEF b, n
<1>2. b \o list \in Seq(S) /\ Once(b \o list) /\ Listed(b \o list) = Listed(list) \cup {x}
  <2> DEFINE w == b \o list
  <2>1. /\ w \in Seq(S) /\ Len(w) = Len(b) + Len(list)
        /\ \A i \in 1..Len(b) + Len(list) : w[i] = IF i <= Len(b) THEN b[i] ELSE list[i - Len(b)]
    BY <1>1, ConcatProperties
  <2> HIDE DEF w
  <2>2. DOMAIN w = 1..1 + n
    BY <1>1, <2>1, LenProperties DEF n
  <2>3. \A i \in 1..1 + n : w[i] = IF i = 1 THEN x ELSE list[i - 1]
    <3> TAKE i \in 1..1 + n
    <3>1. CASE i = 1
      BY <1>0, <1>1, <2>1, <3>1 DEF n
    <3>2. CASE i # 1
      BY <1>0, <1>1, <2>1, <3>2 DEF n
    <3> QED
      BY <3>1, <3>2
  <2>4. \A i \in 1..1 + n : i # 1 => i - 1 \in 1..n
    BY <1>0
  <2>5. Once(w)
    <3> SUFFICES ASSUME NEW i \in 1..1 + n, NEW j \in 1..1 + n, w[i] = w[j]
                 PROVE  i = j
      BY <2>2 DEF Once
    <3>1. CASE i = 1 \/ j = 1
      BY <1>0, <2>3, <2>4, <3>1
    <3>2. CASE i # 1 /\ j # 1
      <4>1. i - 1 = j - 1
        BY <1>0, <2>3, <2>4, <3>2 DEF Once
      <4> QED
        BY <1>0, <4>1
    <3> QED
      BY <3>1, <3>2
  <2>6. Listed(w) = Listed(list) \cup {x}
    <3>1. \A y \in Listed(w) : y \in Listed(list) \cup {x}
      BY <1>0, <2>2, <2>3, <2>4 DEF Listed
    <3>2. x \in Listed(w)
      <4>1. 1 \in 1..1 + n
        BY <1>0
      <4> QED
        BY <2>2, <2>3, <4>1 DEF Listed
    <3>3. ASSUME NEW y \in Listed(list) PROVE y \in Listed(w)
      <4>1. PICK i \in 1..n : list[i] = y
        BY <1>0 DEF Listed
      <4>2. i + 1 \in 1..1 + n /\ i + 1 # 1 /\ i + 1 - 1 = i
        BY <1>0
      <4>3. w[i + 1] = y
        BY <2>3, <4>1, <4>2
      <4> QED
        BY <2>2, <4>2, <4>3 DEF Listed
    <3> QED
      BY <3>1, <3>2, <3>3
  <2> QED
    BY <2>1, <2>5, <2>6 DEF w
<1> QED
  BY <1>2 DEF b

LEMMA AppendOps ==
    ASSUME NEW S, NEW list \in Seq(S), Once(list), NEW x \in S, x \notin Listed(list)
    PROVE  /\ Append(list, x) \in Seq(S) /\ Once(Append(list, x))
           /\ Listed(Append(list, x)) = Listed(list) \cup {x}
<1> DEFINE n == Len(list)
<1>0. n \in Nat /\ DOMAIN list = 1..n /\ \A i \in 1..n : list[i] # x
  BY LenProperties DEF Listed
<1> DEFINE w == Append(list, x)
<1>1. /\ w \in Seq(S) /\ Len(w) = n + 1 /\ \A i \in 1..n : w[i] = list[i]
      /\ w[n + 1] = x
  BY AppendProperties DEF n
<1> HIDE DEF w
<1>2. DOMAIN w = 1..n + 1
  BY <1>1, LenProperties
<1>3. \A i \in 1..n + 1 : i = n + 1 \/ i \in 1..n
  BY <1>0
<1>4. n + 1 \in 1..n + 1 /\ 1..n \subseteq 1..n + 1
  BY <1>0
<1>5. Once(w)
  BY <1>0, <1>1, <1>2, <1>3 DEF Once
<1>6. Listed(w) = Listed(list) \cup {x}
  <2>1. \A y \in Listed(w) : y \in Listed(list) \cup {x}
    BY <1>0, <1>1, <1>2, <1>3 DEF Listed
  <2>2. \A y \in Listed(list) \cup {x} : y \in Listed(w)
    BY <1>0, <1>1, <1>2, <1>4 DEF Listed
  <2> QED
    BY <2>1, <2>2
<1> QED
  BY <1>1, <1>5, <1>6 DEF w

-----------------------------------------------------------------------------
(* The call stack.                                                         *)

\* The first k frames are what they were; k is all of them, or all but the last.
Cut(k) ==
    /\ k \in Nat /\ k <= Len(stack) /\ Len(stack) <= k + 1 /\ k <= Len(stack')
    /\ stack' \in Seq(Frame) /\ Len(stack) \in Nat /\ Len(stack') \in Nat
    /\ DOMAIN stack = 1..Len(stack) /\ DOMAIN stack' = 1..Len(stack')
    /\ \A i \in 1..k : stack'[i] = stack[i]

LEMMA Topmost ==
    ASSUME Kept, stack # <<>>
    PROVE  /\ Len(stack) \in Nat /\ Len(stack) >= 1 /\ DOMAIN stack = 1..Len(stack)
           /\ Top = stack[Len(stack)] /\ Top \in Frame /\ Len(stack) \in DOMAIN stack
<1>1. stack \in Seq(Frame)
  BY DEF Kept
<1>2. Len(stack) \in Nat \ {0} /\ DOMAIN stack = 1..Len(stack) /\ Top = stack[Len(stack)] /\ Top \in Frame
  BY <1>1, AllButLast DEF Top
<1> QED
  BY <1>2

LEMMA Returned ==
    ASSUME Kept, stack # <<>>, Return
    PROVE  Cut(Len(stack) - 1) /\ Len(stack') = Len(stack) - 1
<1>1. stack \in Seq(Frame) /\ stack' = Front(stack)
  BY DEF Kept, Return
<1>2. /\ Front(stack) \in Seq(Frame) /\ Len(Front(stack)) = Len(stack) - 1 /\ Len(stack) \in Nat \ {0}
      /\ DOMAIN stack = 1..Len(stack) /\ DOMAIN Front(stack) = 1..(Len(stack) - 1)
      /\ \A i \in 1..(Len(stack) - 1) : Front(stack)[i] = stack[i]
  BY <1>1, AllButLast
<1> DEFINE n == Len(stack)
<1> HIDE DEF n
<1>3. /\ stack' \in Seq(Frame) /\ Len(stack') = n - 1 /\ n \in Nat \ {0} /\ n = Len(stack)
      /\ DOMAIN stack = 1..n /\ DOMAIN stack' = 1..n - 1 /\ \A i \in 1..n - 1 : stack'[i] = stack[i]
  BY <1>1, <1>2 DEF n
<1>4. n - 1 \in Nat /\ n - 1 <= n /\ n <= (n - 1) + 1
  BY <1>3
<1> QED
  BY <1>3, <1>4 DEF Cut

\* The frame in the place of the top.
LEMMA OverOps ==
    ASSUME Kept, stack # <<>>, NEW f \in Frame
    PROVE  /\ Over(f) \in Seq(Frame) /\ Len(Over(f)) = Len(stack) /\ Len(stack) \in Nat /\ Len(stack) >= 1
           /\ DOMAIN stack = 1..Len(stack) /\ DOMAIN Over(f) = 1..Len(stack)
           /\ \A i \in 1..Len(stack) : i # Len(stack) => Over(f)[i] = stack[i]
           /\ Over(f)[Len(stack)] = f
<1> DEFINE n == Len(stack)
           g == Front(stack)
<1>1. stack \in Seq(Frame)
  BY DEF Kept
<1>2. /\ g \in Seq(Frame) /\ Len(g) = n - 1 /\ n \in Nat \ {0} /\ DOMAIN stack = 1..n
      /\ \A i \in 1..(n - 1) : g[i] = stack[i]
  BY <1>1, AllButLast
<1>3. Over(f) = g \o <<f>>
  BY DEF Over
<1> HIDE DEF n, g
<1>4. /\ g \o <<f>> \in Seq(Frame) /\ Len(g \o <<f>>) = n - 1 + 1
      /\ DOMAIN (g \o <<f>>) = 1..(n - 1 + 1)
      /\ \A i \in 1..(n - 1) : (g \o <<f>>)[i] = g[i]
      /\ (g \o <<f>>)[n - 1 + 1] = f
  BY <1>2, OneMore
<1>5. n - 1 + 1 = n /\ \A i \in 1..n : i # n => i \in 1..(n - 1)
  BY <1>2
<1> QED
  BY <1>2, <1>3, <1>4, <1>5 DEF n

LEMMA Went ==
    ASSUME Kept, stack # <<>>, NEW f \in Frame, Goto(f)
    PROVE  /\ Cut(Len(stack) - 1) /\ Len(stack') = Len(stack) /\ stack'[Len(stack)] = f
<1> DEFINE n == Len(stack)
<1>1. /\ stack' \in Seq(Frame) /\ Len(stack') = n /\ n \in Nat /\ n >= 1 /\ DOMAIN stack = 1..n
      /\ DOMAIN stack' = 1..n /\ stack'[n] = f /\ \A i \in 1..n : i # n => stack'[i] = stack[i]
  BY OverOps DEF Goto
<1>2. n = Len(stack)
  OBVIOUS
<1> HIDE DEF n
<1>3. n - 1 \in Nat /\ n - 1 <= n /\ n <= (n - 1) + 1 /\ \A i \in 1..n - 1 : i \in 1..n /\ i # n
  BY <1>1
<1> QED
  BY <1>1, <1>2, <1>3 DEF Cut

LEMMA WentCalling ==
    ASSUME Kept, stack # <<>>, NEW f \in Frame, NEW a \in Frame, stack' = Over(f) \o <<a>>
    PROVE  /\ Cut(Len(stack) - 1) /\ Len(stack') = Len(stack) + 1
           /\ stack'[Len(stack)] = f /\ stack'[Len(stack) + 1] = a
<1> DEFINE n == Len(stack)
           g == Over(f)
<1>1. /\ g \in Seq(Frame) /\ Len(g) = n /\ n \in Nat /\ n >= 1 /\ DOMAIN stack = 1..n
      /\ g[n] = f /\ \A i \in 1..n : i # n => g[i] = stack[i]
  BY OverOps
<1>2. n = Len(stack) /\ stack' = g \o <<a>>
  OBVIOUS
<1> HIDE DEF n, g
<1>3. /\ stack' \in Seq(Frame) /\ Len(stack') = n + 1 /\ DOMAIN stack' = 1..(n + 1)
      /\ \A i \in 1..n : stack'[i] = g[i]
      /\ stack'[n + 1] = a
  <2> DEFINE t == g \o <<a>>
  <2>1. /\ t \in Seq(Frame) /\ Len(t) = Len(g) + 1 /\ DOMAIN t = 1..(Len(g) + 1)
        /\ \A i \in 1..Len(g) : t[i] = g[i]
        /\ t[Len(g) + 1] = a
    BY <1>1, OneMore
  <2>2. stack' = t
    BY <1>2
  <2> HIDE DEF t
  <2> QED
    BY <1>1, <2>1, <2>2
<1>4. n - 1 \in Nat /\ n - 1 <= n /\ n <= (n - 1) + 1 /\ n - 1 <= n + 1 /\ n \in 1..n
      /\ \A i \in 1..n - 1 : i \in 1..n /\ i # n
  BY <1>1
<1> QED
  BY <1>1, <1>2, <1>3, <1>4, SMTT(30) DEF Cut

LEMMA WentCallingTwo ==
    ASSUME Kept, stack # <<>>, NEW f \in Frame, NEW a \in Frame, NEW b \in Frame,
           stack' = Over(f) \o <<a, b>>
    PROVE  /\ Cut(Len(stack) - 1) /\ Len(stack') = Len(stack) + 2
           /\ stack'[Len(stack)] = f /\ stack'[Len(stack) + 1] = a /\ stack'[Len(stack) + 2] = b
<1> DEFINE n == Len(stack)
           g == Over(f)
<1>1. /\ g \in Seq(Frame) /\ Len(g) = n /\ n \in Nat /\ n >= 1 /\ DOMAIN stack = 1..n
      /\ g[n] = f /\ \A i \in 1..n : i # n => g[i] = stack[i]
  BY OverOps
<1>2. n = Len(stack) /\ stack' = g \o <<a, b>>
  OBVIOUS
<1> HIDE DEF n, g
<1>3. /\ stack' \in Seq(Frame) /\ Len(stack') = n + 2 /\ DOMAIN stack' = 1..(n + 2)
      /\ \A i \in 1..n : stack'[i] = g[i]
      /\ stack'[n + 1] = a /\ stack'[n + 2] = b
  <2> DEFINE t == g \o <<a, b>>
  <2>1. /\ t \in Seq(Frame) /\ Len(t) = Len(g) + 2 /\ DOMAIN t = 1..(Len(g) + 2)
        /\ \A i \in 1..Len(g) : t[i] = g[i]
        /\ t[Len(g) + 1] = a /\ t[Len(g) + 2] = b
    BY <1>1, TwoMore
  <2>2. stack' = t
    BY <1>2
  <2> HIDE DEF t
  <2> QED
    BY <1>1, <2>1, <2>2
<1>4. n - 1 \in Nat /\ n - 1 <= n /\ n <= (n - 1) + 1 /\ n - 1 <= n + 2 /\ n + 2 \in Nat
  BY <1>1
<1>5. \A i \in 1..n - 1 : stack'[i] = stack[i]
  <2> TAKE i \in 1..n - 1
  <2>1. i \in 1..n /\ i # n
    BY <1>1
  <2> QED
    BY <1>1, <1>3, <2>1
<1>6. Cut(n - 1)
  BY <1>1, <1>2, <1>3, <1>4, <1>5 DEF Cut
<1>7. stack'[n] = f
  <2>1. n \in 1..n
    BY <1>1
  <2> QED
    BY <1>1, <1>3, <2>1
<1> QED
  BY <1>2, <1>3, <1>6, <1>7

LEMMA Called ==
    ASSUME Kept, NEW a \in Frame, Call(<<a>>)
    PROVE  Cut(Len(stack)) /\ Len(stack') = Len(stack) + 1 /\ stack'[Len(stack) + 1] = a
<1> DEFINE n == Len(stack)
<1>1. stack \in Seq(Frame) /\ stack' = stack \o <<a>>
  BY DEF Kept, Call
<1>2. /\ stack' \in Seq(Frame) /\ Len(stack') = n + 1 /\ DOMAIN stack' = 1..(n + 1) /\ n \in Nat
      /\ DOMAIN stack = 1..n /\ stack'[n + 1] = a /\ \A i \in 1..n : stack'[i] = stack[i]
  BY <1>1, OneMore
<1>3. n = Len(stack)
  OBVIOUS
<1> HIDE DEF n
<1>4. n <= n /\ n <= n + 1
  BY <1>2
<1> QED
  BY <1>2, <1>3, <1>4 DEF Cut

LEMMA CalledTwo ==
    ASSUME Kept, NEW a \in Frame, NEW b \in Frame, Call(<<a, b>>)
    PROVE  /\ Cut(Len(stack)) /\ Len(stack') = Len(stack) + 2
           /\ stack'[Len(stack) + 1] = a /\ stack'[Len(stack) + 2] = b
<1> DEFINE n == Len(stack)
<1>1. stack \in Seq(Frame) /\ stack' = stack \o <<a, b>>
  BY DEF Kept, Call
<1>2. /\ stack' \in Seq(Frame) /\ Len(stack') = n + 2 /\ DOMAIN stack' = 1..(n + 2) /\ n \in Nat
      /\ DOMAIN stack = 1..n /\ stack'[n + 1] = a /\ stack'[n + 2] = b
      /\ \A i \in 1..n : stack'[i] = stack[i]
  BY <1>1, TwoMore
<1>3. n = Len(stack)
  OBVIOUS
<1> HIDE DEF n
<1>4. n <= n + 1 /\ n <= n + 2
  BY <1>2
<1> QED
  BY <1>2, <1>3, <1>4 DEF Cut

LEMMA Stayed ==
    ASSUME Kept, UNCHANGED stack
    PROVE  Cut(Len(stack)) /\ Len(stack') = Len(stack)
<1>1. stack \in Seq(Frame) /\ stack' = stack
  BY DEF Kept
<1>2. Len(stack) \in Nat /\ DOMAIN stack = 1..Len(stack)
  BY <1>1, LenProperties
<1> QED
  BY <1>1, <1>2 DEF Cut

\* What a frame holds, by what it is.
LEMMA Kinds ==
    ASSUME NEW f \in Frame
    PROVE  /\ f.fn = "js" => f \in JsFrame
           /\ f.fn = "dispatch" => f \in DispatchFrames
           /\ f.fn = "server_remove" => f \in RemoveFrame
           /\ f.fn = "server_clear" => f \in ClearFrame
           /\ f.fn = "plugin_remove" => f \in UnloadFrame
           /\ f.fn \in {"plugin_clear", "reload"} => f \in WalkFrame
           /\ f.fn = "plugin_add" => f \in AddFrame
           /\ f.fn = "finish" => f \in FinishFrame
<1>1. \/ f \in JsFrame /\ f.fn = "js"
      \/ f \in DispatchFrames /\ f.fn = "dispatch"
      \/ f \in RemoveFrame /\ f.fn = "server_remove"
      \/ f \in ClearFrame /\ f.fn = "server_clear"
      \/ f \in UnloadFrame /\ f.fn = "plugin_remove"
      \/ f \in WalkFrame /\ f.fn \in {"plugin_clear", "reload"}
      \/ f \in AddFrame /\ f.fn = "plugin_add"
      \/ f \in FinishFrame /\ f.fn = "finish"
  BY DEF Frame, JsFrame, DispatchFrames, RemoveFrame, ClearFrame, UnloadFrame, WalkFrame, AddFrame, FinishFrame
<1> QED
  BY <1>1

-----------------------------------------------------------------------------
(* Steps that leave the plugins alone.                                     *)

\* A server in the middle of its removal stays so, as seen from one frame.
Going(s) == s \in twice \/ (s \in Listed(servers) /\ s \notin conn)
GoingOn(k) ==
    \A i \in 1..k : \A s : stack[i].fn = "server_remove" /\ stack[i].s = s =>
        (Going(s) => Going(s)') /\ (s \in twice => s \in twice')

\* The new frame i is as it has to be, by itself and beside the others.
Fits(i) ==
    /\ Lasts(i, stack[i])'
    /\ \A j \in DOMAIN stack' : j # i => Pair(stack[i], stack[j])' /\ Pair(stack[j], stack[i])'
    /\ stack'[i].fn = "dispatch" => Offers(stack[i])'

LEMMA Spliced ==
    ASSUME BotInv, Kept', UNCHANGED plugVars, fault' = "none" => fault = "none", NEW k, Cut(k), GoingOn(k),
           k + 1 \in DOMAIN stack => /\ stack[k + 1].fn # "plugin_remove"
                                     /\ stack[k + 1].fn = "plugin_clear" =>
                                          \/ plugins = <<>>
                                          \/ k + 1 \in DOMAIN stack' /\ stack'[k + 1].fn = "plugin_clear",
           \A i \in DOMAIN stack' : i > k => Fits(i)
    PROVE  BotInv'
<1>1. /\ Kept /\ LoadedListed /\ UnloadingNow
      /\ \A i \in DOMAIN stack : Lasts(i, stack[i])
      /\ \A i, j \in DOMAIN stack : i # j => Pair(stack[i], stack[j])
      /\ \A i \in DOMAIN stack : stack[i].fn = "dispatch" => Offers(stack[i])
  BY DEF BotInv
<1>2. /\ k \in Nat /\ DOMAIN stack = 1..Len(stack) /\ DOMAIN stack' = 1..Len(stack')
      /\ 1..k \subseteq DOMAIN stack /\ 1..k \subseteq DOMAIN stack'
      /\ \A i \in 1..k : stack'[i] = stack[i]
      /\ \A i \in DOMAIN stack' : i \in 1..k \/ i > k
      /\ \A i \in DOMAIN stack : i \in 1..k \/ i = k + 1
  BY DEF Cut
<1>3. plugins' = plugins /\ life' = life
  BY DEF plugVars
<1>4. LoadedListed'
  BY <1>1, <1>3 DEF LoadedListed
<1>5. UnloadingNow'
  <2> SUFFICES ASSUME fault' = "none", NEW p \in Plugs, life[p] = "unloading"
               PROVE  \E i \in DOMAIN stack' : stack'[i].fn = "plugin_remove" /\ stack'[i].p = p
    BY <1>3 DEF UnloadingNow
  <2>1. PICK i \in DOMAIN stack : stack[i].fn = "plugin_remove" /\ stack[i].p = p
    BY <1>1 DEF UnloadingNow
  <2>2. i \in 1..k
    BY <1>2, <2>1
  <2> QED
    BY <1>2, <2>1, <2>2
<1>6. ASSUME NEW i \in DOMAIN stack' PROVE Lasts(i, stack[i])'
  <2>1. CASE i > k
    BY <2>1 DEF Fits
  <2>2. CASE i \in 1..k
    <3>0. PICK f : f = stack[i]
      OBVIOUS
    <3>1. Lasts(i, f) /\ stack'[i] = f
      BY <1>1, <1>2, <2>2, <3>0
    <3>2. i = 2 => 1 \in 1..k
      BY <1>2, <2>2
    <3>3. Outermost(i, f)'
      BY <1>2, <3>1, <3>2 DEF Lasts, Outermost
    <3>4. f.fn = "server_remove" => Going(f.s)'
      <4>1. f.fn = "server_remove" => Going(f.s)
        BY <3>1 DEF Lasts, Going
      <4> QED
        BY <2>2, <3>0, <4>1 DEF GoingOn, Going
    <3>5. f.fn = "finish" /\ f.step = "end" /\ plugins # <<>> =>
              2 \in DOMAIN stack' /\ stack'[2].fn = "plugin_clear"
      <4> SUFFICES ASSUME f.fn = "finish", f.step = "end", plugins # <<>>
                   PROVE  2 \in DOMAIN stack' /\ stack'[2].fn = "plugin_clear"
        OBVIOUS
      <4>1. i = 1 /\ 2 \in DOMAIN stack /\ stack[2].fn = "plugin_clear"
        BY <3>1 DEF Lasts, Outermost
      <4>2. CASE 2 \in 1..k
        BY <1>2, <4>1, <4>2
      <4>3. CASE 2 = k + 1
        BY <4>1, <4>3
      <4> QED
        BY <1>2, <4>1, <4>2, <4>3
    <3>6. /\ f.fn = "plugin_remove" => life[f.p] = "unloading"
          /\ f.fn = "plugin_add" => life[f.p] = "open"
          /\ f.fn = "plugin_clear" =>
                /\ f.p = Nil => plugins = <<>>
                /\ f.p \in Listed(plugins) => plugins[1] = f.p
      BY <3>1 DEF Lasts
    <3>7. Lasts(i, f)'
      BY <1>3, <3>3, <3>4, <3>5, <3>6 DEF Lasts, Going
    <3> QED
      BY <3>1, <3>7
  <2> QED
    BY <1>2, <2>1, <2>2
<1>7. ASSUME NEW i \in DOMAIN stack', NEW j \in DOMAIN stack', i # j PROVE Pair(stack[i], stack[j])'
  <2>1. CASE i > k \/ j > k
    BY <1>7, <2>1 DEF Fits
  <2>2. CASE i \in 1..k /\ j \in 1..k
    <3>1. Pair(stack[i], stack[j]) /\ stack'[i] = stack[i] /\ stack'[j] = stack[j]
      BY <1>1, <1>2, <1>7, <2>2
    <3>2. stack[i].fn = "server_remove" /\ stack[i].s \in twice => stack[i].s \in twice'
      BY <2>2 DEF GoingOn
    <3> QED
      BY <3>1, <3>2 DEF Pair
  <2> QED
    BY <1>2, <2>1, <2>2
<1>8. ASSUME NEW i \in DOMAIN stack', stack'[i].fn = "dispatch" PROVE Offers(stack[i])'
  <2>1. CASE i > k
    BY <1>8, <2>1 DEF Fits
  <2>2. CASE i \in 1..k
    <3>0. PICK f : f = stack[i]
      OBVIOUS
    <3>1. Offers(f) /\ stack'[i] = f
      BY <1>1, <1>2, <1>8, <2>2, <3>0
    <3>2. Offers(f)'
      BY <1>3, <3>1 DEF Offers, Offered, is_command
    <3> QED
      BY <3>1, <3>2
  <2> QED
    BY <1>2, <2>1, <2>2
<1> QED
  BY <1>4, <1>5, <1>6, <1>7, <1>8 DEF BotInv

\* Frames that stand beside everything.
LEMMA Apart ==
    ASSUME NEW i \in DOMAIN stack', stack'[i].fn \notin {"plugin_remove", "server_remove"},
           Lasts(i, stack[i])', stack'[i].fn = "dispatch" => Offers(stack[i])'
    PROVE  Fits(i)
BY DEF Fits, Pair

\* A frame in which JavaScript runs says nothing of the lists.
LEMMA JsLasts ==
    ASSUME NEW i, NEW f, f.fn \in {"js", "reload", "dispatch"}
    PROVE  Lasts(i, f)'
BY DEF Lasts, Outermost

LEMMA LoopLasts ==
    ASSUME NEW i, NEW f, f.fn = "server_clear", i = 1 \/ (i = 2 /\ stack'[1].fn = "finish")
    PROVE  Lasts(i, f)'
BY DEF Lasts, Outermost

LEMMA Settled ==
    ASSUME UNCHANGED <<servers, twice>>, conn' \subseteq conn, NEW k
    PROVE  GoingOn(k)
BY DEF GoingOn, Going

LEMMA SamePlugs == PlugInv /\ UNCHANGED plugVars => PlugInv'
BY DEF PlugInv, plugVars, Once

LEMMA SameSrvs == SrvInv /\ UNCHANGED srvVars => SrvInv'
BY DEF SrvInv, srvVars, Once, Listed, ConnectedListed

LEMMA CrashStep ==
    ASSUME BotInv, NEW why \in {"freed", "null", "active coroutine"}, Crash(why)
    PROVE  BotInv'
<1>1. /\ stack' = <<>> /\ fault' = why /\ UNCHANGED <<plugVars, srvVars>> /\ Kept /\ LoadedListed
  BY DEF Crash, BotInv
<1>2. Kept'
  <2>1. stack' \in Seq(Frame)
    BY <1>1, Nothing
  <2>2. PlugInv' /\ SrvInv'
    BY <1>1, SamePlugs, SameSrvs DEF Kept
  <2>3. fault' \in {"none", "freed", "null", "active coroutine"}
    BY <1>1
  <2> QED
    BY <2>1, <2>2, <2>3 DEF Kept
<1>3. DOMAIN stack' = {}
  <2>1. DOMAIN <<>> = {}
    BY Nothing
  <2> QED
    BY <1>1, <2>1
<1>4. LoadedListed' /\ UnloadingNow'
  BY <1>1 DEF LoadedListed, UnloadingNow, plugVars
<1> QED
  BY <1>2, <1>3, <1>4 DEF BotInv

-----------------------------------------------------------------------------
(* irc_bot_dispatch.                                                       *)

LEMMA OffersSame ==
    ASSUME UNCHANGED plugins, NEW f, Offers(f)
    PROVE  Offers(f)'
BY DEF Offers, Offered, is_command

LEMMA IsJs ==
    ASSUME NEW p \in Plugs, NEW s \in Srvs \cup {Nil}
    PROVE  Js(p, s) \in JsFrame /\ Js(p, s) \in Frame /\ Js(p, s).fn = "js"
BY DEF Js, JsFrame, Frame

LEMMA FreshDispatch ==
    ASSUME Kept, NEW type \in {"message", "event"}, NEW s \in Srvs, NEW calls \in Calls \cup {{}}
    PROVE  /\ DispatchFrame(type, s, calls) \in DispatchFrames
           /\ DispatchFrame(type, s, calls) \in Frame
           /\ DispatchFrame(type, s, calls).fn = "dispatch"
           /\ DispatchFrame(type, s, calls).s = s
           /\ Offers(DispatchFrame(type, s, calls))
<1>1. plugins \in Seq(Plugs) /\ Once(plugins)
  BY DEF Kept, PlugInv
<1>2. /\ HeadOf(plugins) \in Plugs \cup {Nil} /\ Listed(plugins) \subseteq Plugs
      /\ HeadOf(plugins) = Nil => Listed(plugins) = {}
      /\ HeadOf(plugins) # Nil => HeadOf(plugins) = plugins[1] /\ 1 \in DOMAIN plugins
  <2>1. plugins # <<>> => plugins[1] \in Plugs
    BY <1>1, HeadListed
  <2> QED
    BY <1>1, <2>1, HeadListed, BotAssumption
<1>3. [p \in Plugs |-> 0] \in [Plugs -> 0..2]
  OBVIOUS
<1> DEFINE g == DispatchFrame(type, s, calls)
<1>4. /\ g \in DispatchFrames /\ g.fn = "dispatch" /\ g.s = s /\ g.step = "plugins" /\ g.cmd = Nil
      /\ g.p = HeadOf(plugins) /\ g.stayed = Listed(plugins) /\ g.seen = [p \in Plugs |-> 0]
  BY <1>2, <1>3 DEF DispatchFrame, DispatchFrames
<1> HIDE DEF g
<1>5. \A i, j \in DOMAIN plugins : plugins[j] = g.p => ~(i < j) /\ g.seen[plugins[i]] = 0 /\ plugins[i] # Nil
  <2> TAKE i, j \in DOMAIN plugins
  <2> HAVE plugins[j] = g.p
  <2>1. plugins[i] \in Plugs /\ plugins[j] \in Plugs /\ plugins[j] # Nil /\ plugins[i] # Nil
    BY <1>1, BotAssumption
  <2>2. j = 1
    BY <1>1, <1>2, <1>4, <2>1 DEF Once
  <2>3. DOMAIN plugins = 1..Len(plugins) /\ Len(plugins) \in Nat
    BY <1>1, LenProperties
  <2>4. ~(i < 1)
    BY <2>3
  <2> QED
    BY <1>4, <2>1, <2>2, <2>4
<1>6. Offers(g)
  BY <1>2, <1>4, <1>5 DEF Offers
<1> QED
  BY <1>4, <1>6 DEF g, Frame

\* The next plugin is asked, unless its command it is.
LEMMA OfferNext ==
    ASSUME Kept, NEW f \in DispatchFrames, Offers(f), f.step = "plugins", f.p \in Listed(plugins),
           NEW g, \/ /\ ~is_command(f.p, f)
                     /\ g = [f EXCEPT !.p = Successor(plugins, f.p), !.seen = Seen(f, f.p)]
                  \/ /\ is_command(f.p, f)
                     /\ g = [f EXCEPT !.p = Successor(plugins, f.p), !.cmd = f.p]
    PROVE  Offers(g) /\ g \in DispatchFrames
<1>1. plugins \in Seq(Plugs) /\ Once(plugins)
  BY DEF Kept, PlugInv
<1>2. PICK k \in DOMAIN plugins : plugins[k] = f.p
  BY DEF Listed
<1>3. /\ Len(plugins) \in Nat /\ DOMAIN plugins = 1..Len(plugins)
      /\ \A i \in DOMAIN plugins : plugins[i] \in Plugs /\ plugins[i] # Nil
      /\ f.p \in Plugs
  BY <1>1, <1>2, LenProperties, BotAssumption
<1> DEFINE next == Successor(plugins, f.p)
<1>4. /\ k < Len(plugins) => next = plugins[k + 1] /\ k + 1 \in DOMAIN plugins
      /\ k = Len(plugins) => next = Nil
  BY <1>1, <1>2, SuccessorOps
<1>5. next \in Plugs \cup {Nil}
  BY <1>3, <1>4
<1> HIDE DEF next
<1>6. /\ f.stayed = Listed(plugins) /\ (f.cmd # Nil => is_command(f.cmd, f))
      /\ \A q \in Plugs : f.seen[q] <= 1 /\ (q = f.cmd => f.seen[q] = 0)
      /\ \A i \in DOMAIN plugins :
            /\ i < k => Offered(plugins[i], f)
            /\ i >= k => f.seen[plugins[i]] = 0 /\ plugins[i] # f.cmd
  BY <1>2 DEF Offers
<1>7. f.seen \in [Plugs -> 0..2] /\ f.cmd \in Plugs \cup {Nil} /\ f.fn = "dispatch"
  BY DEF DispatchFrames
<1>8. f.seen[f.p] = 0 /\ f.p # f.cmd
  BY <1>2, <1>3, <1>6
<1>9. Seen(f, f.p) \in [Plugs -> 0..2] /\ Seen(f, f.p)[f.p] = 1
      /\ \A q \in Plugs : q # f.p => Seen(f, f.p)[q] = f.seen[q]
  BY <1>3, <1>7, <1>8 DEF Seen
<1>10. /\ g \in DispatchFrames /\ g.p = next /\ g.stayed = f.stayed /\ g.step = "plugins"
       /\ g.type = f.type /\ g.calls = f.calls
       /\ \/ ~is_command(f.p, f) /\ g.cmd = f.cmd /\ g.seen = Seen(f, f.p)
          \/ is_command(f.p, f) /\ g.cmd = f.p /\ g.seen = f.seen
  BY <1>3, <1>5, <1>9 DEF DispatchFrames, next
<1>11. \A q : is_command(q, g) <=> is_command(q, f)
  BY <1>10 DEF is_command
<1>12. g.cmd # Nil => is_command(g.cmd, g)
  BY <1>6, <1>10, <1>11
<1>13. \A q \in Plugs : g.seen[q] <= 1 /\ (q = g.cmd => g.seen[q] = 0)
  BY <1>6, <1>8, <1>9, <1>10
<1>14. \A i \in DOMAIN plugins : i <= k => Offered(plugins[i], g)
  <2> SUFFICES ASSUME NEW i \in DOMAIN plugins, i <= k
               PROVE  Offered(plugins[i], g)
    OBVIOUS
  <2>1. CASE i = k
    BY <1>2, <1>8, <1>9, <1>10, <2>1 DEF Offered
  <2>2. CASE i # k
    <3>1. i < k /\ plugins[i] # f.p /\ plugins[i] \in Plugs
      BY <1>1, <1>2, <1>3, <2>2 DEF Once
    <3>2. Offered(plugins[i], f)
      BY <1>6, <3>1
    <3>3. g.seen[plugins[i]] = f.seen[plugins[i]]
      BY <1>9, <1>10, <3>1
    <3>4. CASE ~is_command(f.p, f)
      BY <1>10, <1>11, <3>2, <3>3, <3>4 DEF Offered
    <3>5. CASE is_command(f.p, f)
      <4>1. g.cmd = f.p /\ g.cmd # Nil /\ is_command(g.cmd, g)
        BY <1>2, <1>3, <1>10, <1>12, <3>5
      <4>2. CASE f.seen[plugins[i]] = 1
        BY <3>1, <3>3, <4>1, <4>2 DEF Offered
      <4>3. CASE f.seen[plugins[i]] # 1
        <5>1. f.seen[plugins[i]] = 0 /\ is_command(plugins[i], f)
          BY <1>3, <1>6, <3>2, <4>3 DEF Offered
        <5> QED
          BY <1>11, <3>3, <4>1, <5>1 DEF Offered
      <4> QED
        BY <4>2, <4>3
    <3> QED
      BY <3>4, <3>5
  <2> QED
    BY <2>1, <2>2
<1>15. \A i \in DOMAIN plugins : i > k => g.seen[plugins[i]] = 0 /\ plugins[i] # g.cmd
  <2> SUFFICES ASSUME NEW i \in DOMAIN plugins, i > k
               PROVE  g.seen[plugins[i]] = 0 /\ plugins[i] # g.cmd
    OBVIOUS
  <2>1. plugins[i] # f.p /\ plugins[i] \in Plugs
    BY <1>1, <1>2, <1>3 DEF Once
  <2>2. f.seen[plugins[i]] = 0 /\ plugins[i] # f.cmd
    BY <1>3, <1>6
  <2> QED
    BY <1>9, <1>10, <2>1, <2>2
<1>16. g.p = Nil => \A q \in g.stayed : Offered(q, g)
  <2> SUFFICES ASSUME g.p = Nil, NEW q \in Listed(plugins)
               PROVE  Offered(q, g)
    BY <1>6, <1>10
  <2>1. k = Len(plugins)
    BY <1>3, <1>4, <1>10
  <2>2. PICK i \in DOMAIN plugins : plugins[i] = q
    BY DEF Listed
  <2>3. i <= k
    BY <1>3, <2>1
  <2> QED
    BY <1>14, <2>2, <2>3
<1>17. \A i, j \in DOMAIN plugins : plugins[j] = g.p =>
          /\ i < j => Offered(plugins[i], g)
          /\ i >= j => g.seen[plugins[i]] = 0 /\ plugins[i] # g.cmd
  <2> TAKE i, j \in DOMAIN plugins
  <2> HAVE plugins[j] = g.p
  <2>1. k < Len(plugins) /\ g.p = plugins[k + 1] /\ k + 1 \in DOMAIN plugins
    BY <1>3, <1>4, <1>10
  <2>2. j = k + 1
    BY <1>1, <2>1 DEF Once
  <2>3. (i < j => i <= k) /\ (i >= j => i > k)
    BY <1>3, <2>2
  <2> QED
    BY <1>14, <1>15, <2>3
<1> QED
  BY <1>6, <1>10, <1>12, <1>13, <1>16, <1>17 DEF Offers

\* After the last plugin the command is left, and after it the observer.
LEMMA OfferCommand ==
    ASSUME NEW f \in DispatchFrames, Offers(f), f.step = "plugins", f.p = Nil
    PROVE  /\ Offers([f EXCEPT !.step = "command"])
           /\ [f EXCEPT !.step = "command"] \in DispatchFrames
<1>1. PICK g : g = [f EXCEPT !.step = "command"]
  OBVIOUS
<1>2. /\ g \in DispatchFrames /\ g.p = f.p /\ g.stayed = f.stayed /\ g.step = "command"
      /\ g.type = f.type /\ g.calls = f.calls /\ g.cmd = f.cmd /\ g.seen = f.seen
  BY <1>1 DEF DispatchFrames
<1>3. Offers(g)
  BY <1>2 DEF Offers, Offered, is_command
<1> QED
  BY <1>1, <1>2, <1>3

LEMMA OfferObserve ==
    ASSUME NEW f \in DispatchFrames, Offers(f), f.step = "command", f.stayed \subseteq Plugs,
           NEW g, \/ f.cmd = Nil /\ g = [f EXCEPT !.step = "observe"]
                  \/ f.cmd # Nil /\ g = [f EXCEPT !.step = "observe", !.seen = Seen(f, f.cmd)]
    PROVE  Offers(g) /\ g \in DispatchFrames
<1>1. f.seen \in [Plugs -> 0..2] /\ f.cmd \in Plugs \cup {Nil}
  BY DEF DispatchFrames
<1>2. /\ f.stayed = Listed(plugins) /\ (f.cmd # Nil => is_command(f.cmd, f))
      /\ \A q \in Plugs : f.seen[q] <= 1 /\ (q = f.cmd => f.seen[q] = 0)
      /\ \A q \in f.stayed : Offered(q, f)
  BY DEF Offers
<1>3. f.cmd # Nil => /\ Seen(f, f.cmd) \in [Plugs -> 0..2] /\ Seen(f, f.cmd)[f.cmd] = 1
                     /\ \A q \in Plugs : q # f.cmd => Seen(f, f.cmd)[q] = f.seen[q]
  BY <1>1, <1>2 DEF Seen
<1>4. /\ g \in DispatchFrames /\ g.stayed = f.stayed /\ g.step = "observe"
      /\ g.type = f.type /\ g.calls = f.calls /\ g.cmd = f.cmd
      /\ \/ f.cmd = Nil /\ g.seen = f.seen
         \/ f.cmd # Nil /\ g.seen = Seen(f, f.cmd)
  BY <1>3 DEF DispatchFrames
<1>5. \A q : is_command(q, g) <=> is_command(q, f)
  BY <1>4 DEF is_command
<1>6. \A q \in Plugs : g.seen[q] <= 1
  BY <1>1, <1>2, <1>3, <1>4
<1>7. \A q \in g.stayed : g.seen[q] = 1 \/ (g.seen[q] = 0 /\ is_command(q, g) /\ g.cmd # Nil)
  <2> SUFFICES ASSUME NEW q \in f.stayed
               PROVE  g.seen[q] = 1 \/ (g.seen[q] = 0 /\ is_command(q, g) /\ g.cmd # Nil)
    BY <1>4
  <2>1. q \in Plugs /\ Offered(q, f)
    BY <1>2
  <2>2. CASE q = f.cmd
    <3>1. f.cmd # Nil
      BY <2>1, <2>2, BotAssumption
    <3> QED
      BY <1>3, <1>4, <2>2, <3>1
  <2>3. CASE q # f.cmd
    <3>1. g.seen[q] = f.seen[q]
      BY <1>3, <1>4, <2>1, <2>3
    <3> QED
      BY <1>4, <1>5, <2>1, <2>3, <3>1 DEF Offered
  <2> QED
    BY <2>2, <2>3
<1> QED
  BY <1>2, <1>4, <1>5, <1>6, <1>7 DEF Offers

\* A dispatch goes on, and may call a plugin.
LEMMA DispatchSkips ==
    ASSUME BotInv, Running("dispatch"), NEW g \in DispatchFrames, Offers(g), g.s = Top.s, Skip(g)
    PROVE  BotInv'
<1>0. /\ Kept /\ stack # <<>> /\ fault = "none" /\ Top.fn = "dispatch"
      /\ g \in Frame /\ g.fn = "dispatch" /\ g.s \in Srvs
  BY DEF BotInv, Running, Frame, DispatchFrames
<1>1. /\ Len(stack) \in Nat /\ Len(stack) >= 1 /\ DOMAIN stack = 1..Len(stack)
      /\ stack[Len(stack)].fn = "dispatch"
  BY <1>0, Topmost
<1> DEFINE k == Len(stack) - 1
<1>2. k \in Nat /\ k + 1 = Len(stack) /\ k + 1 \in DOMAIN stack
  BY <1>1
<1>3. UNCHANGED <<fault, plugVars>> /\ UNCHANGED <<servers, link, conn, alive, handles, dropped, twice>>
  BY DEF Skip, srvVars
<1>4. GoingOn(k)
  BY <1>3, Settled
<1>5. UNCHANGED plugins /\ Offers(g)'
  BY <1>3, OffersSame DEF plugVars
<1>11. Cut(k) /\ Len(stack') = k + 1 /\ stack'[k + 1] = g
  BY <1>0, <1>2, Went DEF Skip
<1> HIDE DEF k
<1>12. Kept'
  BY <1>0, <1>3, <1>11, SamePlugs, SameSrvs DEF Kept, Skip, Cut
<1>13. ASSUME NEW i \in DOMAIN stack', i > k PROVE Fits(i)
  <2>1. i = k + 1 /\ stack'[i] = g
    BY <1>2, <1>11, <1>13 DEF Cut
  <2>2. Lasts(i, stack[i])' /\ Offers(stack[i])'
    BY <1>0, <1>5, <2>1, JsLasts
  <2> QED
    BY <1>0, <2>1, <2>2, Apart
<1> QED
  BY <1>0, <1>1, <1>2, <1>3, <1>4, <1>11, <1>12, <1>13, Spliced

LEMMA DispatchHandles ==
    ASSUME BotInv, Running("dispatch"), NEW g \in DispatchFrames, Offers(g), NEW p \in Plugs,
           g.s = Top.s, Handle(p, g)
    PROVE  BotInv'
<1>0. /\ Kept /\ stack # <<>> /\ fault = "none" /\ Top.fn = "dispatch"
      /\ g \in Frame /\ g.fn = "dispatch" /\ g.s \in Srvs
  BY DEF BotInv, Running, Frame, DispatchFrames
<1>1. /\ Len(stack) \in Nat /\ Len(stack) >= 1 /\ DOMAIN stack = 1..Len(stack)
      /\ stack[Len(stack)].fn = "dispatch"
  BY <1>0, Topmost
<1> DEFINE k == Len(stack) - 1
<1>2. k \in Nat /\ k + 1 = Len(stack) /\ k + 1 \in DOMAIN stack
  BY <1>1
<1>3. UNCHANGED <<fault, plugVars>> /\ UNCHANGED <<servers, link, conn, alive, handles, dropped, twice>>
  BY DEF Handle
<1>4. GoingOn(k)
  BY <1>3, Settled
<1>5. UNCHANGED plugins /\ Offers(g)'
  BY <1>3, OffersSame DEF plugVars
<1>10. Js(p, g.s) \in Frame /\ Js(p, g.s).fn = "js"
  BY <1>0, IsJs
<1>11. Cut(k) /\ Len(stack') = k + 2 /\ stack'[k + 1] = g /\ stack'[k + 2] = Js(p, g.s)
  BY <1>0, <1>2, <1>10, WentCalling DEF Handle
<1> HIDE DEF k
<1>12. Kept'
  <2>1. refc' \in [Srvs -> Nat]
    BY <1>0 DEF Handle, Incref, Kept, SrvInv
  <2>2. SrvInv'
    BY <1>0, <1>3, <2>1 DEF Kept, SrvInv, Once, Listed, ConnectedListed
  <2> QED
    BY <1>0, <1>3, <1>11, <2>2, SamePlugs DEF Kept, Cut
<1>13. ASSUME NEW i \in DOMAIN stack', i > k PROVE Fits(i)
  <2>1. (i = k + 1 /\ stack'[i] = g) \/ (i = k + 2 /\ stack'[i] = Js(p, g.s))
    BY <1>2, <1>11, <1>13 DEF Cut
  <2>2. Lasts(i, stack[i])'
    BY <1>0, <1>10, <2>1, JsLasts
  <2>3. stack'[i].fn = "dispatch" => Offers(stack[i])'
    BY <1>5, <1>10, <2>1
  <2> QED
    BY <1>0, <1>10, <2>1, <2>2, <2>3, Apart
<1> QED
  BY <1>0, <1>1, <1>2, <1>3, <1>4, <1>11, <1>12, <1>13, Spliced

LEMMA DispatchGoes ==
    ASSUME BotInv, Running("dispatch"), NEW g \in DispatchFrames, Offers(g), NEW p \in Plugs,
           g.s = Top.s, Skip(g) \/ Handle(p, g)
    PROVE  BotInv'
BY DispatchSkips, DispatchHandles

\* A call returns that leaves nothing to be done for a plugin.
LEMMA PopStep ==
    ASSUME BotInv, stack # <<>>, fault = "none", Return, UNCHANGED <<fault, plugVars>>,
           Top.fn # "plugin_remove", Top.fn = "plugin_clear" => plugins = <<>>,
           SrvInv', GoingOn(Len(stack) - 1)
    PROVE  BotInv'
<1>0. Kept
  BY DEF BotInv
<1>1. /\ Len(stack) \in Nat /\ Len(stack) >= 1 /\ DOMAIN stack = 1..Len(stack)
      /\ stack[Len(stack)] = Top
  BY <1>0, Topmost
<1> DEFINE k == Len(stack) - 1
<1>2. k \in Nat /\ k + 1 = Len(stack) /\ k + 1 \in DOMAIN stack
  BY <1>1
<1>3. Cut(k) /\ Len(stack') = k
  BY <1>0, Returned
<1>4. GoingOn(k)
  OBVIOUS
<1> HIDE DEF k
<1>5. Kept'
  BY <1>0, <1>3, SamePlugs DEF Kept, Cut
<1>6. \A i \in DOMAIN stack' : ~(i > k)
  BY <1>2, <1>3 DEF Cut
<1> QED
  BY <1>1, <1>2, <1>3, <1>4, <1>5, <1>6, Spliced

\* JavaScript is called, by what waits until it returns or by nothing.
LEMMA JsStep ==
    ASSUME BotInv, fault = "none", NEW p \in Plugs, Call(<<Js(p, Nil)>>), UNCHANGED <<fault, plugVars, srvVars>>
    PROVE  BotInv'
<1>0. Kept /\ Js(p, Nil) \in Frame /\ Js(p, Nil).fn = "js"
  BY IsJs DEF BotInv
<1> DEFINE k == Len(stack)
<1>1. Cut(k) /\ Len(stack') = k + 1 /\ stack'[k + 1] = Js(p, Nil)
  BY <1>0, Called
<1> HIDE DEF k
<1>2. Kept'
  BY <1>0, <1>1, SamePlugs, SameSrvs DEF Kept, Cut
<1>3. GoingOn(k)
  BY Settled DEF srvVars
<1>4. ASSUME NEW i \in DOMAIN stack', i > k PROVE Fits(i)
  <2>1. i = k + 1 /\ stack'[i] = Js(p, Nil)
    BY <1>1, <1>4 DEF Cut
  <2>2. Lasts(i, stack[i])'
    BY <1>0, <2>1, JsLasts
  <2> QED
    BY <1>0, <2>1, <2>2, Apart
<1>5. ~(k + 1 \in DOMAIN stack)
  <2>1. DOMAIN stack = 1..k /\ k \in Nat
    BY <1>1, <1>0, LenProperties DEF Cut, k, Kept
  <2> QED
    BY <2>1
<1> QED
  BY <1>1, <1>2, <1>3, <1>4, <1>5, Spliced

LEMMA ConsumerStep ==
    ASSUME BotInv, NEW s \in Srvs, NEW ev \in Messages \cup OtherEvents, irc_server_consumer_entry(s, ev)
    PROVE  BotInv'
<1>0. Kept /\ fault = "none" /\ stack = <<>> /\ UNCHANGED <<fault, plugVars, srvVars>>
  BY DEF BotInv, irc_server_consumer_entry, Idle
<1>1. ev[1] \in {"message", "event"} /\ ev[2] \in Calls \cup {{}}
  BY DEF Messages, OtherEvents
<1>2. PICK g : g = DispatchFrame(ev[1], s, ev[2])
  OBVIOUS
<1>3. g \in Frame /\ g.fn = "dispatch" /\ Offers(g)
  BY <1>0, <1>1, <1>2, FreshDispatch
<1> DEFINE k == Len(stack)
<1>4. Cut(k) /\ Len(stack') = k + 1 /\ stack'[k + 1] = g
  <2>1. Call(<<g>>)
    BY <1>2 DEF irc_server_consumer_entry
  <2> QED
    BY <1>0, <1>3, <2>1, Called
<1> HIDE DEF k
<1>5. Kept'
  BY <1>0, <1>4, SamePlugs, SameSrvs DEF Kept, Cut
<1>6. GoingOn(k)
  BY <1>0, Settled DEF srvVars
<1>7. ASSUME NEW i \in DOMAIN stack', i > k PROVE Fits(i)
  <2>1. i = k + 1 /\ stack'[i] = g
    BY <1>4, <1>7 DEF Cut
  <2>2. Offers(g)'
    BY <1>0, <1>3, OffersSame DEF plugVars
  <2>3. Lasts(i, stack[i])' /\ Offers(stack[i])'
    BY <1>3, <2>1, <2>2, JsLasts
  <2> QED
    BY <1>3, <2>1, <2>3, Apart
<1>8. ~(k + 1 \in DOMAIN stack)
  <2>1. DOMAIN stack = {}
    BY <1>0, Nothing
  <2> QED
    BY <2>1
<1> QED
  BY <1>0, <1>4, <1>5, <1>6, <1>7, <1>8, Spliced

\* The dispatch goes on, and perhaps calls a plugin that is in the list.
DispatchMoves ==
    \/ Crash("freed")
    \/ Return /\ UNCHANGED <<fault, plugVars, srvVars>>
    \/ \E g \in DispatchFrames :
          /\ Offers(g) /\ g.s = Top.s
          /\ Skip(g) \/ \E p \in Listed(plugins) : Handle(p, g)

LEMMA DispatchIs ==
    ASSUME BotInv, dispatch_plugins \/ dispatch_command \/ dispatch_observe
    PROVE  Running("dispatch") /\ DispatchMoves
<1>0. /\ Kept /\ stack # <<>> /\ fault = "none" /\ Top.fn = "dispatch" /\ Running("dispatch")
  BY DEF BotInv, Running, dispatch_plugins, dispatch_command, dispatch_observe
<1> SUFFICES DispatchMoves
  BY <1>0
<1>1. PICK f : f = Top
  OBVIOUS
<1>2. f \in DispatchFrames /\ Offers(f)
  <2>1. Len(stack) \in DOMAIN stack /\ Top = stack[Len(stack)] /\ Top \in Frame
    BY <1>0, Topmost
  <2> QED
    BY <1>0, <1>1, <2>1, Kinds DEF BotInv
<1>3. plugins \in Seq(Plugs) /\ Once(plugins) /\ Listed(plugins) \subseteq Plugs
  BY <1>0, HeadListed DEF Kept, PlugInv
<1>4. f.s \in Srvs /\ f.seen \in [Plugs -> 0..2] /\ f.cmd \in Plugs \cup {Nil} /\ f.stayed \subseteq Plugs
  BY <1>2 DEF DispatchFrames
<1>5. CASE dispatch_plugins
  <2> DEFINE g == [f EXCEPT !.p = Successor(plugins, f.p), !.seen = Seen(f, f.p)]
             d == [f EXCEPT !.p = Successor(plugins, f.p), !.cmd = f.p]
             c == [f EXCEPT !.step = "command"]
  <2>1. g.s = f.s /\ d.s = f.s /\ c.s = f.s
    BY <1>2 DEF DispatchFrames
  <2>2. f.step = "plugins"
    BY <1>1, <1>5 DEF dispatch_plugins
  <2>3. \/ f.p = Nil /\ Skip(c)
        \/ Crash("freed")
        \/ f.p \in Listed(plugins) /\ is_command(f.p, f) /\ Skip(d)
        \/ f.p \in Listed(plugins) /\ ~is_command(f.p, f) /\ (Skip(g) \/ Handle(f.p, g))
    BY <1>1, <1>5 DEF dispatch_plugins, Defer
  <2>4. CASE f.p = Nil /\ Skip(c)
    <3>1. Offers(c) /\ c \in DispatchFrames
      BY <1>2, <2>2, <2>4, OfferCommand
    <3> HIDE DEF c
    <3> QED
      BY <1>1, <2>1, <2>4, <3>1 DEF DispatchMoves
  <2>5. CASE f.p \in Listed(plugins) /\ is_command(f.p, f) /\ Skip(d)
    <3>1. Offers(d) /\ d \in DispatchFrames
      BY <1>0, <1>2, <2>2, <2>5, OfferNext
    <3> HIDE DEF d
    <3> QED
      BY <1>1, <2>1, <2>5, <3>1 DEF DispatchMoves
  <2>6. CASE f.p \in Listed(plugins) /\ ~is_command(f.p, f) /\ (Skip(g) \/ Handle(f.p, g))
    <3>1. Offers(g) /\ g \in DispatchFrames
      BY <1>0, <1>2, <2>2, <2>6, OfferNext
    <3> HIDE DEF g
    <3> QED
      BY <1>1, <2>1, <2>6, <3>1 DEF DispatchMoves
  <2> QED
    BY <2>3, <2>4, <2>5, <2>6 DEF DispatchMoves
<1>6. CASE dispatch_command
  <2> DEFINE c == [f EXCEPT !.step = "observe"]
             g == [c EXCEPT !.seen = Seen(c, c.cmd)]
  <2>1. PICK a : a = [f EXCEPT !.step = "observe"]
    OBVIOUS
  <2>2. PICK b : b = [f EXCEPT !.step = "observe", !.seen = Seen(f, f.cmd)]
    OBVIOUS
  <2>3. c = a /\ a.s = f.s /\ b.s = f.s /\ a.cmd = f.cmd /\ a.seen = f.seen
    BY <1>2, <2>1, <2>2 DEF DispatchFrames
  <2>4. g = b
    <3>1. Seen(c, c.cmd) = Seen(f, f.cmd)
      BY <2>3 DEF Seen
    <3>2. [[f EXCEPT !.step = "observe"] EXCEPT !.seen = Seen(f, f.cmd)]
             = [f EXCEPT !.step = "observe", !.seen = Seen(f, f.cmd)]
      OBVIOUS
    <3> QED
      BY <2>2, <3>1, <3>2
  <2>5. f.step = "command"
    BY <1>1, <1>6 DEF dispatch_command
  <2>6. \/ f.cmd = Nil /\ Skip(a)
        \/ Crash("freed")
        \/ f.cmd \in Listed(plugins) /\ (Skip(b) \/ Handle(f.cmd, b))
    <3>1. \/ c.cmd = Nil /\ Skip(c)
          \/ Crash("freed")
          \/ c.cmd \in Listed(plugins) /\ (Skip(g) \/ Handle(c.cmd, g))
      BY <1>1, <1>6 DEF dispatch_command
    <3> HIDE DEF c, g
    <3> QED
      BY <2>3, <2>4, <3>1
  <2>7. CASE f.cmd = Nil /\ Skip(a)
    <3>1. Offers(a) /\ a \in DispatchFrames
      BY <1>2, <1>4, <2>1, <2>5, <2>7, OfferObserve
    <3> QED
      BY <1>1, <2>3, <2>7, <3>1 DEF DispatchMoves
  <2>8. CASE f.cmd \in Listed(plugins) /\ (Skip(b) \/ Handle(f.cmd, b))
    <3>1. f.cmd # Nil /\ f.cmd \in Plugs
      BY <1>3, <2>8, BotAssumption
    <3>2. Offers(b) /\ b \in DispatchFrames
      BY <1>2, <1>4, <2>2, <2>5, <3>1, OfferObserve
    <3> QED
      BY <1>1, <2>3, <2>8, <3>2 DEF DispatchMoves
  <2> QED
    BY <2>6, <2>7, <2>8 DEF DispatchMoves
<1>7. CASE dispatch_observe
  BY <1>7 DEF dispatch_observe, DispatchMoves
<1> QED
  BY <1>5, <1>6, <1>7

LEMMA DispatchStep ==
    ASSUME BotInv, dispatch_plugins \/ dispatch_command \/ dispatch_observe
    PROVE  BotInv'
<1>0. /\ Kept /\ stack # <<>> /\ fault = "none" /\ Top.fn = "dispatch" /\ Running("dispatch")
      /\ DispatchMoves
  BY DispatchIs DEF BotInv, Running
<1>1. CASE Return /\ UNCHANGED <<fault, plugVars, srvVars>>
  <2>1. SrvInv' /\ GoingOn(Len(stack) - 1)
    BY <1>0, <1>1, SameSrvs, Settled DEF Kept, srvVars
  <2> QED
    BY <1>0, <1>1, <2>1, PopStep
<1>2. CASE \E g \in DispatchFrames :
             /\ Offers(g) /\ g.s = Top.s
             /\ Skip(g) \/ \E p \in Listed(plugins) : Handle(p, g)
  <2>1. Listed(plugins) \subseteq Plugs
    <3>1. plugins \in Seq(Plugs)
      BY <1>0 DEF Kept, PlugInv
    <3> QED
      BY <3>1, HeadListed
  <2> QED
    BY <1>0, <1>2, <2>1, DispatchSkips, DispatchGoes
<1> QED
  BY <1>0, <1>1, <1>2, CrashStep DEF DispatchMoves

-----------------------------------------------------------------------------
(* The servers.                                                            *)

LEMMA ServersOps ==
    ASSUME SrvInv
    PROVE  /\ Listed(servers) \subseteq Srvs
           /\ \A s \in Srvs : NextServer(s) \in Srvs \cup {Nil}
           /\ HeadOf(servers) \in Srvs \cup {Nil}
           /\ \A name : Get(servers, name) \in Listed(servers) \cup {Nil}
<1>1. servers \in Seq(Srvs) /\ Once(servers) /\ link \in [Srvs -> Srvs \cup {Nil}]
  BY DEF SrvInv
<1>2. Listed(servers) \subseteq Srvs /\ HeadOf(servers) \in Listed(servers) \cup {Nil}
  BY <1>1, HeadListed
<1>3. \A s \in Listed(servers) : Successor(servers, s) \in Listed(servers) \cup {Nil}
  BY <1>1, SuccessorListed
<1>4. \A s \in Srvs : NextServer(s) \in Srvs \cup {Nil}
  BY <1>1, <1>2, <1>3 DEF NextServer
<1>5. \A name : Get(servers, name) \in Listed(servers) \cup {Nil}
  BY GetListed
<1> QED
  BY <1>2, <1>4, <1>5

LEMMA IsRemoving ==
    ASSUME NEW s \in Srvs
    PROVE  /\ Removing(s) \in Frame /\ Removing(s).fn = "server_remove" /\ Removing(s).s = s
           /\ \A f \in RemoveFrame : f.s = s => f = Removing(s)
BY DEF Removing, RemoveFrame, Frame

LEMMA IsClearing ==
    ASSUME NEW s \in Srvs \cup {Nil}
    PROVE  Clearing(s) \in Frame /\ Clearing(s).fn = "server_clear" /\ Clearing(s).s = s
BY DEF Clearing, ClearFrame, Frame

\* irc_bot_server_remove, called by a script or by irc_bot_server_clear.
LEMMA RemoveServer ==
    ASSUME BotInv, fault = "none", NEW s \in Listed(servers), NEW k, Cut(k), NEW n \in {k, k + 1},
           Len(stack') = n + 2, stack'[n + 1] = Removing(s),
           stack'[n + 2] = DispatchFrame("event", s, {}),
           n = k => ~(k + 1 \in DOMAIN stack),
           n = k + 1 => /\ k + 1 \in DOMAIN stack /\ stack[k + 1].fn = "server_clear"
                        /\ stack'[k + 1].fn = "server_clear",
           conn' = conn \ {s},
           twice' = IF \E i \in DOMAIN stack : stack[i] = Removing(s) THEN twice \cup {s} ELSE twice,
           UNCHANGED <<fault, plugVars, servers, link, refc, alive, handles, dropped>>
    PROVE  BotInv'
<1>0. Kept /\ SrvInv /\ s \in Srvs /\ UNCHANGED plugins
  BY ServersOps DEF BotInv, Kept, plugVars
<1>1. SrvInv'
  <2>1. twice \subseteq twice' /\ twice' \subseteq twice \cup {s}
    OBVIOUS
  <2>2. ConnectedListed'
    BY <1>0, <2>1 DEF SrvInv, Listed, ConnectedListed
  <2> QED
    BY <1>0, <2>1, <2>2 DEF SrvInv, Once, Listed
<1>2. Kept'
  BY <1>0, <1>1, SamePlugs DEF Kept, Cut
<1>3. PICK r : r = Removing(s)
  OBVIOUS
<1>4. PICK d : d = DispatchFrame("event", s, {})
  OBVIOUS
<1>5. /\ r \in Frame /\ r.fn = "server_remove" /\ r.s = s
      /\ \A f \in RemoveFrame : f.s = s => f = r
  BY <1>0, <1>3, IsRemoving
<1>6. d \in Frame /\ d.fn = "dispatch" /\ Offers(d)
  BY <1>0, <1>4, FreshDispatch
<1>7. /\ k \in Nat /\ DOMAIN stack' = 1..n + 2 /\ stack'[n + 1] = r /\ stack'[n + 2] = d
      /\ \A i \in 1..n + 2 : i > k => i = n + 1 \/ i = n + 2 \/ (i = k + 1 /\ n = k + 1)
      /\ DOMAIN stack = 1..Len(stack) /\ 1..k \subseteq DOMAIN stack
      /\ \A i \in 1..k : stack'[i] = stack[i]
      /\ n + 1 # n + 2 /\ n + 1 \in 1..n + 2 /\ n + 2 \in 1..n + 2
      /\ \A i \in 1..n + 2 : i \in 1..k \/ i > k
  BY <1>3, <1>4 DEF Cut
<1>8. twice \subseteq twice' /\ (\A i \in DOMAIN stack : stack[i] = r => s \in twice')
  BY <1>3
<1>9. GoingOn(k)
  BY <1>8 DEF GoingOn, Going
<1>10. \A i \in 1..k : stack'[i].fn = "server_remove" /\ stack'[i].s = s => s \in twice'
  <2> TAKE i \in 1..k
  <2> HAVE stack'[i].fn = "server_remove" /\ stack'[i].s = s
  <2>1. stack[i] \in Frame /\ i \in DOMAIN stack /\ stack'[i] = stack[i]
    BY <1>0, <1>7 DEF Kept
  <2>2. stack[i] = r
    BY <1>5, <2>1, Kinds
  <2> QED
    BY <1>8, <2>1, <2>2
<1>11. Fits(n + 1)
  <2>1. Going(s)'
    BY <1>0 DEF Going
  <2>2. Lasts(n + 1, r)'
    BY <1>5, <2>1 DEF Lasts, Outermost, Going
  <2>3. Lasts(n + 1, stack[n + 1])'
    BY <1>7, <2>2
  <2>4. ASSUME NEW j \in DOMAIN stack', j # n + 1
        PROVE  Pair(stack[n + 1], stack[j])' /\ Pair(stack[j], stack[n + 1])'
    <3>1. stack'[j].fn = "server_remove" /\ stack'[j].s = s => s \in twice'
      <4>1. CASE j \in 1..k
        BY <1>10, <4>1
      <4>2. CASE j = n + 2
        BY <1>6, <1>7, <4>2
      <4>3. CASE j = k + 1 /\ n = k + 1
        BY <4>3
      <4> QED
        BY <1>7, <2>4, <4>1, <4>2, <4>3
    <3> QED
      BY <1>5, <1>7, <3>1 DEF Pair
  <2>5. stack'[n + 1].fn # "dispatch"
    BY <1>5, <1>7
  <2> QED
    BY <2>3, <2>4, <2>5 DEF Fits
<1>12. Fits(n + 2)
  <2>1. Offers(d)'
    BY <1>0, <1>6, OffersSame
  <2>2. Lasts(n + 2, stack[n + 2])' /\ Offers(stack[n + 2])'
    BY <1>6, <1>7, <2>1, JsLasts
  <2> QED
    BY <1>6, <1>7, <2>2, Apart
<1>13. n = k + 1 => Fits(k + 1)
  <2> SUFFICES ASSUME n = k + 1
               PROVE  Fits(k + 1)
    OBVIOUS
  <2>1. k + 1 \in DOMAIN stack /\ stack[k + 1].fn = "server_clear" /\ k + 1 \in DOMAIN stack'
    BY <1>7
  <2>2. Lasts(k + 1, stack[k + 1])
    BY <2>1 DEF BotInv
  <2>3. k + 1 = 1 \/ (k + 1 = 2 /\ stack'[1].fn = "finish")
    <3>1. k + 1 = 1 \/ (k + 1 = 2 /\ stack[1].fn = "finish")
      BY <2>1, <2>2 DEF Lasts, Outermost
    <3>2. k + 1 = 2 => stack'[1] = stack[1]
      BY <1>7
    <3> QED
      BY <3>1, <3>2
  <2>4. Lasts(k + 1, stack[k + 1])'
    BY <2>3 DEF Lasts, Outermost
  <2> QED
    BY <2>1, <2>4, Apart
<1>14. \A i \in DOMAIN stack' : i > k => Fits(i)
  BY <1>7, <1>11, <1>12, <1>13
<1> QED
  BY <1>2, <1>9, <1>14, Spliced

LEMMA ServerRemoveStep ==
    ASSUME BotInv, NEW s \in Srvs, Server_remove(s)
    PROVE  BotInv'
<1>0. Kept /\ fault = "none" /\ s \in Listed(servers) /\ irc_bot_server_remove(s, stack)
  BY DEF BotInv, Server_remove, Script, Running
<1>1. Removing(s) \in Frame /\ DispatchFrame("event", s, {}) \in Frame
  BY <1>0, IsRemoving, FreshDispatch
<1>2. CASE Crash("active coroutine")
  BY <1>2, CrashStep
<1>3. CASE ~Crash("active coroutine")
  <2>1. /\ stack' = stack \o <<Removing(s), DispatchFrame("event", s, {})>>
        /\ conn' = conn \ {s}
        /\ twice' = IF \E i \in DOMAIN stack : stack[i] = Removing(s) THEN twice \cup {s} ELSE twice
        /\ UNCHANGED <<fault, plugVars, servers, link, refc, alive, handles, dropped>>
    BY <1>0, <1>3 DEF irc_bot_server_remove
  <2> DEFINE k == Len(stack)
  <2>2. /\ Cut(k) /\ Len(stack') = k + 2 /\ stack'[k + 1] = Removing(s)
        /\ stack'[k + 2] = DispatchFrame("event", s, {})
    BY <1>0, <1>1, <2>1, CalledTwo DEF Call
  <2>3. k = Len(stack)
    OBVIOUS
  <2> HIDE DEF k
  <2>4. k \in {k, k + 1} /\ k # k + 1 /\ ~(k + 1 \in DOMAIN stack)
    <3>1. k \in Nat /\ DOMAIN stack = 1..k
      BY <2>2, <2>3 DEF Cut
    <3> QED
      BY <3>1
  <2> QED
    BY <1>0, <2>1, <2>2, <2>4, RemoveServer
<1> QED
  BY <1>2, <1>3

\* One frame goes on in the place of the top, a loop of the same kind.
LEMMA LoopStep ==
    ASSUME BotInv, stack # <<>>, fault = "none", NEW f \in Frame, Goto(f),
           UNCHANGED <<fault, plugVars, srvVars>>, f.fn = Top.fn,
           f.fn \in {"server_clear", "reload"}
    PROVE  BotInv'
<1>0. Kept
  BY DEF BotInv
<1>1. /\ Len(stack) \in Nat /\ Len(stack) >= 1 /\ DOMAIN stack = 1..Len(stack)
      /\ stack[Len(stack)] = Top
  BY <1>0, Topmost
<1> DEFINE k == Len(stack) - 1
<1>2. k \in Nat /\ k + 1 = Len(stack) /\ k + 1 \in DOMAIN stack /\ stack[k + 1] = Top
  BY <1>1
<1>3. Cut(k) /\ Len(stack') = k + 1 /\ stack'[k + 1] = f
  BY <1>0, <1>2, Went
<1> HIDE DEF k
<1>4. Kept' /\ GoingOn(k)
  BY <1>0, <1>3, SamePlugs, SameSrvs, Settled DEF Kept, Cut, srvVars
<1>5. Outermost(k + 1, Top)
  <2>1. Lasts(k + 1, stack[k + 1])
    BY <1>2 DEF BotInv
  <2> QED
    BY <1>2, <2>1 DEF Lasts
<1>6. f.fn = "server_clear" => k + 1 = 1 \/ (k + 1 = 2 /\ stack'[1].fn = "finish")
  <2>1. k + 1 = 2 => stack'[1] = stack[1]
    <3>1. k + 1 = 2 => 1 \in 1..k
      BY <1>2
    <3> QED
      BY <1>3, <3>1 DEF Cut
  <2> QED
    BY <1>5, <2>1 DEF Outermost
<1>7. ASSUME NEW i \in DOMAIN stack', i > k PROVE Fits(i)
  <2>1. i = k + 1 /\ stack'[i] = f
    BY <1>2, <1>3, <1>7 DEF Cut
  <2>2. CASE f.fn = "server_clear"
    <3>1. i = 1 \/ (i = 2 /\ stack'[1].fn = "finish")
      BY <1>6, <2>1, <2>2
    <3>2. Lasts(i, stack[i])'
      BY <2>1, <2>2, <3>1, LoopLasts
    <3> QED
      BY <2>1, <2>2, <3>2, Apart
  <2>3. CASE f.fn = "reload"
    <3>1. Lasts(i, stack[i])'
      BY <2>1, <2>3, JsLasts
    <3> QED
      BY <2>1, <2>3, <3>1, Apart
  <2> QED
    BY <2>2, <2>3
<1> QED
  BY <1>2, <1>3, <1>4, <1>7, Spliced

LEMMA ServerClearStep ==
    ASSUME BotInv, irc_bot_server_clear
    PROVE  BotInv'
<1>0. Kept /\ SrvInv /\ stack # <<>> /\ fault = "none" /\ Top.fn = "server_clear"
  BY DEF BotInv, Kept, irc_bot_server_clear, Running
<1>1. PICK s : s = Top.s
  OBVIOUS
<1>2. /\ Len(stack) \in Nat /\ Len(stack) >= 1 /\ DOMAIN stack = 1..Len(stack)
      /\ stack[Len(stack)] = Top /\ Top \in Frame /\ Len(stack) \in DOMAIN stack
  BY <1>0, Topmost
<1>3. s \in Srvs \cup {Nil} /\ Outermost(Len(stack), Top)
  <2>1. Lasts(Len(stack), stack[Len(stack)])
    BY <1>2 DEF BotInv
  <2>2. Top \in ClearFrame
    BY <1>0, <1>2, Kinds
  <2> QED
    BY <1>1, <1>2, <2>1, <2>2 DEF Lasts, ClearFrame
<1>4. CASE s = Nil
  <2>1. /\ Return /\ servers' = <<>> /\ link' = [x \in Srvs |-> NextServer(x)]
        /\ dropped' = dropped \cup Listed(servers)
        /\ UNCHANGED <<fault, plugVars, conn, refc, alive, handles, twice>>
    BY <1>1, <1>4 DEF irc_bot_server_clear
  <2>2. SrvInv'
    <3>1. servers' \in Seq(Srvs) /\ Once(servers') /\ Listed(servers') = {}
      BY <2>1, Nothing DEF Once, Listed
    <3>2. link' \in [Srvs -> Srvs \cup {Nil}] /\ Listed(servers) \subseteq Srvs
      BY <1>0, <2>1, ServersOps
    <3>3. ConnectedListed'
      BY <1>0, <2>1 DEF SrvInv, ConnectedListed
    <3> QED
      BY <1>0, <2>1, <3>1, <3>2, <3>3 DEF SrvInv
  <2>3. \A i \in 1..(Len(stack) - 1) : stack[i].fn = "finish"
    BY <1>0, <1>2, <1>3 DEF Outermost
  <2>4. GoingOn(Len(stack) - 1)
    BY <2>3 DEF GoingOn
  <2> QED
    BY <1>0, <2>1, <2>2, <2>4, PopStep
<1>5. CASE s # Nil
  <2>1. \/ Crash("freed")
        \/ /\ Get(servers, NameOf[s]) = Nil /\ Skip(Clearing(NextServer(s)))
        \/ /\ Get(servers, NameOf[s]) # Nil
           /\ irc_bot_server_remove(Get(servers, NameOf[s]), Over(Clearing(NextServer(s))))
    BY <1>1, <1>5 DEF irc_bot_server_clear
  <2>2. PICK g : g = Clearing(NextServer(s))
    OBVIOUS
  <2>3. g \in Frame /\ g.fn = "server_clear"
    <3>1. NextServer(s) \in Srvs \cup {Nil}
      BY <1>0, <1>3, <1>5, ServersOps
    <3> QED
      BY <2>2, <3>1, IsClearing
  <2>4. CASE Skip(Clearing(NextServer(s)))
    BY <1>0, <2>2, <2>3, <2>4, LoopStep DEF Skip
  <2>5. PICK r : r = Get(servers, NameOf[s])
    OBVIOUS
  <2>6. CASE r # Nil /\ irc_bot_server_remove(r, Over(g))
    <3>1. r \in Listed(servers) /\ r \in Srvs
      BY <1>0, <2>5, <2>6, ServersOps
    <3>2. CASE Crash("active coroutine")
      BY <3>2, CrashStep
    <3>3. CASE ~Crash("active coroutine")
      <4>1. /\ stack' = Over(g) \o <<Removing(r), DispatchFrame("event", r, {})>>
            /\ conn' = conn \ {r}
            /\ twice' = IF \E i \in DOMAIN stack : stack[i] = Removing(r) THEN twice \cup {r} ELSE twice
            /\ UNCHANGED <<fault, plugVars, servers, link, refc, alive, handles, dropped>>
        BY <2>6, <3>3 DEF irc_bot_server_remove
      <4>2. Removing(r) \in Frame /\ DispatchFrame("event", r, {}) \in Frame
        BY <1>0, <3>1, IsRemoving, FreshDispatch
      <4> DEFINE k == Len(stack) - 1
                 n == k + 1
      <4>3. k + 1 = Len(stack) /\ k \in Nat /\ k + 1 \in DOMAIN stack /\ stack[k + 1] = Top
        BY <1>2
      <4>4. /\ Cut(k) /\ Len(stack') = Len(stack) + 2 /\ stack'[Len(stack)] = g
            /\ stack'[Len(stack) + 1] = Removing(r)
            /\ stack'[Len(stack) + 2] = DispatchFrame("event", r, {})
        BY <1>0, <2>3, <4>1, <4>2, WentCallingTwo
      <4> HIDE DEF k
      <4>5. /\ n \in {k, k + 1} /\ n # k /\ Len(stack') = n + 2
            /\ stack'[n + 1] = Removing(r) /\ stack'[n + 2] = DispatchFrame("event", r, {})
            /\ stack'[k + 1] = g
        BY <4>3, <4>4
      <4> HIDE DEF n
      <4> QED
        BY <1>0, <2>3, <3>1, <4>1, <4>3, <4>4, <4>5, RemoveServer
    <3> QED
      BY <3>2, <3>3
  <2> QED
    BY <2>1, <2>2, <2>4, <2>5, <2>6, CrashStep
<1> QED
  BY <1>4, <1>5

\* The last reference that goes takes the server with it, which is in no list.
LEMMA DecrefOps ==
    ASSUME SrvInv, NEW s \in Srvs, Decref(s), refc[s] # 0
    PROVE  /\ refc' \in [Srvs -> Nat] /\ conn' \subseteq alive' /\ alive' \subseteq Srvs
           /\ conn' \subseteq conn /\ alive' \subseteq alive
           /\ refc[s] # 1 => alive' = alive
           /\ refc[s] = 1 => alive' = alive \ {s}
BY DEF Decref, SrvInv

LEMMA ServerRemoveEnd ==
    ASSUME BotInv, server_remove_end
    PROVE  BotInv'
<1>0. /\ Kept /\ SrvInv /\ stack # <<>> /\ fault = "none" /\ Top.fn = "server_remove"
  BY DEF BotInv, Kept, server_remove_end, Running
<1>1. PICK s : s = Top.s
  OBVIOUS
<1>2. /\ Len(stack) \in Nat /\ Len(stack) >= 1 /\ DOMAIN stack = 1..Len(stack)
      /\ stack[Len(stack)] = Top /\ Top \in Frame /\ Len(stack) \in DOMAIN stack
  BY <1>0, Topmost
<1>3. s \in Srvs
  BY <1>0, <1>1, <1>2, Kinds DEF RemoveFrame
<1>4. \/ Crash("freed")
      \/ /\ ~DecrefFails(s) /\ Return /\ servers' = LL_DELETE(servers, s)
         /\ link' = [link EXCEPT ![s] = IF refc[s] = 1 THEN Nil ELSE NextServer(s)]
         /\ Decref(s)
         /\ UNCHANGED <<fault, plugVars, handles, dropped, twice>>
  BY <1>1 DEF server_remove_end
<1>5. CASE ~Crash("freed")
  <2>1. /\ ~DecrefFails(s) /\ Return /\ servers' = LL_DELETE(servers, s)
        /\ link' = [link EXCEPT ![s] = IF refc[s] = 1 THEN Nil ELSE NextServer(s)]
        /\ Decref(s)
        /\ UNCHANGED <<fault, plugVars, handles, dropped, twice>>
    BY <1>4, <1>5
  <2>2. refc[s] # 0
    BY <2>1 DEF DecrefFails
  <2>3. /\ servers \in Seq(Srvs) /\ Once(servers) /\ Listed(servers) \subseteq alive
        /\ link \in [Srvs -> Srvs \cup {Nil}] /\ handles \in [Plugs -> SUBSET Srvs]
        /\ dropped \subseteq Srvs /\ twice \subseteq Srvs
    BY <1>0 DEF SrvInv
  <2>4. servers' \in Seq(Srvs) /\ Once(servers') /\ Listed(servers') = Listed(servers) \ {s}
    BY <2>1, <2>3, DeleteOps
  <2>5. link' \in [Srvs -> Srvs \cup {Nil}]
    <3>1. NextServer(s) \in Srvs \cup {Nil}
      BY <1>0, <1>3, ServersOps
    <3> QED
      BY <2>1, <2>3, <3>1
  <2>6. /\ refc' \in [Srvs -> Nat] /\ conn' \subseteq alive' /\ alive' \subseteq Srvs
        /\ conn' \subseteq conn /\ alive \ {s} \subseteq alive'
    BY <1>0, <1>3, <2>1, <2>2, DecrefOps
  <2>7. SrvInv'
    <3>1. Listed(servers') \subseteq alive'
      BY <2>3, <2>4, <2>6
    <3>2. Once(servers)' /\ Listed(servers)' \subseteq alive'
      BY <2>4, <3>1 DEF Once, Listed
    <3>3. Going(s)
      <4>1. Lasts(Len(stack), stack[Len(stack)])
        BY <1>2 DEF BotInv
      <4> QED
        BY <1>0, <1>1, <1>2, <4>1 DEF Lasts, Going
    <3>4. ConnectedListed'
      <4>1. Listed(servers)' = Listed(servers) \ {s}
        BY <2>4 DEF Listed
      <4> QED
        BY <1>0, <2>1, <2>6, <3>3, <4>1 DEF SrvInv, ConnectedListed, Going
    <3> QED
      BY <2>1, <2>3, <2>4, <2>5, <2>6, <3>2, <3>4 DEF SrvInv
  <2>8. GoingOn(Len(stack) - 1)
    <3> SUFFICES ASSUME NEW i \in 1..(Len(stack) - 1), NEW t, stack[i].fn = "server_remove", stack[i].s = t
                 PROVE  (Going(t) => Going(t)') /\ (t \in twice => t \in twice')
      BY DEF GoingOn
    <3>1. twice' = twice
      BY <2>1
    <3>2. CASE t = s
      <4>1. i \in DOMAIN stack /\ i # Len(stack)
        <5>1. PICK n : n = Len(stack)
          OBVIOUS
        <5>2. n \in Nat /\ DOMAIN stack = 1..n /\ i \in 1..(n - 1)
          BY <1>2, <5>1
        <5> QED
          BY <5>1, <5>2
      <4>2. Pair(stack[i], stack[Len(stack)])
        BY <1>2, <4>1 DEF BotInv
      <4>3. s \in twice
        BY <1>0, <1>1, <1>2, <3>2, <4>2 DEF Pair
      <4> QED
        BY <3>1, <3>2, <4>3 DEF Going
    <3>3. CASE t # s
      <4>1. t \in Listed(servers) => t \in Listed(servers)'
        BY <2>4, <3>3 DEF Listed
      <4> QED
        BY <2>6, <3>1, <4>1 DEF Going
    <3> QED
      BY <3>2, <3>3
  <2> QED
    BY <1>0, <2>1, <2>7, <2>8, PopStep
<1> QED
  BY <1>5, CrashStep

\* What a script does with servers while no call begins or ends.
LEMMA InPlace ==
    ASSUME BotInv, UNCHANGED <<stack, fault, plugVars>>, SrvInv', GoingOn(Len(stack))
    PROVE  BotInv'
<1>0. Kept
  BY DEF BotInv
<1>1. PICK k : k = Len(stack)
  OBVIOUS
<1>2. Cut(k) /\ Len(stack') = k /\ GoingOn(k)
  BY <1>0, <1>1, Stayed
<1>3. Kept'
  BY <1>0, <1>2, SamePlugs DEF Kept, Cut
<1>4. k \in Nat /\ DOMAIN stack = 1..k /\ DOMAIN stack' = 1..k
  BY <1>1, <1>2 DEF Cut
<1>5. ~(k + 1 \in DOMAIN stack) /\ \A i \in DOMAIN stack' : ~(i > k)
  BY <1>4
<1> QED
  BY <1>2, <1>3, <1>5, Spliced

\* An Irccd.Server object goes, and perhaps the server with it.
LEMMA Finalized ==
    ASSUME SrvInv, NEW s \in Srvs, ~FinalizeFails(s), Decref(s), handles' \in [Plugs -> SUBSET Srvs],
           UNCHANGED <<servers, link, dropped, twice>>
    PROVE  SrvInv' /\ conn' \subseteq conn
<1>1. refc[s] # 0 /\ (refc[s] = 1 => s \notin Listed(servers))
  BY DEF FinalizeFails, DecrefFails
<1>2. /\ refc' \in [Srvs -> Nat] /\ conn' \subseteq alive' /\ alive' \subseteq Srvs /\ conn' \subseteq conn
      /\ refc[s] # 1 => alive' = alive
      /\ refc[s] = 1 => alive' = alive \ {s}
  BY <1>1, DecrefOps
<1>3. /\ servers \in Seq(Srvs) /\ Once(servers) /\ Listed(servers) \subseteq alive
      /\ link \in [Srvs -> Srvs \cup {Nil}] /\ dropped \subseteq Srvs /\ twice \subseteq Srvs
      /\ conn \subseteq Listed(servers) \cup dropped \cup twice
  BY DEF SrvInv, ConnectedListed
<1>4. Listed(servers) \subseteq alive'
  BY <1>1, <1>2, <1>3
<1>5. Listed(servers)' = Listed(servers)
  BY DEF Listed
<1>6. ConnectedListed'
  BY <1>2, <1>3, <1>5 DEF ConnectedListed
<1>7. servers' \in Seq(Srvs) /\ Once(servers)' /\ Listed(servers)' \subseteq alive'
  BY <1>3, <1>4, <1>5 DEF Once
<1> QED
  BY <1>2, <1>3, <1>6, <1>7 DEF SrvInv

\* irc_bot_server_add, of a server no frame is about to remove from the list.
LEMMA ConnectOps ==
    ASSUME SrvInv, NEW s \in Srvs, NEW n \in Nat, Get(servers, NameOf[s]) = Nil, Connected(s, n),
           alive' = alive \cup {s}, handles' = handles, dropped' \subseteq Srvs, twice' \subseteq Srvs,
           dropped \ {s} \subseteq dropped', twice \ {s} \subseteq twice'
    PROVE  SrvInv' /\ s \notin Listed(servers) /\ Listed(servers)' = Listed(servers) \cup {s}
<1>1. /\ servers \in Seq(Srvs) /\ Once(servers) /\ link \in [Srvs -> Srvs \cup {Nil}]
      /\ refc \in [Srvs -> Nat] /\ conn \subseteq alive /\ Listed(servers) \subseteq alive
      /\ alive \subseteq Srvs /\ handles \in [Plugs -> SUBSET Srvs]
      /\ conn \subseteq Listed(servers) \cup dropped \cup twice
  BY DEF SrvInv, ConnectedListed
<1>2. s \notin Listed(servers)
  <2>1. Listed(servers) \subseteq Srvs
    BY <1>1, HeadListed
  <2> QED
    BY <2>1, GetListed, BotAssumption
<1>3. /\ servers' \in Seq(Srvs) /\ Once(servers') /\ Listed(servers') = Listed(servers) \cup {s}
      /\ conn' = conn \cup {s}
  <2>1. servers' = Append(servers, s) /\ conn' = conn \cup {s}
    BY DEF Connected
  <2> QED
    BY <1>1, <1>2, <2>1, AppendOps
<1>4. link' \in [Srvs -> Srvs \cup {Nil}] /\ refc' \in [Srvs -> Nat]
  BY <1>1 DEF Connected
<1>5. Listed(servers)' = Listed(servers) \cup {s} /\ Once(servers)'
  BY <1>3 DEF Listed, Once
<1>6. ConnectedListed'
  BY <1>1, <1>3, <1>5 DEF ConnectedListed
<1> QED
  BY <1>1, <1>2, <1>3, <1>4, <1>5, <1>6 DEF SrvInv

LEMMA ScriptServers ==
    ASSUME BotInv, NEW s \in Srvs,
           Server_constructor(s) \/ Server_add(s) \/ Server_find(s) \/ Server_destructor(s)
    PROVE  BotInv'
<1>0. Kept /\ SrvInv /\ stack # <<>> /\ fault = "none" /\ Top.fn = "js"
  BY DEF BotInv, Kept, Server_constructor, Server_add, Server_find, Server_destructor, Script, Running
<1>1. /\ Len(stack) \in Nat /\ DOMAIN stack = 1..Len(stack) /\ Top \in Frame
      /\ \A i \in DOMAIN stack : stack[i] \in Frame
  BY <1>0, Topmost, LenProperties DEF Kept
<1>2. Top.p \in Plugs
  BY <1>0, <1>1, Kinds DEF JsFrame
<1>3. /\ servers \in Seq(Srvs) /\ Once(servers) /\ link \in [Srvs -> Srvs \cup {Nil}]
      /\ refc \in [Srvs -> Nat] /\ conn \subseteq alive /\ Listed(servers) \subseteq alive
      /\ alive \subseteq Srvs /\ handles \in [Plugs -> SUBSET Srvs]
      /\ dropped \subseteq Srvs /\ twice \subseteq Srvs
      /\ conn \subseteq Listed(servers) \cup dropped \cup twice
  BY <1>0 DEF SrvInv, ConnectedListed
<1>4. CASE Server_constructor(s)
  <2>1. /\ Fresh(s) /\ alive' = alive \cup {s} /\ refc' = [refc EXCEPT ![s] = 1]
        /\ link' = [link EXCEPT ![s] = Nil] /\ handles' = [handles EXCEPT ![Top.p] = @ \cup {s}]
        /\ dropped' = dropped \ {s} /\ twice' = twice \ {s}
        /\ UNCHANGED <<stack, fault, plugVars, servers, conn>>
    BY <1>4 DEF Server_constructor
  <2>2. SrvInv'
    <3>1. refc' \in [Srvs -> Nat] /\ link' \in [Srvs -> Srvs \cup {Nil}]
      BY <1>3, <2>1
    <3>2. handles' \in [Plugs -> SUBSET Srvs]
      BY <1>2, <1>3, <2>1
    <3>3. s \notin alive
      BY <2>1 DEF Fresh
    <3>4. Listed(servers)' = Listed(servers) /\ Once(servers)'
      BY <1>3, <2>1 DEF Listed, Once
    <3>5. ConnectedListed'
      BY <1>3, <2>1, <3>3, <3>4 DEF ConnectedListed
    <3> QED
      BY <1>3, <2>1, <3>1, <3>2, <3>4, <3>5 DEF SrvInv
  <2>3. GoingOn(Len(stack))
    <3> SUFFICES ASSUME NEW i \in 1..Len(stack), NEW t, stack[i].fn = "server_remove", stack[i].s = t
                 PROVE  (Going(t) => Going(t)') /\ (t \in twice => t \in twice')
      BY DEF GoingOn
    <3>1. stack[i] \in RemoveFrame /\ i \in DOMAIN stack
      BY <1>1, Kinds
    <3>2. "s" \in DOMAIN stack[i]
      BY <3>1 DEF RemoveFrame
    <3>3. t # s
      BY <2>1, <3>1, <3>2 DEF Fresh
    <3> QED
      BY <2>1, <3>3 DEF Going, Listed
  <2> QED
    BY <2>1, <2>2, <2>3, InPlace
<1>5. CASE Server_add(s)
  <2>1. \/ Crash("freed")
        \/ /\ s \in alive /\ irc_bot_server_add(s)
           /\ UNCHANGED <<stack, fault, plugVars, alive, handles, dropped, twice>>
    BY <1>5 DEF Server_add
  <2>2. CASE /\ s \in alive /\ UNCHANGED <<servers, link, conn, refc>>
             /\ UNCHANGED <<stack, fault, plugVars, alive, handles, dropped, twice>>
    <3>1. SrvInv'
      BY <1>0, <2>2, SameSrvs DEF srvVars
    <3> QED
      BY <2>2, <3>1, Settled, InPlace
  <2>3. CASE /\ s \in alive /\ Get(servers, NameOf[s]) = Nil /\ Connected(s, refc[s])
             /\ UNCHANGED <<stack, fault, plugVars, alive, handles, dropped, twice>>
    <3>1. /\ refc[s] \in Nat /\ alive' = alive \cup {s} /\ dropped' \subseteq Srvs /\ twice' \subseteq Srvs
          /\ dropped \ {s} \subseteq dropped' /\ twice \ {s} \subseteq twice'
      BY <1>3, <2>3
    <3>2. SrvInv' /\ s \notin Listed(servers) /\ Listed(servers)' = Listed(servers) \cup {s}
      BY <1>0, <2>3, <3>1, ConnectOps
    <3>3. conn' = conn \cup {s}
      BY <2>3 DEF Connected
    <3>4. GoingOn(Len(stack))
      BY <2>3, <3>2, <3>3 DEF GoingOn, Going
    <3> QED
      BY <2>3, <3>2, <3>4, InPlace
  <2> QED
    BY <2>1, <2>2, <2>3, CrashStep DEF irc_bot_server_add
<1>6. CASE Server_find(s)
  <2>1. /\ refc' = [refc EXCEPT ![s] = @ + 1] /\ handles' = [handles EXCEPT ![Top.p] = @ \cup {s}]
        /\ UNCHANGED <<stack, fault, plugVars, servers, link, conn, alive, dropped, twice>>
    BY <1>6 DEF Server_find, Incref
  <2>2. SrvInv'
    <3>1. refc' \in [Srvs -> Nat]
      BY <1>3, <2>1
    <3>2. handles' \in [Plugs -> SUBSET Srvs]
      BY <1>2, <1>3, <2>1
    <3>3. Listed(servers)' = Listed(servers) /\ Once(servers)'
      BY <1>3, <2>1 DEF Listed, Once
    <3> QED
      BY <1>3, <2>1, <3>1, <3>2, <3>3 DEF SrvInv, ConnectedListed
  <2> QED
    BY <2>1, <2>2, Settled, InPlace
<1>7. CASE Server_destructor(s)
  <2>1. CASE Crash("freed")
    BY <2>1, CrashStep
  <2>2. CASE ~Crash("freed")
    <3>1. /\ ~FinalizeFails(s) /\ Decref(s) /\ handles' = [handles EXCEPT ![Top.p] = @ \ {s}]
          /\ UNCHANGED <<stack, fault, plugVars, servers, link, dropped, twice>>
      BY <1>7, <2>2 DEF Server_destructor
    <3>2. handles' \in [Plugs -> SUBSET Srvs]
      BY <1>2, <1>3, <3>1
    <3>3. SrvInv' /\ conn' \subseteq conn
      BY <1>0, <3>1, <3>2, Finalized
    <3> QED
      BY <3>1, <3>3, Settled, InPlace
  <2> QED
    BY <2>1, <2>2
<1> QED
  BY <1>4, <1>5, <1>6, <1>7

\* Commands of irccdctl about one server.
LEMMA ServerCommands ==
    ASSUME BotInv, NEW s \in Srvs, cmd_server_connect(s) \/ cmd_server_disconnect(s)
    PROVE  BotInv'
<1>0. Kept /\ SrvInv /\ stack = <<>> /\ fault = "none"
  BY DEF BotInv, Kept, cmd_server_connect, cmd_server_disconnect, Idle
<1>1. \A i \in 1..Len(stack) : FALSE
  BY <1>0, Nothing
<1>2. GoingOn(Len(stack))
  BY <1>1 DEF GoingOn
<1>3. CASE cmd_server_connect(s)
  <2>1. /\ Get(servers, NameOf[s]) = Nil /\ Connected(s, 0) /\ alive' = alive \cup {s}
        /\ dropped' = dropped \ {s} /\ twice' = twice \ {s}
        /\ UNCHANGED <<stack, fault, plugVars, handles>>
    BY <1>3 DEF cmd_server_connect
  <2>2. dropped' \subseteq Srvs /\ twice' \subseteq Srvs
    BY <1>0, <2>1 DEF SrvInv
  <2>3. SrvInv'
    BY <1>0, <2>1, <2>2, ConnectOps
  <2> QED
    BY <1>2, <2>1, <2>3, InPlace
<1>4. CASE cmd_server_disconnect(s)
  <2>1. /\ s \in Listed(servers) /\ (conn' = conn \ {s} \/ conn' = conn \cup {s})
        /\ UNCHANGED <<stack, fault, plugVars, servers, link, refc, alive, handles, dropped, twice>>
    BY <1>4 DEF cmd_server_disconnect
  <2>2. SrvInv'
    BY <1>0, <2>1 DEF SrvInv, Listed, Once, ConnectedListed
  <2> QED
    BY <1>2, <2>1, <2>2, InPlace
<1> QED
  BY <1>3, <1>4

LEMMA JsReturn ==
    ASSUME BotInv, js_return
    PROVE  BotInv'
<1>0. Kept /\ SrvInv /\ stack # <<>> /\ fault = "none" /\ Top.fn = "js"
  BY DEF BotInv, Kept, js_return, Script, Running
<1>1. Top \in Frame
  BY <1>0, Topmost
<1>2. PICK s : s = Top.s
  OBVIOUS
<1>3. s \in Srvs \cup {Nil}
  BY <1>0, <1>1, <1>2, Kinds DEF JsFrame
<1>4. \/ Return /\ UNCHANGED <<fault, plugVars, srvVars>>
      \/ Crash("freed")
      \/ /\ s # Nil /\ ~FinalizeFails(s) /\ Return /\ Decref(s)
         /\ UNCHANGED <<fault, plugVars, servers, link, handles, dropped, twice>>
  BY <1>2 DEF js_return
<1>5. CASE Return /\ UNCHANGED <<fault, plugVars, srvVars>>
  <2>1. SrvInv' /\ GoingOn(Len(stack) - 1)
    BY <1>0, <1>5, SameSrvs, Settled DEF srvVars
  <2> QED
    BY <1>0, <1>5, <2>1, PopStep
<1>6. CASE /\ s # Nil /\ ~FinalizeFails(s) /\ Return /\ Decref(s)
           /\ UNCHANGED <<fault, plugVars, servers, link, handles, dropped, twice>>
  <2>1. handles' \in [Plugs -> SUBSET Srvs]
    BY <1>0, <1>6 DEF SrvInv
  <2>2. SrvInv' /\ conn' \subseteq conn
    BY <1>0, <1>3, <1>6, <2>1, Finalized
  <2>3. GoingOn(Len(stack) - 1)
    BY <1>6, <2>2, Settled
  <2> QED
    BY <1>0, <1>6, <2>2, <2>3, PopStep
<1> QED
  BY <1>4, <1>5, <1>6, CrashStep

-----------------------------------------------------------------------------
(* Loops and commands that leave the list of plugins alone.                *)

LEMMA PluginsOps ==
    ASSUME Kept
    PROVE  /\ plugins \in Seq(Plugs) /\ Once(plugins) /\ Listed(plugins) \subseteq Plugs
           /\ Nil \notin Listed(plugins)
           /\ HeadOf(plugins) \in Plugs \cup {Nil}
           /\ HeadOf(plugins) = Nil => plugins = <<>>
           /\ plugins # <<>> => HeadOf(plugins) = plugins[1] /\ HeadOf(plugins) \in Plugs
           /\ plugins = <<>> => HeadOf(plugins) = Nil /\ Listed(plugins) = {}
           /\ \A name : Get(plugins, name) \in Listed(plugins) \cup {Nil}
           /\ \A p \in Listed(plugins) : Successor(plugins, p) \in Listed(plugins) \cup {Nil}
<1>1. plugins \in Seq(Plugs) /\ Once(plugins)
  BY DEF Kept, PlugInv
<1>2. /\ Listed(plugins) \subseteq Plugs /\ HeadOf(plugins) \in Listed(plugins) \cup {Nil}
      /\ plugins # <<>> => HeadOf(plugins) = plugins[1] /\ 1 \in DOMAIN plugins
      /\ plugins = <<>> => HeadOf(plugins) = Nil /\ Listed(plugins) = {}
  BY <1>1, HeadListed
<1>3. plugins # <<>> => HeadOf(plugins) \in Plugs
  BY <1>1, <1>2 DEF Listed
<1>4. \A p \in Listed(plugins) : Successor(plugins, p) \in Listed(plugins) \cup {Nil}
  BY <1>1, SuccessorListed
<1> QED
  BY <1>1, <1>2, <1>3, <1>4, GetListed, BotAssumption

LEMMA IsWalk ==
    ASSUME NEW p \in Plugs \cup {Nil}
    PROVE  /\ Reloading(p) \in Frame /\ Reloading(p).fn = "reload"
           /\ Unloading(p) \in Frame /\ Unloading(p).fn = "plugin_clear" /\ Unloading(p).p = p
BY DEF Reloading, Unloading, WalkFrame, Frame

\* A call that begins when nothing runs.
LEMMA IdleStep ==
    ASSUME BotInv, Idle, stack' \in Seq(Frame), UNCHANGED <<fault, plugVars, srvVars>>,
           \A i \in DOMAIN stack' : Fits(i)
    PROVE  BotInv'
<1>0. Kept /\ stack = <<>> /\ fault = "none"
  BY DEF BotInv, Idle
<1>1. Len(stack) = 0 /\ DOMAIN stack = {}
  BY <1>0, Nothing
<1>2. Len(stack') \in Nat /\ DOMAIN stack' = 1..Len(stack')
  BY LenProperties
<1>3. Cut(0)
  BY <1>1, <1>2 DEF Cut
<1>4. Kept'
  BY <1>0, SamePlugs, SameSrvs DEF Kept
<1>5. GoingOn(0) /\ ~(0 + 1 \in DOMAIN stack)
  BY <1>1, Settled DEF srvVars
<1> QED
  BY <1>0, <1>3, <1>4, <1>5, Spliced

LEMMA CommandStep ==
    ASSUME BotInv, cmd_server_disconnect_all \/ cmd_plugin_all
    PROVE  BotInv'
<1>0. Kept /\ SrvInv /\ Idle /\ stack = <<>> /\ fault = "none" /\ UNCHANGED <<fault, plugVars, srvVars>>
  BY DEF BotInv, Kept, Idle, cmd_server_disconnect_all, cmd_plugin_all
<1>1. Len(stack) = 0
  BY <1>0, Nothing
<1>2. CASE cmd_server_disconnect_all
  <2>1. PICK f : f = Clearing(HeadOf(servers))
    OBVIOUS
  <2>2. f \in Frame /\ f.fn = "server_clear" /\ Call(<<f>>)
    <3>1. HeadOf(servers) \in Srvs \cup {Nil}
      BY <1>0, ServersOps
    <3> QED
      BY <1>2, <2>1, <3>1, IsClearing DEF cmd_server_disconnect_all
  <2>3. stack' \in Seq(Frame) /\ DOMAIN stack' = 1..1 /\ stack'[1] = f
    BY <1>0, <1>1, <2>2, Called DEF Cut
  <2>4. Fits(1)
    <3>1. Lasts(1, stack[1])'
      BY <2>2, <2>3, LoopLasts
    <3> QED
      BY <2>2, <2>3, <3>1, Apart
  <2>5. \A i \in DOMAIN stack' : i = 1
    BY <2>3
  <2> QED
    BY <1>0, <2>3, <2>4, <2>5, IdleStep
<1>3. CASE cmd_plugin_all
  <2>0. PICK p : p = HeadOf(plugins)
    OBVIOUS
  <2>1. plugins # <<>> /\ p \in Plugs /\ plugins[1] = p
    BY <1>0, <1>3, <2>0, PluginsOps DEF cmd_plugin_all
  <2>2. CASE Call(<<Unloading(p)>>)
    <3>1. PICK f : f = Unloading(p)
      OBVIOUS
    <3>2. f \in Frame /\ f.fn = "plugin_clear" /\ f.p = p /\ Call(<<f>>)
      BY <2>1, <2>2, <3>1, IsWalk
    <3>3. stack' \in Seq(Frame) /\ DOMAIN stack' = 1..1 /\ stack'[1] = f
      BY <1>0, <1>1, <3>2, Called DEF Cut
    <3>4. Fits(1)
      <4>1. plugins' = plugins /\ p # Nil
        BY <1>0, <2>1, BotAssumption DEF plugVars
      <4>2. Lasts(1, f)'
        BY <2>1, <3>2, <4>1 DEF Lasts, Outermost
      <4>3. Lasts(1, stack[1])'
        BY <3>3, <4>2
      <4> QED
        BY <3>2, <3>3, <4>3, Apart
    <3>5. \A i \in DOMAIN stack' : i = 1
      BY <3>3
    <3> QED
      BY <1>0, <3>3, <3>4, <3>5, IdleStep
  <2>3. CASE Call(<<Reloading(p), Js(p, Nil)>>)
    <3>1. /\ Reloading(p) \in Frame /\ Reloading(p).fn = "reload"
          /\ Js(p, Nil) \in Frame /\ Js(p, Nil).fn = "js"
      BY <2>1, IsWalk, IsJs
    <3>2. /\ stack' \in Seq(Frame) /\ DOMAIN stack' = 1..2 /\ stack'[1] = Reloading(p)
          /\ stack'[2] = Js(p, Nil)
      BY <1>0, <1>1, <2>3, <3>1, CalledTwo DEF Cut
    <3>3. ASSUME NEW i \in DOMAIN stack' PROVE Fits(i)
      <4>1. stack'[i] \in {Reloading(p), Js(p, Nil)}
        BY <3>2
      <4>2. Lasts(i, stack[i])'
        BY <3>1, <4>1, JsLasts
      <4> QED
        BY <3>1, <4>1, <4>2, Apart
    <3> QED
      BY <1>0, <3>2, <3>3, IdleStep
  <2> QED
    BY <1>3, <2>0, <2>2, <2>3 DEF cmd_plugin_all
<1> QED
  BY <1>2, <1>3

LEMMA FinishStep ==
    ASSUME BotInv, irc_bot_finish
    PROVE  BotInv'
<1>0. Kept /\ SrvInv /\ fault = "none" /\ UNCHANGED <<fault, plugVars, srvVars>>
  BY DEF BotInv, Kept, irc_bot_finish, Idle, Running
<1>1. CASE Idle /\ Call(<<[fn |-> "finish", step |-> "plugins"], Clearing(HeadOf(servers))>>)
  <2>1. PICK f : f = [fn |-> "finish", step |-> "plugins"]
    OBVIOUS
  <2>2. PICK g : g = Clearing(HeadOf(servers))
    OBVIOUS
  <2>3. /\ f \in Frame /\ f.fn = "finish" /\ f.step = "plugins"
        /\ g \in Frame /\ g.fn = "server_clear"
    <3>1. HeadOf(servers) \in Srvs \cup {Nil}
      BY <1>0, ServersOps
    <3> QED
      BY <2>1, <2>2, <3>1, IsClearing DEF FinishFrame, Frame
  <2>4. /\ stack' \in Seq(Frame) /\ DOMAIN stack' = 1..2 /\ stack'[1] = f /\ stack'[2] = g
    <3>1. stack = <<>> /\ Call(<<f, g>>)
      BY <1>1, <2>1, <2>2 DEF Idle
    <3>2. Len(stack) = 0
      BY <3>1, Nothing
    <3> QED
      BY <1>0, <2>3, <3>1, <3>2, CalledTwo DEF Cut
  <2>5. Fits(1)
    <3>1. Lasts(1, f)'
      BY <2>3 DEF Lasts, Outermost
    <3>2. Lasts(1, stack[1])'
      BY <2>4, <3>1
    <3> QED
      BY <2>3, <2>4, <3>2, Apart
  <2>6. Fits(2)
    <3>1. Lasts(2, stack[2])'
      BY <2>3, <2>4, LoopLasts
    <3> QED
      BY <2>3, <2>4, <3>1, Apart
  <2>7. \A i \in DOMAIN stack' : i = 1 \/ i = 2
    BY <2>4
  <2> QED
    BY <1>0, <1>1, <2>4, <2>5, <2>6, <2>7, IdleStep
<1>2. CASE /\ Running("finish") /\ Top.step = "plugins"
           /\ stack' = Over([Top EXCEPT !.step = "end"]) \o <<Unloading(HeadOf(plugins))>>
  <2>1. PICK f : f = [Top EXCEPT !.step = "end"]
    OBVIOUS
  <2>2. PICK g : g = Unloading(HeadOf(plugins))
    OBVIOUS
  <2>3. /\ stack # <<>> /\ Len(stack) \in DOMAIN stack /\ stack[Len(stack)] = Top
        /\ Top \in Frame /\ Top.fn = "finish"
    BY <1>0, <1>2, Topmost DEF Running
  <2>4. Len(stack) = 1
    <3>1. Lasts(Len(stack), stack[Len(stack)])
      BY <2>3 DEF BotInv
    <3> QED
      BY <2>3, <3>1 DEF Lasts, Outermost
  <2>5. f \in Frame /\ f.fn = "finish" /\ g \in Frame /\ g.fn = "plugin_clear" /\ g.p = HeadOf(plugins)
    <3>1. Top \in FinishFrame
      BY <2>3, Kinds
    <3> QED
      BY <1>0, <2>1, <2>2, <3>1, PluginsOps, IsWalk DEF FinishFrame, Frame
  <2>6. /\ Cut(0) /\ DOMAIN stack' = 1..2 /\ stack'[1] = f /\ stack'[2] = g /\ stack' \in Seq(Frame)
    <3>1. stack' = Over(f) \o <<g>>
      BY <1>2, <2>1, <2>2
    <3>2. /\ Cut(Len(stack) - 1) /\ Len(stack') = Len(stack) + 1
          /\ stack'[Len(stack)] = f /\ stack'[Len(stack) + 1] = g
      BY <1>0, <2>3, <2>5, <3>1, WentCalling
    <3> QED
      BY <2>4, <3>2 DEF Cut
  <2>7. plugins' = plugins
    BY <1>0 DEF plugVars
  <2>8. Fits(1)
    <3>1. Lasts(1, f)'
      BY <2>5, <2>6 DEF Lasts, Outermost
    <3>2. Lasts(1, stack[1])'
      BY <2>6, <3>1
    <3> QED
      BY <2>5, <2>6, <3>2, Apart
  <2>9. Fits(2)
    <3>1. /\ g.p = Nil => plugins = <<>>
          /\ g.p \in Listed(plugins) => plugins[1] = g.p
      BY <1>0, <2>5, PluginsOps
    <3>2. Lasts(2, g)'
      BY <2>5, <2>6, <2>7, <3>1 DEF Lasts, Outermost, Listed
    <3>3. Lasts(2, stack[2])'
      BY <2>6, <3>2
    <3> QED
      BY <2>5, <2>6, <3>3, Apart
  <2>10. \A i \in DOMAIN stack' : i = 1 \/ i = 2
    BY <2>6
  <2>11. Kept' /\ GoingOn(0)
    BY <1>0, <2>6, SamePlugs, SameSrvs, Settled DEF Kept, srvVars
  <2>12. 0 + 1 = 1 /\ stack[1].fn = "finish"
    BY <2>3, <2>4
  <2> QED
    BY <1>0, <2>6, <2>8, <2>9, <2>10, <2>11, <2>12, Spliced
<1> QED
  BY <1>1, <1>2 DEF irc_bot_finish

LEMMA ReloadStep ==
    ASSUME BotInv, cmd_plugin_reload
    PROVE  BotInv'
<1>0. /\ Kept /\ SrvInv /\ stack # <<>> /\ fault = "none" /\ Top.fn = "reload"
  BY DEF BotInv, Kept, cmd_plugin_reload, Running
<1>1. PICK p : p = Top.p
  OBVIOUS
<1>2. PICK q : q = Successor(plugins, p)
  OBVIOUS
<1>3. \/ Return /\ UNCHANGED <<fault, plugVars, srvVars>>
      \/ Crash("freed")
      \/ Goto(Reloading(Nil)) /\ UNCHANGED <<fault, plugVars, srvVars>>
      \/ /\ p \in Listed(plugins) /\ q # Nil
         /\ stack' = Over(Reloading(q)) \o <<Js(q, Nil)>>
         /\ UNCHANGED <<fault, plugVars, srvVars>>
  BY <1>1, <1>2 DEF cmd_plugin_reload, Skip
<1>4. CASE Return /\ UNCHANGED <<fault, plugVars, srvVars>>
  <2>1. SrvInv' /\ GoingOn(Len(stack) - 1)
    BY <1>0, <1>4, SameSrvs, Settled DEF srvVars
  <2> QED
    BY <1>0, <1>4, <2>1, PopStep
<1>5. CASE Goto(Reloading(Nil)) /\ UNCHANGED <<fault, plugVars, srvVars>>
  <2>1. Reloading(Nil) \in Frame /\ Reloading(Nil).fn = "reload"
    BY IsWalk
  <2> QED
    BY <1>0, <1>5, <2>1, LoopStep
<1>6. CASE /\ p \in Listed(plugins) /\ q # Nil
           /\ stack' = Over(Reloading(q)) \o <<Js(q, Nil)>>
           /\ UNCHANGED <<fault, plugVars, srvVars>>
  <2>1. q \in Plugs
    BY <1>0, <1>2, <1>6, PluginsOps
  <2>2. /\ Reloading(q) \in Frame /\ Reloading(q).fn = "reload"
        /\ Js(q, Nil) \in Frame /\ Js(q, Nil).fn = "js"
    BY <2>1, IsWalk, IsJs
  <2>3. /\ Len(stack) \in Nat /\ Len(stack) >= 1 /\ DOMAIN stack = 1..Len(stack)
        /\ stack[Len(stack)] = Top
    BY <1>0, Topmost
  <2> DEFINE k == Len(stack) - 1
  <2>4. k \in Nat /\ k + 1 = Len(stack) /\ k + 1 \in DOMAIN stack /\ stack[k + 1] = Top
    BY <2>3
  <2>5. Cut(k) /\ Len(stack') = k + 2 /\ stack'[k + 1] = Reloading(q) /\ stack'[k + 2] = Js(q, Nil)
    BY <1>0, <1>6, <2>2, <2>4, WentCalling
  <2> HIDE DEF k
  <2>6. Kept' /\ GoingOn(k)
    BY <1>0, <1>6, <2>5, SamePlugs, SameSrvs, Settled DEF Kept, Cut, srvVars
  <2>7. ASSUME NEW i \in DOMAIN stack', i > k PROVE Fits(i)
    <3>1. stack'[i] \in {Reloading(q), Js(q, Nil)}
      BY <2>4, <2>5, <2>7 DEF Cut
    <3>2. Lasts(i, stack[i])'
      BY <2>2, <3>1, JsLasts
    <3> QED
      BY <2>2, <3>1, <3>2, Apart
  <2> QED
    BY <1>0, <1>6, <2>4, <2>5, <2>6, <2>7, Spliced
<1> QED
  BY <1>3, <1>4, <1>5, <1>6, CrashStep

LEMMA EnterStep ==
    ASSUME BotInv, NEW p \in Plugs, Plugin_reload(NameOf[p]) \/ stimer_cb(p)
    PROVE  BotInv'
<1>0. Kept /\ fault = "none"
  BY DEF BotInv, Plugin_reload, stimer_cb, Script, Running, Idle
<1>1. CASE stimer_cb(p)
  BY <1>0, <1>1, JsStep DEF stimer_cb
<1>2. CASE Plugin_reload(NameOf[p])
  <2>1. PICK q : q = Get(plugins, NameOf[p])
    OBVIOUS
  <2>2. \/ Crash("null")
        \/ q # Nil /\ Call(<<Js(q, Nil)>>) /\ UNCHANGED <<fault, plugVars, srvVars>>
    BY <1>2, <2>1 DEF Plugin_reload
  <2>3. q \in Plugs \cup {Nil}
    BY <1>0, <2>1, PluginsOps
  <2> QED
    BY <1>0, <2>2, <2>3, JsStep, CrashStep
<1> QED
  BY <1>1, <1>2

-----------------------------------------------------------------------------
(* Steps that change the list of plugins.                                  *)

\* A dispatch that is under way when a plugin is taken out of the list.
LEMMA OffersLeave ==
    ASSUME Kept, NEW p \in Plugs, plugins' = LL_DELETE(plugins, p),
           NEW f \in DispatchFrames, Offers(f), NEW g, g = [f EXCEPT !.stayed = @ \ {p}]
    PROVE  Offers(g)' /\ g \in DispatchFrames
<1>1. plugins \in Seq(Plugs) /\ Once(plugins)
  BY DEF Kept, PlugInv
<1>2. /\ Listed(plugins') = Listed(plugins) \ {p}
      /\ \A i, j \in DOMAIN plugins' : \E a, b \in DOMAIN plugins :
            /\ plugins'[i] = plugins[a] /\ plugins'[j] = plugins[b]
            /\ i < j => a < b
            /\ i >= j => a >= b
  <2> DEFINE new == LL_DELETE(plugins, p)
  <2>1. /\ Listed(new) = Listed(plugins) \ {p}
        /\ \A i, j \in DOMAIN new : \E a, b \in DOMAIN plugins :
              /\ new[i] = plugins[a] /\ new[j] = plugins[b]
              /\ i < j => a < b
              /\ i >= j => a >= b
    BY <1>1, DeleteOps, ZenonT(40)
  <2>2. plugins' = new
    OBVIOUS
  <2> HIDE DEF new
  <2> QED
    BY <2>1, <2>2
<1>3. /\ g \in DispatchFrames /\ g.p = f.p /\ g.stayed = f.stayed \ {p} /\ g.step = f.step
      /\ g.type = f.type /\ g.calls = f.calls /\ g.cmd = f.cmd /\ g.seen = f.seen
  BY DEF DispatchFrames
<1>4. \A q : (is_command(q, g)' <=> is_command(q, f)) /\ (Offered(q, g)' <=> Offered(q, f))
  BY <1>3 DEF is_command, Offered
<1>5. g.stayed = Listed(plugins)'
  <2>1. Listed(plugins)' = Listed(plugins')
    BY DEF Listed
  <2> QED
    BY <1>2, <1>3, <2>1 DEF Offers
<1>6. g.step = "plugins" => \A i, j \in DOMAIN plugins' : plugins'[j] = g.p =>
          /\ i < j => Offered(plugins[i], g)'
          /\ i >= j => g.seen[plugins'[i]] = 0 /\ plugins'[i] # g.cmd
  <2> SUFFICES ASSUME f.step = "plugins", NEW i \in DOMAIN plugins', NEW j \in DOMAIN plugins',
                      plugins'[j] = g.p
               PROVE  /\ i < j => Offered(plugins[i], g)'
                      /\ i >= j => g.seen[plugins'[i]] = 0 /\ plugins'[i] # g.cmd
    BY <1>3
  <2>1. PICK a \in DOMAIN plugins, b \in DOMAIN plugins :
           /\ plugins'[i] = plugins[a] /\ plugins'[j] = plugins[b]
           /\ i < j => a < b
           /\ i >= j => a >= b
    BY <1>2
  <2>2. PICK q : q = plugins[a]
    OBVIOUS
  <2>3. /\ a < b => Offered(q, f)
        /\ a >= b => f.seen[q] = 0 /\ q # f.cmd
    BY <1>3, <2>1, <2>2 DEF Offers
  <2>4. plugins'[i] = q /\ (i < j => Offered(q, g)')
    BY <1>4, <2>1, <2>2, <2>3
  <2> QED
    BY <1>3, <2>1, <2>3, <2>4
<1>7. /\ g.cmd # Nil => is_command(g.cmd, g)'
      /\ \A q \in Plugs : g.seen[q] <= 1
      /\ g.step \in {"plugins", "command"} => \A q \in Plugs : q = g.cmd => g.seen[q] = 0
      /\ g.step = "plugins" /\ g.p = Nil => \A q \in g.stayed : Offered(q, g)'
      /\ g.step = "command" => \A q \in g.stayed : Offered(q, g)'
      /\ g.step = "observe" =>
            \A q \in g.stayed : g.seen[q] = 1 \/ (g.seen[q] = 0 /\ is_command(q, g)' /\ g.cmd # Nil)
  BY <1>3, <1>4 DEF Offers
<1> QED
  BY <1>3, <1>5, <1>6, <1>7 DEF Offers

LEMMA LeaveOps ==
    ASSUME NEW p \in Plugs, NEW below \in Seq(Frame)
    PROVE  /\ Leave(p, below) \in Seq(Frame) /\ Len(Leave(p, below)) = Len(below)
           /\ DOMAIN Leave(p, below) = DOMAIN below
           /\ \A i \in DOMAIN below :
                /\ Leave(p, below)[i] \in Frame
                /\ below[i].fn # "dispatch" => Leave(p, below)[i] = below[i]
                /\ below[i].fn = "dispatch" => /\ Leave(p, below)[i] = [below[i] EXCEPT !.stayed = @ \ {p}]
                                               /\ Leave(p, below)[i].fn = "dispatch"
<1>1. Len(below) \in Nat /\ DOMAIN below = 1..Len(below) /\ \A i \in DOMAIN below : below[i] \in Frame
  BY LenProperties
<1> DEFINE out == Leave(p, below)
<1>2. /\ DOMAIN out = DOMAIN below /\ out = [i \in DOMAIN below |-> out[i]]
      /\ \A i \in DOMAIN below :
           out[i] = IF below[i].fn = "dispatch" THEN [below[i] EXCEPT !.stayed = @ \ {p}] ELSE below[i]
  BY DEF Leave
<1> HIDE DEF out
<1>3. ASSUME NEW i \in DOMAIN below
      PROVE  /\ out[i] \in Frame
             /\ below[i].fn # "dispatch" => out[i] = below[i]
             /\ below[i].fn = "dispatch" => out[i] = [below[i] EXCEPT !.stayed = @ \ {p}] /\ out[i].fn = "dispatch"
  <2>1. PICK f : f = below[i]
    OBVIOUS
  <2>2. f \in Frame
    BY <1>1, <2>1
  <2>3. CASE f.fn # "dispatch"
    BY <1>2, <2>1, <2>2, <2>3
  <2>4. CASE f.fn = "dispatch"
    <3>1. f \in DispatchFrames
      BY <2>2, <2>4, Kinds
    <3>2. [f EXCEPT !.stayed = @ \ {p}] \in DispatchFrames /\ [f EXCEPT !.stayed = @ \ {p}].fn = "dispatch"
      BY <3>1 DEF DispatchFrames
    <3> QED
      BY <1>2, <2>1, <2>4, <3>2 DEF Frame
  <2> QED
    BY <2>3, <2>4
<1>4. out \in [1..Len(below) -> Frame]
  BY <1>1, <1>2, <1>3
<1>5. out \in Seq(Frame)
  BY <1>1, <1>4, SeqDef
<1>6. Len(out) = Len(below)
  BY <1>1, <1>2, <1>5, LenProperties
<1> QED
  BY <1>2, <1>3, <1>5, <1>6 DEF out

\* irc_bot_plugin_remove, called by a script, by a command or by irc_bot_plugin_clear,
\* whose frame goes on at the next plugin.
LEMMA RemovePlugin ==
    ASSUME BotInv, fault = "none", NEW p \in Listed(plugins), NEW below \in Seq(Frame),
           irc_bot_plugin_remove(p, below), DOMAIN below = DOMAIN stack,
           \A i \in DOMAIN stack :
              \/ below[i] = stack[i]
              \/ /\ stack[i].fn = "plugin_clear" /\ stack[i].p = p
                 /\ below[i] = Unloading(Successor(plugins, p))
    PROVE  BotInv'
<1>0. /\ Kept /\ SrvInv /\ PlugInv /\ LoadedListed /\ UnloadingNow
      /\ \A i \in DOMAIN stack : Lasts(i, stack[i])
      /\ \A i, j \in DOMAIN stack : i # j => Pair(stack[i], stack[j])
      /\ \A i \in DOMAIN stack : stack[i].fn = "dispatch" => Offers(stack[i])
  BY DEF BotInv, Kept
<1>1. /\ plugins \in Seq(Plugs) /\ Once(plugins) /\ Listed(plugins) \subseteq Plugs /\ p \in Plugs
      /\ Nil \notin Listed(plugins) /\ plugins # <<>> /\ p # Nil
      /\ Successor(plugins, p) \in Plugs \cup {Nil} /\ stack \in Seq(Frame)
  BY <1>0, PluginsOps DEF Kept
<1>2. /\ plugins' = LL_DELETE(plugins, p) /\ life' = [life EXCEPT ![p] = "unloading"]
      /\ UNCHANGED <<fault, srvVars>>
      /\ stack' = Leave(p, below) \o <<[fn |-> "plugin_remove", p |-> p], Js(p, Nil)>>
  BY DEF irc_bot_plugin_remove
<1>3. PICK u : u = [fn |-> "plugin_remove", p |-> p]
  OBVIOUS
<1>4. PICK v : v = Js(p, Nil)
  OBVIOUS
<1>5. /\ u \in Frame /\ u.fn = "plugin_remove" /\ u.p = p
      /\ v \in Frame /\ v.fn = "js"
  BY <1>1, <1>3, <1>4, IsJs DEF UnloadFrame, Frame
<1>6. PICK n : n = Len(stack)
  OBVIOUS
<1>7. n \in Nat /\ DOMAIN stack = 1..n /\ Len(below) = n /\ \A i \in 1..n : stack[i] \in Frame /\ below[i] \in Frame
  BY <1>1, <1>6, LenProperties
<1>8. /\ stack' \in Seq(Frame) /\ DOMAIN stack' = 1..(n + 2)
      /\ stack'[n + 1] = u /\ stack'[n + 2] = v
      /\ \A i \in 1..n : stack'[i] = Leave(p, below)[i]
  <2> DEFINE out == Leave(p, below)
  <2>1. out \in Seq(Frame) /\ Len(out) = n
    BY <1>1, <1>7, LeaveOps
  <2>2. stack' = out \o <<u, v>>
    BY <1>2, <1>3, <1>4
  <2> HIDE DEF out
  <2>3. /\ out \o <<u, v>> \in Seq(Frame) /\ DOMAIN (out \o <<u, v>>) = 1..(Len(out) + 2)
        /\ \A i \in 1..Len(out) : (out \o <<u, v>>)[i] = out[i]
        /\ (out \o <<u, v>>)[Len(out) + 1] = u /\ (out \o <<u, v>>)[Len(out) + 2] = v
    BY <1>5, <2>1, TwoMore
  <2> QED
    BY <2>1, <2>2, <2>3 DEF out
<1>9. \A i \in 1..n : /\ stack'[i].fn = stack[i].fn
                      /\ \/ stack[i].fn # "dispatch" /\ stack'[i] = stack[i]
                         \/ /\ stack[i].fn = "dispatch"
                            /\ stack'[i] = [stack[i] EXCEPT !.stayed = @ \ {p}]
                         \/ /\ stack[i].fn = "plugin_clear" /\ stack[i].p = p
                            /\ stack'[i] = Unloading(Successor(plugins, p))
  <2> TAKE i \in 1..n
  <2>1. /\ below[i].fn # "dispatch" => stack'[i] = below[i]
        /\ below[i].fn = "dispatch" => stack'[i] = [below[i] EXCEPT !.stayed = @ \ {p}] /\ stack'[i].fn = "dispatch"
    <3> DEFINE out == Leave(p, below)
    <3>1. \A j \in DOMAIN below :
            /\ below[j].fn # "dispatch" => out[j] = below[j]
            /\ below[j].fn = "dispatch" => out[j] = [below[j] EXCEPT !.stayed = @ \ {p}] /\ out[j].fn = "dispatch"
      BY <1>1, LeaveOps
    <3>2. i \in DOMAIN below /\ stack'[i] = out[i]
      BY <1>7, <1>8
    <3> HIDE DEF out
    <3> QED
      BY <3>1, <3>2
  <2>2. CASE below[i] = stack[i]
    BY <2>1, <2>2
  <2>3. CASE /\ stack[i].fn = "plugin_clear" /\ stack[i].p = p
             /\ below[i] = Unloading(Successor(plugins, p))
    BY <1>1, <2>1, <2>3, IsWalk
  <2> QED
    BY <1>7, <2>2, <2>3
<1>10. \A i \in DOMAIN stack' : i \in 1..n \/ i = n + 1 \/ i = n + 2
  BY <1>7, <1>8
<1>11. /\ plugins' \in Seq(Plugs) /\ Once(plugins)' /\ Listed(plugins)' = Listed(plugins) \ {p}
       /\ \A y : 1 \in DOMAIN plugins /\ plugins[1] = y /\ y \in Listed(plugins)' => plugins'[1] = y
       /\ plugins[1] = p => HeadOf(plugins') = Successor(plugins, p)
  <2> DEFINE new == LL_DELETE(plugins, p)
  <2>1. /\ new \in Seq(Plugs) /\ Once(new) /\ Listed(new) = Listed(plugins) \ {p}
        /\ \A y : 1 \in DOMAIN plugins /\ plugins[1] = y /\ y \in Listed(new) => new[1] = y
        /\ 1 \in DOMAIN plugins /\ plugins[1] = p => HeadOf(new) = Successor(plugins, p)
    BY <1>1, DeleteOps
  <2>2. plugins' = new /\ 1 \in DOMAIN plugins
    BY <1>1, <1>2, HeadListed
  <2> HIDE DEF new
  <2>3. Once(plugins)' <=> Once(new)
    BY <2>2 DEF Once
  <2>4. Listed(plugins)' = Listed(new) /\ HeadOf(plugins') = HeadOf(new)
    BY <2>2 DEF Listed, HeadOf
  <2> QED
    BY <2>1, <2>2, <2>3, <2>4
<1>12. life[p] = "loaded" /\ life \in [Plugs -> {"closed", "open", "loaded", "leaked", "unloading"}]
  BY <1>0, <1>1 DEF LoadedListed, PlugInv
<1>13. life'[p] = "unloading" /\ \A q \in Plugs : q # p => life'[q] = life[q]
  BY <1>1, <1>2, <1>12
<1>14. Kept'
  <2>1. PlugInv'
    BY <1>2, <1>11, <1>12 DEF PlugInv
  <2>2. SrvInv'
    BY <1>0, <1>2, SameSrvs
  <2> QED
    BY <1>0, <1>2, <1>8, <2>1, <2>2 DEF Kept
<1>15. LoadedListed'
  BY <1>0, <1>1, <1>11, <1>13 DEF LoadedListed
<1>16. UnloadingNow'
  <2> SUFFICES ASSUME NEW q \in Plugs, life'[q] = "unloading"
               PROVE  \E i \in DOMAIN stack' : stack'[i].fn = "plugin_remove" /\ stack'[i].p = q
    BY DEF UnloadingNow
  <2>1. CASE q = p
    BY <1>5, <1>7, <1>8, <2>1
  <2>2. CASE q # p
    <3>1. PICK i \in DOMAIN stack : stack[i].fn = "plugin_remove" /\ stack[i].p = q
      BY <1>0, <1>13, <2>2 DEF UnloadingNow
    <3>2. i \in 1..n /\ i \in 1..(n + 2)
      BY <1>7
    <3>3. stack'[i] = stack[i]
      BY <1>9, <3>1, <3>2
    <3> QED
      BY <1>8, <3>1, <3>2, <3>3
  <2> QED
    BY <2>1, <2>2
<1>17. \A i \in 1..n : stack[i].fn = "plugin_clear" =>
          /\ stack'[i].p = Nil => plugins' = <<>>
          /\ stack'[i].p \in Listed(plugins)' => plugins'[1] = stack'[i].p
  <2> SUFFICES ASSUME NEW i \in 1..n, stack[i].fn = "plugin_clear"
               PROVE  /\ stack'[i].p = Nil => plugins' = <<>>
                      /\ stack'[i].p \in Listed(plugins)' => plugins'[1] = stack'[i].p
    OBVIOUS
  <2>1. PICK f : f = stack[i]
    OBVIOUS
  <2>2. f.p \in Listed(plugins) => plugins[1] = f.p
    BY <1>0, <1>7, <2>1 DEF Lasts
  <2>3. f.p # Nil
    <3>1. Lasts(i, f)
      BY <1>0, <1>7, <2>1
    <3> QED
      BY <1>1, <2>1, <3>1 DEF Lasts
  <2>4. 1 \in DOMAIN plugins
    BY <1>1, HeadListed
  <2>5. CASE stack'[i] = f
    BY <1>11, <2>2, <2>3, <2>4, <2>5
  <2>6. CASE f.p = p /\ stack'[i] = Unloading(Successor(plugins, p))
    <3>1. stack'[i].p = Successor(plugins, p)
      BY <1>1, <2>6, IsWalk
    <3>2. HeadOf(plugins') = stack'[i].p
      BY <1>11, <2>2, <2>6, <3>1
    <3>3. /\ plugins' # <<>> => HeadOf(plugins') = plugins'[1] /\ plugins'[1] \in Plugs
          /\ plugins' = <<>> => Listed(plugins') = {}
      BY <1>11, HeadListed
    <3>4. Listed(plugins)' = Listed(plugins')
      BY DEF Listed
    <3> QED
      BY <3>2, <3>3, <3>4, BotAssumption
  <2> QED
    BY <1>9, <2>1, <2>5, <2>6
<1>18. ASSUME NEW i \in DOMAIN stack' PROVE Lasts(i, stack[i])'
  <2>1. CASE i \in 1..n
    <3>1. PICK f : f = stack[i]
      OBVIOUS
    <3>2. PICK g : g = stack'[i]
      OBVIOUS
    <3>3. Lasts(i, f) /\ g.fn = f.fn
      BY <1>0, <1>7, <1>9, <2>1, <3>1, <3>2
    <3>4. f.fn \notin {"dispatch", "plugin_clear"} => g = f
      BY <1>9, <2>1, <3>1, <3>2
    <3>5. g.fn \in {"plugin_add", "finish"} => i = 1
      BY <3>3 DEF Lasts, Outermost
    <3>6. g.fn \in {"plugin_clear", "server_clear"} => i = 1 \/ (i = 2 /\ stack'[1].fn = "finish")
      <4>1. i = 2 => 1 \in 1..n
        BY <1>7, <2>1
      <4> QED
        BY <1>9, <3>3, <4>1 DEF Lasts, Outermost
    <3>7. g.fn = "plugin_remove" => life'[g.p] = "unloading"
      <4> SUFFICES ASSUME g.fn = "plugin_remove"
                   PROVE  life'[g.p] = "unloading"
        OBVIOUS
      <4>1. g = f /\ life[f.p] = "unloading" /\ f \in UnloadFrame
        BY <1>7, <2>1, <3>1, <3>3, <3>4, Kinds DEF Lasts
      <4> QED
        BY <1>13, <4>1 DEF UnloadFrame
    <3>8. g.fn = "plugin_add" => life'[g.p] = "open"
      <4> SUFFICES ASSUME g.fn = "plugin_add"
                   PROVE  life'[g.p] = "open"
        OBVIOUS
      <4>1. g = f /\ life[f.p] = "open" /\ f \in AddFrame
        BY <1>7, <2>1, <3>1, <3>3, <3>4, Kinds DEF Lasts
      <4> QED
        BY <1>12, <1>13, <4>1 DEF AddFrame
    <3>9. g.fn = "plugin_clear" =>
             /\ g.p = Nil => plugins' = <<>>
             /\ g.p \in Listed(plugins)' => plugins'[1] = g.p
      BY <1>17, <2>1, <3>1, <3>2, <3>3
    <3>10. g.fn = "server_remove" => g.s \in twice' \/ (g.s \in Listed(servers)' /\ g.s \notin conn')
      BY <1>2, <3>3, <3>4 DEF Lasts, Listed, srvVars
    <3>11. g.fn = "finish" /\ g.step = "end" => 2 \in DOMAIN stack' /\ stack'[2].fn = "plugin_clear"
      <4> SUFFICES ASSUME g.fn = "finish", g.step = "end"
                   PROVE  2 \in DOMAIN stack' /\ stack'[2].fn = "plugin_clear"
        OBVIOUS
      <4>1. 2 \in DOMAIN stack /\ stack[2].fn = "plugin_clear"
        BY <1>1, <3>3, <3>4 DEF Lasts
      <4>2. 2 \in 1..n /\ 2 \in 1..(n + 2)
        BY <1>7, <4>1
      <4> QED
        BY <1>8, <1>9, <4>1, <4>2
    <3>12. Lasts(i, g)'
      BY <3>5, <3>6, <3>7, <3>8, <3>9, <3>10, <3>11 DEF Lasts, Outermost
    <3> QED
      BY <3>2, <3>12
  <2>2. CASE i = n + 1
    <3>1. Lasts(i, u)'
      BY <1>5, <1>13 DEF Lasts, Outermost
    <3> QED
      BY <1>8, <2>2, <3>1
  <2>3. CASE i = n + 2
    BY <1>5, <1>8, <2>3, JsLasts
  <2> QED
    BY <1>10, <2>1, <2>2, <2>3
<1>19. \A i \in 1..n : stack'[i].fn = "plugin_remove" => stack'[i].p # p
  <2> SUFFICES ASSUME NEW i \in 1..n, stack'[i].fn = "plugin_remove"
               PROVE  stack'[i].p # p
    OBVIOUS
  <2>1. stack'[i] = stack[i]
    BY <1>9
  <2>2. life[stack[i].p] = "unloading"
    BY <1>0, <1>7, <2>1 DEF Lasts
  <2> QED
    BY <1>12, <2>1, <2>2
<1>20. ASSUME NEW i \in DOMAIN stack', NEW j \in DOMAIN stack', i # j PROVE Pair(stack[i], stack[j])'
  <2>1. CASE i \in 1..n /\ j \in 1..n
    <3>1. Pair(stack[i], stack[j])
      BY <1>0, <1>7, <1>20, <2>1
    <3>2. /\ stack'[i].fn = stack[i].fn /\ stack'[j].fn = stack[j].fn
          /\ stack[i].fn \in {"plugin_remove", "server_remove"} => stack'[i] = stack[i]
          /\ stack[j].fn \in {"plugin_remove", "server_remove"} => stack'[j] = stack[j]
      BY <1>9, <2>1
    <3> QED
      BY <1>2, <3>1, <3>2 DEF Pair, srvVars
  <2>2. CASE i = n + 1 \/ j = n + 1 \/ i = n + 2 \/ j = n + 2
    BY <1>5, <1>7, <1>8, <1>10, <1>19, <1>20, <2>2 DEF Pair
  <2> QED
    BY <1>10, <2>1, <2>2
<1>21. ASSUME NEW i \in DOMAIN stack', stack'[i].fn = "dispatch" PROVE Offers(stack[i])'
  <2>1. i \in 1..n
    BY <1>5, <1>8, <1>10, <1>21
  <2>2. PICK f : f = stack[i]
    OBVIOUS
  <2>3. PICK g : g = [f EXCEPT !.stayed = @ \ {p}]
    OBVIOUS
  <2>4. f.fn = "dispatch" /\ stack'[i] = g /\ f \in DispatchFrames /\ Offers(f)
    BY <1>0, <1>7, <1>9, <1>21, <2>1, <2>2, <2>3, Kinds
  <2>5. Offers(g)'
    BY <1>0, <1>1, <1>2, <2>3, <2>4, OffersLeave
  <2> QED
    BY <2>4, <2>5
<1> QED
  BY <1>14, <1>15, <1>16, <1>18, <1>20, <1>21 DEF BotInv

LEMMA UnloadStep ==
    ASSUME BotInv, NEW p \in Plugs, Plugin_unload(NameOf[p]) \/ cmd_plugin_unload(p)
    PROVE  BotInv'
<1>0. Kept /\ stack \in Seq(Frame) /\ fault = "none"
  BY DEF BotInv, Kept, Plugin_unload, cmd_plugin_unload, Script, Running, Idle
<1>1. CASE Plugin_unload(NameOf[p])
  <2>1. PICK q : q = Get(plugins, NameOf[p])
    OBVIOUS
  <2>2. Crash("null") \/ (q # Nil /\ irc_bot_plugin_remove(q, stack))
    BY <1>1, <2>1 DEF Plugin_unload
  <2>3. q # Nil => q \in Listed(plugins)
    BY <1>0, <2>1, PluginsOps
  <2> QED
    BY <1>0, <2>2, <2>3, CrashStep, RemovePlugin
<1>2. CASE cmd_plugin_unload(p)
  <2>1. p \in Listed(plugins) /\ irc_bot_plugin_remove(p, stack)
    BY <1>2 DEF cmd_plugin_unload, Idle
  <2> QED
    BY <1>0, <2>1, RemovePlugin
<1> QED
  BY <1>1, <1>2

LEMMA PluginClearStep ==
    ASSUME BotInv, irc_bot_plugin_clear
    PROVE  BotInv'
<1>0. /\ Kept /\ SrvInv /\ stack # <<>> /\ fault = "none" /\ Top.fn = "plugin_clear"
  BY DEF BotInv, Kept, irc_bot_plugin_clear, Running
<1>1. PICK p : p = Top.p
  OBVIOUS
<1>2. /\ Len(stack) \in Nat /\ Len(stack) >= 1 /\ DOMAIN stack = 1..Len(stack)
      /\ stack[Len(stack)] = Top /\ Top \in Frame /\ Len(stack) \in DOMAIN stack
  BY <1>0, Topmost
<1>3. \/ p = Nil /\ Return /\ plugins' = <<>> /\ UNCHANGED <<fault, life, srvVars>>
      \/ Crash("freed")
      \/ p \in Listed(plugins) /\ irc_bot_plugin_remove(p, Over(Unloading(Successor(plugins, p))))
  BY <1>1 DEF irc_bot_plugin_clear
<1>4. CASE p = Nil /\ Return /\ plugins' = <<>> /\ UNCHANGED <<fault, life, srvVars>>
  <2>1. plugins = <<>>
    <3>1. Lasts(Len(stack), stack[Len(stack)])
      BY <1>2 DEF BotInv
    <3> QED
      BY <1>0, <1>1, <1>2, <1>4, <3>1 DEF Lasts
  <2>2. UNCHANGED <<fault, plugVars>>
    BY <1>4, <2>1 DEF plugVars
  <2>3. SrvInv' /\ GoingOn(Len(stack) - 1)
    BY <1>0, <1>4, SameSrvs, Settled DEF srvVars
  <2> QED
    BY <1>0, <1>4, <2>1, <2>2, <2>3, PopStep
<1>5. CASE p \in Listed(plugins) /\ irc_bot_plugin_remove(p, Over(Unloading(Successor(plugins, p))))
  <2>1. PICK g : g = Unloading(Successor(plugins, p))
    OBVIOUS
  <2>2. g \in Frame
    <3>1. Successor(plugins, p) \in Plugs \cup {Nil}
      BY <1>0, <1>5, PluginsOps
    <3> QED
      BY <2>1, <3>1, IsWalk
  <2>3. PICK below : below = Over(g)
    OBVIOUS
  <2>4. /\ below \in Seq(Frame) /\ DOMAIN below = DOMAIN stack
        /\ \A i \in DOMAIN stack : i # Len(stack) => below[i] = stack[i]
        /\ below[Len(stack)] = g
    BY <1>0, <2>2, <2>3, OverOps
  <2>5. \A i \in DOMAIN stack :
           \/ below[i] = stack[i]
           \/ /\ stack[i].fn = "plugin_clear" /\ stack[i].p = p
              /\ below[i] = Unloading(Successor(plugins, p))
    BY <1>0, <1>1, <1>2, <2>1, <2>4
  <2>6. irc_bot_plugin_remove(p, below)
    BY <1>5, <2>1, <2>3
  <2> QED
    BY <1>0, <1>5, <2>4, <2>5, <2>6, RemovePlugin
<1> QED
  BY <1>3, <1>4, <1>5, CrashStep

\* The call about a plugin ends that left it neither loaded nor about to be unloaded.
LEMMA PopPlugin ==
    ASSUME BotInv, stack # <<>>, fault = "none", Return, NEW p \in Plugs, Top.p = p,
           Top.fn \in {"plugin_remove", "plugin_add"},
           NEW w \in {"closed", "leaked"}, life' = [life EXCEPT ![p] = w],
           UNCHANGED <<fault, plugins>>, SrvInv', GoingOn(Len(stack) - 1)
    PROVE  BotInv'
<1>0. /\ Kept /\ PlugInv /\ LoadedListed /\ UnloadingNow
      /\ \A i \in DOMAIN stack : Lasts(i, stack[i])
      /\ \A i, j \in DOMAIN stack : i # j => Pair(stack[i], stack[j])
      /\ \A i \in DOMAIN stack : stack[i].fn = "dispatch" => Offers(stack[i])
  BY DEF BotInv, Kept
<1>1. PICK n : n = Len(stack)
  OBVIOUS
<1>2. /\ n \in Nat /\ n >= 1 /\ DOMAIN stack = 1..n /\ n \in DOMAIN stack /\ stack[n] = Top
      /\ \A i \in DOMAIN stack : stack[i] \in Frame
  BY <1>0, <1>1, Topmost, LenProperties DEF Kept
<1>3. /\ stack' \in Seq(Frame) /\ DOMAIN stack' = 1..(n - 1) /\ \A i \in 1..(n - 1) : stack'[i] = stack[i]
  BY <1>0, <1>1, Returned DEF Cut
<1>4. \A i \in 1..(n - 1) : i \in DOMAIN stack /\ i # n /\ i \in DOMAIN stack'
  BY <1>2, <1>3
<1>5. Lasts(n, Top) /\ life[p] \in {"unloading", "open"}
  BY <1>0, <1>2 DEF Lasts
<1>6. /\ life \in [Plugs -> {"closed", "open", "loaded", "leaked", "unloading"}]
      /\ life'[p] = w /\ \A q \in Plugs : q # p => life'[q] = life[q]
  BY <1>0 DEF PlugInv
<1>7. Kept'
  <2>1. PlugInv'
    BY <1>0, <1>6 DEF PlugInv, Once
  <2> QED
    BY <1>0, <1>3, <2>1 DEF Kept
<1>8. LoadedListed'
  BY <1>0, <1>5, <1>6 DEF LoadedListed, Listed
<1>9. UnloadingNow'
  <2> SUFFICES ASSUME NEW q \in Plugs, life'[q] = "unloading"
               PROVE  \E i \in DOMAIN stack' : stack'[i].fn = "plugin_remove" /\ stack'[i].p = q
    BY DEF UnloadingNow
  <2>1. q # p /\ life[q] = "unloading"
    BY <1>6
  <2>2. PICK i \in DOMAIN stack : stack[i].fn = "plugin_remove" /\ stack[i].p = q
    BY <1>0, <2>1 DEF UnloadingNow
  <2>3. i # n
    BY <1>2, <2>1, <2>2
  <2>4. i \in 1..(n - 1)
    BY <1>2, <2>3
  <2> QED
    BY <1>3, <2>2, <2>4
<1>10. \A i \in 1..(n - 1) : stack[i].fn \in {"plugin_remove", "plugin_add"} => stack[i].p # p
  <2> SUFFICES ASSUME NEW i \in 1..(n - 1), stack[i].fn \in {"plugin_remove", "plugin_add"}
               PROVE  stack[i].p # p
    OBVIOUS
  <2>1. /\ stack[i].fn = "plugin_remove" => life[stack[i].p] = "unloading"
        /\ stack[i].fn = "plugin_add" => life[stack[i].p] = "open"
        /\ Top.fn = "plugin_remove" => life[p] = "unloading"
        /\ Top.fn = "plugin_add" => life[p] = "open"
    BY <1>0, <1>4, <1>5 DEF Lasts
  <2>2. stack[i].fn = "plugin_remove" /\ Top.fn = "plugin_remove" => stack[i].p # p
    BY <1>0, <1>2, <1>4 DEF Pair
  <2>3. ~(stack[i].fn = "plugin_add" /\ Top.fn = "plugin_add")
    <3> SUFFICES ASSUME stack[i].fn = "plugin_add", Top.fn = "plugin_add"
                 PROVE  FALSE
      OBVIOUS
    <3>1. i = 1 /\ n = 1
      BY <1>0, <1>4, <1>5, <2>1 DEF Lasts, Outermost
    <3> QED
      BY <3>1
  <2> QED
    BY <2>1, <2>2, <2>3
<1>11. ASSUME NEW i \in DOMAIN stack' PROVE Lasts(i, stack[i])'
  <2>1. PICK f : f = stack[i]
    OBVIOUS
  <2>2. i \in 1..(n - 1) /\ stack'[i] = f /\ Lasts(i, f) /\ f \in Frame
    BY <1>0, <1>2, <1>3, <1>4, <2>1
  <2>3. Outermost(i, f)'
    <3>1. i = 2 => 1 \in 1..(n - 1)
      BY <1>2, <2>2
    <3> QED
      BY <1>3, <2>2, <3>1 DEF Lasts, Outermost
  <2>4. f.fn \in {"plugin_remove", "plugin_add"} => life'[f.p] = life[f.p]
    <3>1. f.fn \in {"plugin_remove", "plugin_add"} => f.p \in Plugs /\ f.p # p
      BY <1>10, <2>1, <2>2, Kinds DEF UnloadFrame, AddFrame
    <3> QED
      BY <1>6, <3>1
  <2>5. f.fn = "server_remove" => Going(f.s)'
    <3>1. f.fn = "server_remove" => Going(f.s)
      BY <2>2 DEF Lasts, Going
    <3> QED
      BY <1>1, <2>1, <2>2, <3>1 DEF GoingOn
  <2>6. f.fn = "finish" /\ f.step = "end" /\ plugins # <<>> =>
            2 \in DOMAIN stack' /\ stack'[2].fn = "plugin_clear"
    <3> SUFFICES ASSUME f.fn = "finish", f.step = "end", plugins # <<>>
                 PROVE  2 \in DOMAIN stack' /\ stack'[2].fn = "plugin_clear"
      OBVIOUS
    <3>1. 2 \in DOMAIN stack /\ stack[2].fn = "plugin_clear"
      BY <2>2 DEF Lasts
    <3>2. 2 # n
      BY <1>2, <3>1
    <3>3. 2 \in 1..(n - 1)
      BY <1>2, <3>1, <3>2
    <3> QED
      BY <1>3, <3>1, <3>3
  <2>7. Lasts(i, f)'
    BY <2>2, <2>3, <2>4, <2>5, <2>6 DEF Lasts, Going, Listed
  <2> QED
    BY <2>2, <2>7
<1>12. ASSUME NEW i \in DOMAIN stack', NEW j \in DOMAIN stack', i # j PROVE Pair(stack[i], stack[j])'
  <2>1. Pair(stack[i], stack[j]) /\ stack'[i] = stack[i] /\ stack'[j] = stack[j]
    BY <1>0, <1>3, <1>4, <1>12
  <2>2. stack[i].fn = "server_remove" /\ stack[i].s \in twice => stack[i].s \in twice'
    BY <1>1, <1>3 DEF GoingOn
  <2> QED
    BY <2>1, <2>2 DEF Pair
<1>13. ASSUME NEW i \in DOMAIN stack', stack'[i].fn = "dispatch" PROVE Offers(stack[i])'
  <2>1. PICK f : f = stack[i]
    OBVIOUS
  <2>2. Offers(f) /\ stack'[i] = f
    BY <1>0, <1>3, <1>4, <1>13, <2>1
  <2>3. Offers(f)'
    BY <2>2, OffersSame
  <2> QED
    BY <2>2, <2>3
<1> QED
  BY <1>7, <1>8, <1>9, <1>11, <1>12, <1>13 DEF BotInv

LEMMA HeapFreed ==
    ASSUME SrvInv, NEW p \in Plugs, ~FinishFails(p), HeapDestroyed(p)
    PROVE  SrvInv' /\ conn' \subseteq conn
<1>1. /\ servers \in Seq(Srvs) /\ Once(servers) /\ link \in [Srvs -> Srvs \cup {Nil}]
      /\ refc \in [Srvs -> Nat] /\ conn \subseteq alive /\ Listed(servers) \subseteq alive
      /\ alive \subseteq Srvs /\ handles \in [Plugs -> SUBSET Srvs]
      /\ dropped \subseteq Srvs /\ twice \subseteq Srvs
      /\ conn \subseteq Listed(servers) \cup dropped \cup twice
  BY DEF SrvInv, ConnectedListed
<1> DEFINE last == {s \in handles[p] : refc[s] = 1}
<1>2. /\ refc' = [s \in Srvs |-> IF s \in handles[p] THEN refc[s] - 1 ELSE refc[s]]
      /\ alive' = alive \ last /\ conn' = conn \ last
      /\ handles' = [handles EXCEPT ![p] = {}]
      /\ UNCHANGED <<servers, link, dropped, twice>>
  BY DEF HeapDestroyed
<1>3. \A s \in handles[p] : refc[s] # 0 /\ (refc[s] = 1 => s \notin Listed(servers))
  BY DEF FinishFails, FinalizeFails, DecrefFails
<1>4. Listed(servers) \cap last = {}
  BY <1>3
<1> HIDE DEF last
<1>5. refc' \in [Srvs -> Nat] /\ handles' \in [Plugs -> SUBSET Srvs]
  BY <1>1, <1>2, <1>3
<1>6. Listed(servers)' = Listed(servers) /\ Once(servers)'
  BY <1>1, <1>2 DEF Listed, Once
<1>7. ConnectedListed'
  BY <1>1, <1>2, <1>6 DEF ConnectedListed
<1>8. Listed(servers)' \subseteq alive' /\ conn' \subseteq alive' /\ alive' \subseteq Srvs /\ conn' \subseteq conn
  BY <1>1, <1>2, <1>4, <1>6
<1> QED
  BY <1>1, <1>2, <1>5, <1>6, <1>7, <1>8 DEF SrvInv

LEMMA HeapStep ==
    ASSUME BotInv, plugin_remove_end \/ script_fails
    PROVE  BotInv'
<1>0. /\ Kept /\ SrvInv /\ stack # <<>> /\ fault = "none" /\ Top.fn \in {"plugin_remove", "plugin_add"}
  BY DEF BotInv, Kept, plugin_remove_end, script_fails, Running
<1>1. PICK p : p = Top.p
  OBVIOUS
<1>2. p \in Plugs
  <2>1. Top \in Frame
    BY <1>0, Topmost
  <2> QED
    BY <1>0, <1>1, <2>1, Kinds DEF UnloadFrame, AddFrame
<1>3. Crash("freed") \/ (~FinishFails(p) /\ Return /\ HeapDestroyed(p))
  BY <1>1 DEF plugin_remove_end, script_fails
<1>4. CASE ~FinishFails(p) /\ Return /\ HeapDestroyed(p)
  <2>1. SrvInv' /\ conn' \subseteq conn
    BY <1>0, <1>2, <1>4, HeapFreed
  <2>2. life' = [life EXCEPT ![p] = "closed"] /\ UNCHANGED <<fault, plugins, servers, twice>>
    BY <1>4 DEF HeapDestroyed
  <2>3. GoingOn(Len(stack) - 1)
    BY <2>1, <2>2, Settled
  <2> QED
    BY <1>0, <1>1, <1>2, <1>4, <2>1, <2>2, <2>3, PopPlugin
<1> QED
  BY <1>3, <1>4, CrashStep

\* A plugin is being added: nothing is under way below it.
LEMMA AddAlone ==
    ASSUME BotInv, stack # <<>>, Top.fn = "plugin_add"
    PROVE  /\ Len(stack) = 1 /\ DOMAIN stack = 1..1 /\ Top \in AddFrame /\ life[Top.p] = "open"
           /\ Top.p \in Plugs /\ Top.p \notin Listed(plugins)
           /\ fault = "none" => \A q \in Plugs : life[q] # "unloading"
<1>0. Kept
  BY DEF BotInv
<1>1. /\ Len(stack) \in Nat /\ DOMAIN stack = 1..Len(stack) /\ Len(stack) \in DOMAIN stack
      /\ stack[Len(stack)] = Top /\ Top \in Frame
  BY <1>0, Topmost
<1>2. Lasts(Len(stack), Top)
  BY <1>1 DEF BotInv
<1>3. Len(stack) = 1 /\ life[Top.p] = "open"
  BY <1>2 DEF Lasts, Outermost
<1>4. Top \in AddFrame /\ Top.p \in Plugs
  BY <1>1, Kinds DEF AddFrame
<1>5. Top.p \notin Listed(plugins)
  BY <1>3, <1>4 DEF BotInv, LoadedListed
<1>6. ASSUME fault = "none", NEW q \in Plugs PROVE life[q] # "unloading"
  <2>1. \A i \in DOMAIN stack : stack[i].fn = "plugin_add"
    BY <1>1, <1>3
  <2> QED
    BY <1>6, <2>1 DEF BotInv, UnloadingNow
<1> QED
  BY <1>1, <1>3, <1>4, <1>5, <1>6

LEMMA AddStep ==
    ASSUME BotInv, irc_bot_plugin_add
    PROVE  BotInv'
<1>0. /\ Kept /\ SrvInv /\ PlugInv /\ LoadedListed /\ stack # <<>> /\ fault = "none" /\ Top.fn = "plugin_add"
      /\ UNCHANGED <<fault, srvVars>>
  BY DEF BotInv, Kept, irc_bot_plugin_add, Running
<1>1. PICK p : p = Top.p
  OBVIOUS
<1>2. /\ Len(stack) = 1 /\ DOMAIN stack = 1..1 /\ Top \in AddFrame /\ life[p] = "open"
      /\ p \in Plugs /\ p \notin Listed(plugins) /\ \A q \in Plugs : life[q] # "unloading"
  BY <1>0, <1>1, AddAlone
<1>3. /\ plugins \in Seq(Plugs) /\ Once(plugins)
      /\ life \in [Plugs -> {"closed", "open", "loaded", "leaked", "unloading"}]
  BY <1>0 DEF PlugInv
<1>4. SrvInv' /\ GoingOn(Len(stack) - 1)
  BY <1>0, SameSrvs, Settled DEF srvVars
<1>5. \/ Return /\ life' = [life EXCEPT ![p] = "leaked"] /\ UNCHANGED plugins
      \/ stack' = Over([Top EXCEPT !.step = "load"]) \o <<Js(p, Nil)>> /\ UNCHANGED <<plugins, life>>
      \/ Return /\ plugins' = <<p>> \o plugins /\ life' = [life EXCEPT ![p] = "loaded"]
  BY <1>1 DEF irc_bot_plugin_add
<1>6. CASE Return /\ life' = [life EXCEPT ![p] = "leaked"] /\ UNCHANGED plugins
  BY <1>0, <1>1, <1>2, <1>4, <1>6, PopPlugin
<1>7. CASE stack' = Over([Top EXCEPT !.step = "load"]) \o <<Js(p, Nil)>> /\ UNCHANGED <<plugins, life>>
  <2>1. PICK f : f = [Top EXCEPT !.step = "load"]
    OBVIOUS
  <2>2. /\ f \in Frame /\ f.fn = "plugin_add" /\ f.p = p
        /\ Js(p, Nil) \in Frame /\ Js(p, Nil).fn = "js"
    BY <1>1, <1>2, <2>1, IsJs DEF AddFrame, Frame
  <2>3. Cut(Len(stack) - 1) /\ Len(stack') = Len(stack) + 1 /\ stack'[Len(stack)] = f
        /\ stack'[Len(stack) + 1] = Js(p, Nil)
    BY <1>0, <1>7, <2>1, <2>2, WentCalling
  <2>4. /\ Cut(0) /\ DOMAIN stack' = 1..2 /\ stack'[1] = f /\ stack'[2] = Js(p, Nil) /\ stack' \in Seq(Frame)
    BY <1>2, <2>3 DEF Cut
  <2>5. UNCHANGED plugVars
    BY <1>7 DEF plugVars
  <2>6. Fits(1)
    <3>1. Lasts(1, f)'
      BY <1>2, <1>7, <2>2 DEF Lasts, Outermost
    <3>2. Lasts(1, stack[1])'
      BY <2>4, <3>1
    <3> QED
      BY <2>2, <2>4, <3>2, Apart
  <2>7. Fits(2)
    <3>1. Lasts(2, stack[2])'
      BY <2>2, <2>4, JsLasts
    <3> QED
      BY <2>2, <2>4, <3>1, Apart
  <2>8. \A i \in DOMAIN stack' : i = 1 \/ i = 2
    BY <2>4
  <2>9. Kept' /\ GoingOn(0)
    BY <1>0, <1>4, <2>4, <2>5, SamePlugs, Settled DEF Kept, srvVars
  <2>10. 0 + 1 = 1 /\ stack[1].fn = "plugin_add"
    BY <1>0, <1>2, Topmost
  <2> QED
    BY <1>0, <2>4, <2>5, <2>6, <2>7, <2>8, <2>9, <2>10, Spliced
<1>8. CASE Return /\ plugins' = <<p>> \o plugins /\ life' = [life EXCEPT ![p] = "loaded"]
  <2>1. stack' \in Seq(Frame) /\ DOMAIN stack' = {}
    <3>1. Cut(Len(stack) - 1) /\ Len(stack') = Len(stack) - 1
      BY <1>0, <1>8, Returned
    <3> QED
      BY <1>2, <3>1 DEF Cut
  <2>2. plugins' \in Seq(Plugs) /\ Once(plugins)' /\ Listed(plugins)' = Listed(plugins) \cup {p}
    <3>1. PICK new : new = <<p>> \o plugins
      OBVIOUS
    <3>2. new \in Seq(Plugs) /\ Once(new) /\ Listed(new) = Listed(plugins) \cup {p}
      BY <1>2, <1>3, <3>1, PrependOps
    <3>3. plugins' = new
      BY <1>8, <3>1
    <3> QED
      BY <3>2, <3>3 DEF Once, Listed
  <2>3. /\ life' \in [Plugs -> {"closed", "open", "loaded", "leaked", "unloading"}]
        /\ life'[p] = "loaded" /\ \A q \in Plugs : q # p => life'[q] = life[q]
    BY <1>2, <1>3, <1>8
  <2>4. Kept'
    <3>1. PlugInv'
      BY <2>2, <2>3 DEF PlugInv
    <3> QED
      BY <1>0, <1>4, <2>1, <3>1 DEF Kept
  <2>5. LoadedListed'
    BY <1>0, <2>2, <2>3 DEF LoadedListed
  <2>6. UnloadingNow'
    BY <1>2, <2>3 DEF UnloadingNow
  <2> QED
    BY <2>1, <2>4, <2>5, <2>6 DEF BotInv
<1> QED
  BY <1>5, <1>6, <1>7, <1>8

LEMMA LoadStep ==
    ASSUME BotInv, NEW p \in Plugs, cmd_plugin_load(p)
    PROVE  BotInv'
<1>0. /\ Kept /\ SrvInv /\ PlugInv /\ LoadedListed /\ UnloadingNow /\ stack = <<>> /\ fault = "none"
      /\ life[p] = "closed" /\ life' = [life EXCEPT ![p] = "open"] /\ UNCHANGED <<fault, plugins, srvVars>>
      /\ Call(<<[fn |-> "plugin_add", p |-> p, step |-> "script"], Js(p, Nil)>>)
  BY DEF BotInv, Kept, cmd_plugin_load, Idle
<1>1. PICK f : f = [fn |-> "plugin_add", p |-> p, step |-> "script"]
  OBVIOUS
<1>2. /\ f \in Frame /\ f.fn = "plugin_add" /\ f.p = p
      /\ Js(p, Nil) \in Frame /\ Js(p, Nil).fn = "js"
  BY <1>1, IsJs DEF AddFrame, Frame
<1>3. /\ stack' \in Seq(Frame) /\ DOMAIN stack' = 1..2 /\ stack'[1] = f /\ stack'[2] = Js(p, Nil)
      /\ DOMAIN stack = {}
  <2>1. Call(<<f, Js(p, Nil)>>)
    BY <1>0, <1>1
  <2>2. Len(stack) = 0 /\ DOMAIN stack = {}
    BY <1>0, Nothing
  <2> QED
    BY <1>0, <1>2, <2>1, <2>2, CalledTwo DEF Cut
<1>4. /\ plugins \in Seq(Plugs) /\ Once(plugins)
      /\ life' \in [Plugs -> {"closed", "open", "loaded", "leaked", "unloading"}]
      /\ life'[p] = "open" /\ \A q \in Plugs : q # p => life'[q] = life[q]
  BY <1>0 DEF PlugInv
<1>5. Kept'
  <2>1. PlugInv'
    BY <1>0, <1>4 DEF PlugInv, Once
  <2>2. SrvInv'
    BY <1>0, SameSrvs
  <2> QED
    BY <1>0, <1>3, <2>1, <2>2 DEF Kept
<1>6. LoadedListed'
  BY <1>0, <1>4 DEF LoadedListed, Listed
<1>7. UnloadingNow'
  BY <1>0, <1>3, <1>4 DEF UnloadingNow
<1>8. ASSUME NEW i \in DOMAIN stack' PROVE Fits(i)
  <2>1. CASE i = 1
    <3>1. Lasts(1, f)'
      BY <1>2, <1>4 DEF Lasts, Outermost
    <3>2. Lasts(i, stack[i])'
      BY <1>3, <2>1, <3>1
    <3> QED
      BY <1>2, <1>3, <2>1, <3>2, Apart
  <2>2. CASE i = 2
    <3>1. Lasts(i, stack[i])'
      BY <1>2, <1>3, <2>2, JsLasts
    <3> QED
      BY <1>2, <1>3, <2>2, <3>1, Apart
  <2> QED
    BY <1>3, <2>1, <2>2
<1> QED
  BY <1>5, <1>6, <1>7, <1>8 DEF BotInv, Fits

-----------------------------------------------------------------------------
(* The theorems.                                                           *)

LEMMA InitBot == Init => BotInv
<1> SUFFICES ASSUME Init
             PROVE  BotInv
  OBVIOUS
<1>1. DOMAIN <<>> = {} /\ <<>> \in Seq(Frame) /\ <<>> \in Seq(Plugs) /\ <<>> \in Seq(Srvs)
  BY Nothing
<1>2. Listed(plugins) = {} /\ Listed(servers) = {} /\ Once(plugins) /\ Once(servers) /\ DOMAIN stack = {}
  BY <1>1 DEF Init, Listed, Once
<1>3. PlugInv
  BY <1>1, <1>2 DEF Init, PlugInv
<1>4. SrvInv
  BY <1>1, <1>2 DEF Init, SrvInv, ConnectedListed
<1>5. Kept
  BY <1>1, <1>3, <1>4 DEF Init, Kept
<1>6. LoadedListed /\ UnloadingNow
  BY <1>2 DEF Init, LoadedListed, UnloadingNow
<1> QED
  BY <1>2, <1>5, <1>6 DEF BotInv

LEMMA StutterBot == BotInv /\ UNCHANGED vars => BotInv'
<1> SUFFICES ASSUME BotInv, UNCHANGED vars
             PROVE  BotInv'
  OBVIOUS
<1>1. UNCHANGED <<stack, fault, plugVars, srvVars>> /\ SrvInv
  BY DEF vars, plugVars, srvVars, BotInv, Kept
<1>2. SrvInv' /\ GoingOn(Len(stack))
  BY <1>1, SameSrvs, Settled DEF srvVars
<1> QED
  BY <1>1, <1>2, InPlace

LEMMA NextBot == BotInv /\ [Next]_vars => BotInv'
<1> SUFFICES ASSUME BotInv, Next
             PROVE  BotInv'
  BY StutterBot
<1>1. CASE \E s \in Srvs, ev \in Messages \cup OtherEvents : irc_server_consumer_entry(s, ev)
  BY <1>1, ConsumerStep
<1>2. CASE dispatch_plugins \/ dispatch_command \/ dispatch_observe
  BY <1>2, DispatchStep
<1>3. CASE server_remove_end \/ irc_bot_server_clear
  BY <1>3, ServerRemoveEnd, ServerClearStep
<1>4. CASE plugin_remove_end \/ irc_bot_plugin_clear \/ cmd_plugin_reload
  BY <1>4, HeapStep, PluginClearStep, ReloadStep
<1>5. CASE script_fails \/ irc_bot_plugin_add
  BY <1>5, HeapStep, AddStep
<1>6. CASE \E s \in Srvs : \/ Server_constructor(s) \/ Server_add(s) \/ Server_find(s)
                           \/ Server_destructor(s) \/ Server_remove(s)
                           \/ cmd_server_connect(s) \/ cmd_server_disconnect(s)
  BY <1>6, ScriptServers, ServerRemoveStep, ServerCommands
<1>7. CASE \E p \in Plugs : \/ Plugin_unload(NameOf[p]) \/ Plugin_reload(NameOf[p])
                            \/ stimer_cb(p) \/ cmd_plugin_load(p) \/ cmd_plugin_unload(p)
  BY <1>7, UnloadStep, EnterStep, LoadStep
<1>8. CASE js_return \/ cmd_server_disconnect_all \/ cmd_plugin_all \/ irc_bot_finish
  BY <1>8, JsReturn, CommandStep, FinishStep
<1> QED
  BY <1>1, <1>2, <1>3, <1>4, <1>5, <1>6, <1>7, <1>8 DEF Next

THEOREM BotInvariant == Spec => []BotInv
<1>1. Init => BotInv
  BY InitBot
<1>2. BotInv /\ [Next]_vars => BotInv'
  BY NextBot
<1> QED
  BY <1>1, <1>2, PTL DEF Spec

\* Calls nest in any order, and what is under way keeps its type: a loop
\* that goes on after handlers ran finds what it saved.
THEOREM TypeAlwaysOK == Spec => []TypeOK
<1>1. BotInv => TypeOK
  BY DEF BotInv, Kept, PlugInv, SrvInv, TypeOK
<1> QED
  BY <1>1, BotInvariant, PTL

\* irc_bot_server_remove disconnects before it takes a server out of the list, and
\* irc_server_decref disconnects before it frees one: no connection goes on that
\* neither the list nor a history variable knows.
THEOREM ConnectedAlwaysListed == Spec => []ConnectedListed
<1>1. BotInv => ConnectedListed
  BY DEF BotInv, Kept, SrvInv
<1> QED
  BY <1>1, BotInvariant, PTL

\* irc_bot_dispatch offers an event once to each plugin that stays, and last to the one
\* whose command it is, whatever handlers do to the list meanwhile.
THEOREM AlwaysOfferedOnce == Spec => []OfferedOnce
<1>1. BotInv => OfferedOnce
  <2> SUFFICES ASSUME BotInv, NEW f \in Dispatching, f.step # "plugins"
               PROVE  /\ \A p \in f.stayed :
                            \/ f.seen[p] = IF p = f.cmd /\ f.step = "command" THEN 0 ELSE 1
                            \/ f.seen[p] = 0 /\ is_command(p, f) /\ f.cmd # Nil /\ is_command(f.cmd, f)
                      /\ \A p \in Plugs : f.seen[p] <= 1
    BY DEF OfferedOnce
  <2>1. PICK i \in DOMAIN stack : f = stack[i]
    BY DEF Dispatching, Frames
  <2>2. f.fn = "dispatch" /\ f \in Frame
    <3>1. stack \in Seq(Frame) /\ f.fn = "dispatch"
      BY DEF Dispatching, BotInv, Kept
    <3> QED
      BY <2>1, <3>1, LenProperties
  <2>3. f \in DispatchFrames /\ Offers(f)
    BY <2>1, <2>2, Kinds DEF BotInv
  <2>4. f.step \in {"command", "observe"}
    BY <2>3 DEF DispatchFrames
  <2>5. CASE f.step = "command"
    BY <2>3, <2>5 DEF Offers, Offered
  <2>6. CASE f.step = "observe"
    BY <2>3, <2>6 DEF Offers
  <2> QED
    BY <2>4, <2>5, <2>6
<1> QED
  BY <1>1, BotInvariant, PTL

\* irc_bot_finish comes to its end with every plugin out of the list and unloaded.
THEOREM AlwaysFinishedClean == Spec => []FinishedClean
<1>1. BotInv => FinishedClean
  <2> SUFFICES ASSUME BotInv, fault = "none", stack # <<>>, Len(stack) = 1,
                      Top.fn = "finish", Top.step = "end"
               PROVE  plugins = <<>> /\ \A p \in Plugs : life[p] \notin {"loaded", "unloading"}
    BY DEF FinishedClean
  <2>1. /\ Kept /\ DOMAIN stack = 1..1 /\ stack[1] = Top
    BY Topmost DEF BotInv
  <2>2. plugins = <<>>
    <3>1. Lasts(1, stack[1])
      BY <2>1 DEF BotInv
    <3> QED
      BY <2>1, <3>1 DEF Lasts
  <2>3. Listed(plugins) = {}
    BY <2>1, <2>2, PluginsOps
  <2>4. \A p \in Plugs : life[p] # "loaded"
    BY <2>3 DEF BotInv, LoadedListed
  <2>5. \A p \in Plugs : life[p] # "unloading"
    BY <2>1 DEF BotInv, UnloadingNow
  <2> QED
    BY <2>2, <2>4, <2>5
<1> QED
  BY <1>1, BotInvariant, PTL

-----------------------------------------------------------------------------
(* References.                                                             *)

Places(s) == {i \in DOMAIN servers : servers[i] = s}
Holders(s) == {p \in Plugs : s \in handles[p]}
Hears(f, s) == f.fn = "js" /\ f.s = s
Heard(s) == {i \in DOMAIN stack : Hears(stack[i], s)}
Counted(s) == refc[s] = Cardinality(Places(s)) + Cardinality(Holders(s)) + Cardinality(Heard(s))
Live(s) == s \in alive /\ s \notin twice \cup dropped

RefsInv ==
    /\ \A s \in Srvs : IsFiniteSet(Holders(s))
    /\ fault = "none" => \A s \in Srvs : Live(s) => Counted(s)

\* A server is in the list once or not at all.
LEMMA PlacesCount ==
    ASSUME NEW S, NEW list \in Seq(S), Once(list), NEW x
    PROVE  Cardinality({i \in DOMAIN list : list[i] = x}) = IF x \in Listed(list) THEN 1 ELSE 0
<1>1. CASE x \in Listed(list)
  <2>1. PICK k \in DOMAIN list : list[k] = x
    BY <1>1 DEF Listed
  <2>2. {i \in DOMAIN list : list[i] = x} = {k}
    BY <2>1 DEF Once
  <2> QED
    BY <1>1, <2>2, FS_Singleton
<1>2. CASE x \notin Listed(list)
  <2>1. {i \in DOMAIN list : list[i] = x} = {}
    BY <1>2 DEF Listed
  <2> QED
    BY <1>2, <2>1, FS_EmptySet
<1> QED
  BY <1>1, <1>2

LEMMA CountIs ==
    ASSUME Kept, NEW s \in Srvs, IsFiniteSet(Holders(s))
    PROVE  /\ Cardinality(Places(s)) = IF s \in Listed(servers) THEN 1 ELSE 0
           /\ Cardinality(Holders(s)) \in Nat
           /\ IsFiniteSet(Heard(s)) /\ Cardinality(Heard(s)) \in Nat
           /\ refc[s] \in Nat
<1>1. servers \in Seq(Srvs) /\ Once(servers) /\ refc[s] \in Nat /\ stack \in Seq(Frame)
  BY DEF Kept, SrvInv
<1>2. Cardinality(Places(s)) = IF s \in Listed(servers) THEN 1 ELSE 0
  BY <1>1, PlacesCount DEF Places
<1>3. Len(stack) \in Nat /\ DOMAIN stack = 1..Len(stack)
  BY <1>1, LenProperties
<1>4. IsFiniteSet(Heard(s))
  <2>1. IsFiniteSet(1..Len(stack))
    BY <1>3, FS_Interval
  <2>2. Heard(s) \subseteq 1..Len(stack)
    BY <1>3 DEF Heard
  <2> QED
    BY <2>1, <2>2, FS_Subset
<1> QED
  BY <1>1, <1>2, <1>4, FS_CardinalityType

\* The same in the next state, where the count of each kind is known from this one.
LEMMA CountNext ==
    ASSUME Kept', NEW s \in Srvs, NEW l, NEW h, NEW j,
           l = IF s \in Listed(servers)' THEN 1 ELSE 0,
           Cardinality(Holders(s))' = h, Cardinality(Heard(s))' = j, refc'[s] = l + h + j
    PROVE  Counted(s)'
<1>1. servers' \in Seq(Srvs) /\ Once(servers)'
  BY DEF Kept, SrvInv
<1>2. Cardinality(Places(s))' = l
  <2>1. PICK list : list = servers'
    OBVIOUS
  <2>2. list \in Seq(Srvs) /\ Once(list)
    BY <1>1, <2>1 DEF Once
  <2>3. Cardinality({i \in DOMAIN list : list[i] = s}) = IF s \in Listed(list) THEN 1 ELSE 0
    BY <2>2, PlacesCount
  <2>4. Listed(list) = Listed(servers)'
    BY <2>1 DEF Listed
  <2> QED
    BY <2>1, <2>3, <2>4 DEF Places
<1> QED
  BY <1>2 DEF Counted

\* Steps that count nothing.
LEMMA RefsSteady ==
    ASSUME Kept, Kept', RefsInv, fault' = "none" => fault = "none", UNCHANGED <<refc, handles>>,
           \A s \in Srvs : Live(s)' => Live(s) /\ (s \in Listed(servers)' <=> s \in Listed(servers)),
           fault' = "none" => \A s \in Srvs : Heard(s)' = Heard(s)
    PROVE  RefsInv'
<1>1. \A s \in Srvs : Holders(s)' = Holders(s)
  BY DEF Holders
<1>2. \A s \in Srvs : IsFiniteSet(Holders(s))'
  BY <1>1 DEF RefsInv
<1>3. ASSUME fault' = "none", NEW s \in Srvs, Live(s)' PROVE Counted(s)'
  <2>1. PICK l : l = IF s \in Listed(servers) THEN 1 ELSE 0
    OBVIOUS
  <2>2. /\ Counted(s) /\ Heard(s)' = Heard(s) /\ (s \in Listed(servers)' <=> s \in Listed(servers))
        /\ Cardinality(Places(s)) = l
    BY <1>3, <2>1, CountIs DEF RefsInv
  <2>3. refc'[s] = l + Cardinality(Holders(s)) + Cardinality(Heard(s))
    BY <2>2 DEF Counted
  <2> QED
    BY <1>1, <2>1, <2>2, <2>3, CountNext
<1> QED
  BY <1>2, <1>3 DEF RefsInv

\* Which handlers hold a reference of s after a step, by the frames that go and come.
LEMMA HeardCut ==
    ASSUME NEW k, Cut(k), NEW s,
           k + 1 \in DOMAIN stack => ~Hears(stack[k + 1], s),
           \A i \in DOMAIN stack' : i > k => ~Hears(stack'[i], s)
    PROVE  Heard(s)' = Heard(s)
<1>1. /\ k \in Nat /\ 1..k \subseteq DOMAIN stack /\ 1..k \subseteq DOMAIN stack'
      /\ \A i \in 1..k : stack'[i] = stack[i]
      /\ \A i \in DOMAIN stack' : i \in 1..k \/ i > k
      /\ \A i \in DOMAIN stack : i \in 1..k \/ i = k + 1
  BY DEF Cut
<1>2. \A i \in DOMAIN stack' : Hears(stack'[i], s) => i \in 1..k
  BY <1>1
<1>3. \A i \in DOMAIN stack : Hears(stack[i], s) => i \in 1..k
  BY <1>1
<1>4. \A i \in 1..k : Hears(stack'[i], s) <=> Hears(stack[i], s)
  BY <1>1
<1> QED
  BY <1>1, <1>2, <1>3, <1>4 DEF Heard, Hears

LEMMA HeardMore ==
    ASSUME NEW k, Cut(k), NEW s, NEW m \in DOMAIN stack', m > k, m > Len(stack),
           k + 1 \in DOMAIN stack => ~Hears(stack[k + 1], s), Hears(stack'[m], s),
           \A i \in DOMAIN stack' : i > k /\ i # m => ~Hears(stack'[i], s)
    PROVE  Heard(s)' = Heard(s) \cup {m} /\ m \notin Heard(s)
<1>1. /\ k \in Nat /\ 1..k \subseteq DOMAIN stack /\ 1..k \subseteq DOMAIN stack'
      /\ \A i \in 1..k : stack'[i] = stack[i]
      /\ \A i \in DOMAIN stack' : i \in 1..k \/ i > k
      /\ \A i \in DOMAIN stack : i \in 1..k \/ i = k + 1
      /\ m \notin DOMAIN stack
  BY DEF Cut
<1>2. \A i \in DOMAIN stack' : Hears(stack'[i], s) => i \in 1..k \/ i = m
  BY <1>1
<1>3. \A i \in DOMAIN stack : Hears(stack[i], s) => i \in 1..k
  BY <1>1
<1>4. \A i \in 1..k : Hears(stack'[i], s) <=> Hears(stack[i], s)
  BY <1>1
<1> QED
  BY <1>1, <1>2, <1>3, <1>4 DEF Heard, Hears

LEMMA HeardPop ==
    ASSUME Kept, stack # <<>>, Return, NEW s
    PROVE  /\ ~Hears(Top, s) => Heard(s)' = Heard(s)
           /\ Hears(Top, s) => Heard(s)' = Heard(s) \ {Len(stack)} /\ Len(stack) \in Heard(s)
<1>1. PICK n : n = Len(stack)
  OBVIOUS
<1>2. /\ n \in Nat /\ DOMAIN stack = 1..n /\ stack[n] = Top /\ n \in DOMAIN stack
      /\ DOMAIN stack' = 1..(n - 1) /\ \A i \in 1..(n - 1) : stack'[i] = stack[i]
  BY <1>1, Topmost, Returned DEF Cut
<1>3. \A i : i \in 1..(n - 1) <=> i \in 1..n /\ i # n
  BY <1>2
<1>4. Heard(s)' = Heard(s) \ {n}
  BY <1>2, <1>3 DEF Heard, Hears
<1>5. n \in Heard(s) <=> Hears(Top, s)
  BY <1>2 DEF Heard
<1> QED
  BY <1>1, <1>4, <1>5

\* What takes the place of a frame that is not a handler.
LEMMA HeardOver ==
    ASSUME Kept, stack # <<>>, NEW s, Top.fn # "js", NEW f \in Frame, f.fn # "js", NEW a \in Frame, NEW b \in Frame
    PROVE  /\ Goto(f) => Heard(s)' = Heard(s)
           /\ stack' = Over(f) \o <<a>> /\ ~Hears(a, s) => Heard(s)' = Heard(s)
           /\ stack' = Over(f) \o <<a>> /\ Hears(a, s) =>
                Heard(s)' = Heard(s) \cup {Len(stack) + 1} /\ Len(stack) + 1 \notin Heard(s)
           /\ stack' = Over(f) \o <<a, b>> /\ ~Hears(a, s) /\ ~Hears(b, s) => Heard(s)' = Heard(s)
<1> DEFINE k == Len(stack) - 1
<1>1. /\ k \in Nat /\ k + 1 = Len(stack) /\ stack[k + 1] = Top /\ Len(stack) + 1 = k + 2 /\ k + 2 > k
      /\ k + 2 > Len(stack) /\ Len(stack) + 2 = k + 3
  BY Topmost
<1>2. ~Hears(Top, s) /\ ~Hears(f, s)
  BY DEF Hears
<1>3. ASSUME Goto(f) PROVE Heard(s)' = Heard(s)
  <2>1. Cut(k) /\ Len(stack') = k + 1 /\ stack'[k + 1] = f
    BY <1>1, <1>3, Went
  <2> HIDE DEF k
  <2>2. \A i \in DOMAIN stack' : i > k => i = k + 1
    BY <1>1, <2>1 DEF Cut
  <2> QED
    BY <1>1, <1>2, <2>1, <2>2, HeardCut
<1>4. ASSUME stack' = Over(f) \o <<a>>
      PROVE  /\ ~Hears(a, s) => Heard(s)' = Heard(s)
             /\ Hears(a, s) => Heard(s)' = Heard(s) \cup {k + 2} /\ k + 2 \notin Heard(s)
  <2>1. Cut(k) /\ Len(stack') = k + 2 /\ stack'[k + 1] = f /\ stack'[k + 2] = a
    BY <1>1, <1>4, WentCalling
  <2> HIDE DEF k
  <2>2. (\A i \in DOMAIN stack' : i > k => i = k + 1 \/ i = k + 2) /\ k + 2 \in DOMAIN stack'
    BY <1>1, <2>1 DEF Cut
  <2>3. CASE ~Hears(a, s)
    BY <1>1, <1>2, <2>1, <2>2, <2>3, HeardCut
  <2>4. CASE Hears(a, s)
    BY <1>1, <1>2, <2>1, <2>2, <2>4, HeardMore
  <2> QED
    BY <2>3, <2>4
<1>5. ASSUME stack' = Over(f) \o <<a, b>>, ~Hears(a, s), ~Hears(b, s) PROVE Heard(s)' = Heard(s)
  <2>1. Cut(k) /\ Len(stack') = k + 3 /\ stack'[k + 1] = f /\ stack'[k + 2] = a /\ stack'[k + 3] = b
    <3>1. k + 1 + 1 = k + 2 /\ k + 1 + 2 = k + 3
      BY <1>1
    <3> QED
      BY <1>1, <1>5, <3>1, WentCallingTwo
  <2> HIDE DEF k
  <2>2. \A i \in DOMAIN stack' : i > k => i = k + 1 \/ i = k + 2 \/ i = k + 3
    BY <1>1, <2>1 DEF Cut
  <2> QED
    BY <1>1, <1>2, <1>5, <2>1, <2>2, HeardCut
<1> HIDE DEF k
<1> QED
  BY <1>1, <1>3, <1>4, <1>5

\* What is put on the stack.
LEMMA HeardCall ==
    ASSUME Kept, NEW s, NEW a \in Frame, NEW b \in Frame, ~Hears(a, s), ~Hears(b, s),
           Call(<<a>>) \/ Call(<<a, b>>)
    PROVE  Heard(s)' = Heard(s)
<1> DEFINE k == Len(stack)
<1>1. /\ Cut(k)
      /\ \/ Len(stack') = k + 1 /\ stack'[k + 1] = a
         \/ Len(stack') = k + 2 /\ stack'[k + 1] = a /\ stack'[k + 2] = b
  BY Called, CalledTwo
<1>2. k = Len(stack)
  OBVIOUS
<1> HIDE DEF k
<1>3. k \in Nat /\ DOMAIN stack = 1..k /\ DOMAIN stack' = 1..Len(stack')
  BY <1>1, <1>2 DEF Cut
<1>4. ~(k + 1 \in DOMAIN stack)
  BY <1>3
<1>5. \A i \in DOMAIN stack' : i > k => ~Hears(stack'[i], s)
  <2>1. CASE Len(stack') = k + 1 /\ stack'[k + 1] = a
    <3>1. \A i \in DOMAIN stack' : i > k => i = k + 1
      BY <1>3, <2>1
    <3> QED
      BY <2>1, <3>1
  <2>2. CASE Len(stack') = k + 2 /\ stack'[k + 1] = a /\ stack'[k + 2] = b
    <3>1. \A i \in DOMAIN stack' : i > k => i = k + 1 \/ i = k + 2
      BY <1>3, <2>2
    <3> QED
      BY <2>2, <3>1
  <2> QED
    BY <1>1, <2>1, <2>2
<1> QED
  BY <1>1, <1>4, <1>5, HeardCut

\* A frame that holds no reference.
Silent(f) == f.fn = "js" => f.s = Nil

LEMMA SilentHears ==
    ASSUME NEW f, Silent(f), NEW s \in Srvs
    PROVE  ~Hears(f, s)
BY BotAssumption DEF Silent, Hears

\* Calls that come and go without a reference.
Quiet ==
    \/ UNCHANGED stack
    \/ stack # <<>> /\ Silent(Top) /\ Return
    \/ /\ stack # <<>> /\ Top.fn # "js"
       /\ \E f \in Frame : /\ f.fn # "js"
                           /\ Goto(f) \/ \E a \in Frame : Silent(a) /\ stack' = Over(f) \o <<a>>
    \/ \E a, b \in Frame : Silent(a) /\ Silent(b) /\ (Call(<<a>>) \/ Call(<<a, b>>))

LEMMA QuietHeard ==
    ASSUME Kept, Quiet, NEW s \in Srvs
    PROVE  Heard(s)' = Heard(s)
<1>1. CASE UNCHANGED stack
  BY <1>1 DEF Heard
<1>2. CASE stack # <<>> /\ Silent(Top) /\ Return
  BY <1>2, SilentHears, HeardPop
<1>3. CASE /\ stack # <<>> /\ Top.fn # "js"
           /\ \E f \in Frame : /\ f.fn # "js"
                               /\ Goto(f) \/ \E a \in Frame : Silent(a) /\ stack' = Over(f) \o <<a>>
  <2>1. PICK f \in Frame : f.fn # "js" /\ (Goto(f) \/ \E a \in Frame : Silent(a) /\ stack' = Over(f) \o <<a>>)
    BY <1>3
  <2>2. CASE Goto(f)
    BY <1>3, <2>1, <2>2, HeardOver
  <2>3. CASE \E a \in Frame : Silent(a) /\ stack' = Over(f) \o <<a>>
    <3>1. PICK a \in Frame : Silent(a) /\ stack' = Over(f) \o <<a>>
      BY <2>3
    <3>2. ~Hears(a, s)
      BY <3>1, SilentHears
    <3> QED
      BY <1>3, <2>1, <3>1, <3>2, HeardOver
  <2> QED
    BY <2>1, <2>2, <2>3
<1>4. CASE \E a, b \in Frame : Silent(a) /\ Silent(b) /\ (Call(<<a>>) \/ Call(<<a, b>>))
  <2>1. PICK a \in Frame, b \in Frame : Silent(a) /\ Silent(b) /\ (Call(<<a>>) \/ Call(<<a, b>>))
    BY <1>4
  <2>2. ~Hears(a, s) /\ ~Hears(b, s)
    BY <2>1, SilentHears
  <2> QED
    BY <2>1, <2>2, HeardCall
<1> QED
  BY <1>1, <1>2, <1>3, <1>4 DEF Quiet

LEMMA QuietStep ==
    ASSUME Kept, Kept', RefsInv, UNCHANGED srvVars, fault' = "none" => fault = "none" /\ Quiet
    PROVE  RefsInv'
<1>1. UNCHANGED <<refc, handles>>
  BY DEF srvVars
<1>2. \A s \in Srvs : Live(s)' => Live(s) /\ (s \in Listed(servers)' <=> s \in Listed(servers))
  BY DEF srvVars, Live, Listed
<1>3. fault' = "none" => \A s \in Srvs : Heard(s)' = Heard(s)
  BY QuietHeard
<1> QED
  BY <1>1, <1>2, <1>3, RefsSteady

LEMMA CrashRefs ==
    ASSUME Kept, Kept', RefsInv, NEW why \in {"freed", "null", "active coroutine"}, Crash(why)
    PROVE  RefsInv'
BY QuietStep DEF Crash

LEMMA RemoveHeard ==
    ASSUME Kept, NEW p \in Plugs, NEW below \in Seq(Frame), DOMAIN below = DOMAIN stack,
           \A i \in DOMAIN stack :
              \/ below[i] = stack[i]
              \/ stack[i].fn # "js" /\ below[i].fn \notin {"js", "dispatch"},
           irc_bot_plugin_remove(p, below), NEW s \in Srvs
    PROVE  Heard(s)' = Heard(s)
<1>1. PICK n : n = Len(stack)
  OBVIOUS
<1>2. n \in Nat /\ DOMAIN stack = 1..n /\ Len(below) = n /\ DOMAIN below = 1..n
  <2>1. stack \in Seq(Frame)
    BY DEF Kept
  <2>2. n \in Nat /\ DOMAIN stack = 1..n
    BY <1>1, <2>1, LenProperties
  <2> QED
    BY <2>2, LenProperties
<1>3. PICK u : u = [fn |-> "plugin_remove", p |-> p]
  OBVIOUS
<1>4. PICK v : v = Js(p, Nil)
  OBVIOUS
<1>5. u \in Frame /\ v \in Frame /\ ~Hears(u, s) /\ ~Hears(v, s)
  <2>1. u \in Frame /\ Silent(u)
    BY <1>3 DEF UnloadFrame, Frame, Silent
  <2>2. v \in Frame /\ Silent(v)
    BY <1>4, IsJs DEF Silent, Js
  <2> QED
    BY <2>1, <2>2, SilentHears
<1> DEFINE out == Leave(p, below)
<1>6. /\ out \in Seq(Frame) /\ Len(out) = n
      /\ \A i \in DOMAIN below :
           /\ below[i].fn # "dispatch" => out[i] = below[i]
           /\ below[i].fn = "dispatch" => out[i].fn = "dispatch"
  <2>1. out \in Seq(Frame) /\ Len(out) = Len(below)
    BY LeaveOps
  <2>2. \A j \in DOMAIN below :
           /\ below[j].fn # "dispatch" => out[j] = below[j]
           /\ below[j].fn = "dispatch" => out[j] = [below[j] EXCEPT !.stayed = @ \ {p}] /\ out[j].fn = "dispatch"
    BY LeaveOps
  <2> QED
    BY <1>2, <2>1, <2>2
<1>7. stack' = out \o <<u, v>>
  BY <1>3, <1>4 DEF irc_bot_plugin_remove
<1> HIDE DEF out
<1>8. /\ DOMAIN stack' = 1..(n + 2) /\ stack'[n + 1] = u /\ stack'[n + 2] = v
      /\ \A i \in 1..n : stack'[i] = out[i]
  <2> DEFINE t == out \o <<u, v>>
  <2>1. /\ DOMAIN t = 1..(Len(out) + 2) /\ t[Len(out) + 1] = u /\ t[Len(out) + 2] = v
        /\ \A i \in 1..Len(out) : t[i] = out[i]
    BY <1>5, <1>6, TwoMore
  <2> HIDE DEF t
  <2> QED
    BY <1>6, <1>7, <2>1 DEF t
<1>9. \A i \in 1..n : Hears(stack'[i], s) <=> Hears(stack[i], s)
  <2> TAKE i \in 1..n
  <2>1. /\ below[i].fn # "dispatch" => stack'[i] = below[i]
        /\ below[i].fn = "dispatch" => stack'[i].fn = "dispatch"
    BY <1>2, <1>6, <1>8
  <2>2. \/ below[i] = stack[i]
        \/ stack[i].fn # "js" /\ below[i].fn \notin {"js", "dispatch"}
    BY <1>2
  <2> QED
    BY <2>1, <2>2 DEF Hears
<1>10. \A i \in 1..(n + 2) : i \in 1..n \/ i = n + 1 \/ i = n + 2
  BY <1>2
<1>11. 1..n \subseteq 1..(n + 2)
  BY <1>2
<1>12. \A i : i \in DOMAIN stack' /\ Hears(stack'[i], s) <=> i \in DOMAIN stack /\ Hears(stack[i], s)
  BY <1>2, <1>5, <1>8, <1>9, <1>10, <1>11
<1> QED
  BY <1>12 DEF Heard, Hears

LEMMA RemovePluginRefs ==
    ASSUME Kept, Kept', RefsInv, fault = "none", NEW p \in Plugs,
           \/ irc_bot_plugin_remove(p, stack)
           \/ /\ stack # <<>> /\ Top.fn # "js"
              /\ \E f \in Frame : f.fn = "plugin_clear" /\ irc_bot_plugin_remove(p, Over(f))
    PROVE  RefsInv'
<1>1. UNCHANGED <<fault, srvVars>>
  BY DEF irc_bot_plugin_remove
<1>2. ASSUME NEW s \in Srvs PROVE Heard(s)' = Heard(s)
  <2>1. CASE irc_bot_plugin_remove(p, stack)
    <3>1. stack \in Seq(Frame)
      BY DEF Kept
    <3> QED
      BY <2>1, <3>1, RemoveHeard
  <2>2. CASE /\ stack # <<>> /\ Top.fn # "js"
             /\ \E f \in Frame : f.fn = "plugin_clear" /\ irc_bot_plugin_remove(p, Over(f))
    <3>1. PICK f \in Frame : f.fn = "plugin_clear" /\ irc_bot_plugin_remove(p, Over(f))
      BY <2>2
    <3>2. PICK below : below = Over(f)
      OBVIOUS
    <3>3. /\ below \in Seq(Frame) /\ DOMAIN below = DOMAIN stack
          /\ \A i \in DOMAIN stack : i # Len(stack) => below[i] = stack[i]
          /\ below[Len(stack)] = f /\ stack[Len(stack)] = Top
      BY <2>2, <3>2, OverOps, Topmost
    <3>4. \A i \in DOMAIN stack :
              \/ below[i] = stack[i]
              \/ stack[i].fn # "js" /\ below[i].fn \notin {"js", "dispatch"}
      BY <2>2, <3>1, <3>3
    <3>5. irc_bot_plugin_remove(p, below)
      BY <3>1, <3>2
    <3> QED
      BY <3>3, <3>4, <3>5, RemoveHeard
  <2> QED
    BY <2>1, <2>2
<1>3. UNCHANGED <<refc, handles>>
  BY <1>1 DEF srvVars
<1>4. \A s \in Srvs : Live(s)' => Live(s) /\ (s \in Listed(servers)' <=> s \in Listed(servers))
  BY <1>1 DEF srvVars, Live, Listed
<1> QED
  BY <1>1, <1>2, <1>3, <1>4, RefsSteady

\* One reference more, one less, or as many.
LEMMA OneRef ==
    ASSUME NEW A, NEW B, IsFiniteSet(A), NEW x
    PROVE  /\ B = A => IsFiniteSet(B) /\ Cardinality(B) = Cardinality(A) + 0
           /\ B = A \cup {x} /\ x \notin A => IsFiniteSet(B) /\ Cardinality(B) = Cardinality(A) + 1
           /\ B = A \ {x} /\ x \in A => IsFiniteSet(B) /\ Cardinality(B) = Cardinality(A) + (-1)
<1>1. Cardinality(A) \in Nat
  BY FS_CardinalityType
<1>2. x \notin A => IsFiniteSet(A \cup {x}) /\ Cardinality(A \cup {x}) = Cardinality(A) + 1
  BY FS_AddElement
<1>3. x \in A => IsFiniteSet(A \ {x}) /\ Cardinality(A \ {x}) = Cardinality(A) - 1
  BY FS_RemoveElement
<1> QED
  BY <1>1, <1>2, <1>3

LEMMA CountFrom ==
    ASSUME Kept, Kept', RefsInv, fault = "none", NEW s \in Srvs, Live(s),
           NEW dl \in Int, NEW dh \in Int, NEW dj \in Int,
           (IF s \in Listed(servers)' THEN 1 ELSE 0) = (IF s \in Listed(servers) THEN 1 ELSE 0) + dl,
           Cardinality(Holders(s))' = Cardinality(Holders(s)) + dh,
           Cardinality(Heard(s))' = Cardinality(Heard(s)) + dj,
           refc'[s] = refc[s] + (dl + dh + dj)
    PROVE  Counted(s)'
<1>1. PICK l : l = IF s \in Listed(servers) THEN 1 ELSE 0
  OBVIOUS
<1>2. PICK h : h = Cardinality(Holders(s))
  OBVIOUS
<1>3. PICK j : j = Cardinality(Heard(s))
  OBVIOUS
<1>4. l \in Nat /\ h \in Nat /\ j \in Nat /\ Counted(s) /\ Cardinality(Places(s)) = l
  BY <1>1, <1>2, <1>3, CountIs DEF RefsInv
<1>5. refc[s] = l + h + j
  BY <1>2, <1>3, <1>4 DEF Counted
<1>6. refc'[s] = (l + dl) + (h + dh) + (j + dj)
  BY <1>4, <1>5
<1> QED
  BY <1>1, <1>2, <1>3, <1>6, CountNext

LEMMA CountSame ==
    ASSUME Kept, Kept', RefsInv, fault = "none", NEW s \in Srvs, Live(s),
           s \in Listed(servers)' <=> s \in Listed(servers), Holders(s)' = Holders(s),
           Heard(s)' = Heard(s), refc'[s] = refc[s]
    PROVE  Counted(s)'
<1>1. PICK h : h = Cardinality(Holders(s))
  OBVIOUS
<1>2. PICK j : j = Cardinality(Heard(s))
  OBVIOUS
<1>3. h \in Nat /\ j \in Nat /\ refc[s] \in Nat
  BY <1>1, <1>2, CountIs DEF RefsInv
<1>4. h = h + 0 /\ j = j + 0 /\ refc[s] = refc[s] + (0 + 0 + 0)
  BY <1>3
<1>5. (IF s \in Listed(servers)' THEN 1 ELSE 0) = (IF s \in Listed(servers) THEN 1 ELSE 0) + 0
  OBVIOUS
<1> QED
  BY <1>1, <1>2, <1>4, <1>5, CountFrom

LEMMA SameHolders ==
    ASSUME UNCHANGED handles, NEW s
    PROVE  Holders(s)' = Holders(s)
BY DEF Holders

\* irc_plugin_handle.
LEMMA HandleRefs ==
    ASSUME BotInv, Kept', RefsInv, Running("dispatch"), NEW p \in Plugs, NEW g \in DispatchFrames,
           g.s = Top.s, Handle(p, g)
    PROVE  RefsInv'
<1>0. Kept /\ stack # <<>> /\ fault = "none" /\ Top.fn = "dispatch"
  BY DEF BotInv, Running
<1>1. PICK v : v = Js(p, g.s)
  OBVIOUS
<1>2. /\ g \in Frame /\ g.fn = "dispatch" /\ g.s \in Srvs
      /\ v \in Frame /\ \A s : Hears(v, s) <=> s = g.s
  BY <1>1, IsJs DEF DispatchFrames, Frame, Hears, Js
<1>3. /\ refc \in [Srvs -> Nat] /\ refc' = [refc EXCEPT ![g.s] = @ + 1] /\ stack' = Over(g) \o <<v>>
      /\ UNCHANGED <<fault, plugVars, servers, link, conn, alive, handles, dropped, twice>>
  BY <1>0, <1>1 DEF Handle, Incref, Kept, SrvInv
<1>4. \A s \in Srvs : Holders(s)' = Holders(s) /\ IsFiniteSet(Holders(s))'
  BY <1>3, SameHolders DEF RefsInv
<1>5. ASSUME NEW s \in Srvs, Live(s)' PROVE Counted(s)'
  <2>1. Live(s) /\ Listed(servers)' = Listed(servers)
    BY <1>3, <1>5 DEF Live, Listed
  <2>2. CASE s = g.s
    <3>1. Heard(s)' = Heard(s) \cup {Len(stack) + 1} /\ Len(stack) + 1 \notin Heard(s)
      BY <1>0, <1>2, <1>3, <2>2, HeardOver
    <3>2. IsFiniteSet(Heard(s)) /\ Cardinality(Holders(s)) \in Nat /\ refc[s] \in Nat
      BY <1>0, CountIs DEF RefsInv
    <3>3. Cardinality(Heard(s))' = Cardinality(Heard(s)) + 1
      BY <3>1, <3>2, OneRef
    <3>4. /\ Cardinality(Holders(s))' = Cardinality(Holders(s)) + 0
          /\ refc'[s] = refc[s] + (0 + 0 + 1)
      BY <1>3, <1>4, <2>2, <3>2
    <3>5. (IF s \in Listed(servers)' THEN 1 ELSE 0) = (IF s \in Listed(servers) THEN 1 ELSE 0) + 0
      BY <2>1
    <3> QED
      BY <1>0, <2>1, <3>3, <3>4, <3>5, CountFrom
  <2>3. CASE s # g.s
    <3>1. Heard(s)' = Heard(s)
      BY <1>0, <1>2, <1>3, <2>3, HeardOver
    <3>2. refc'[s] = refc[s]
      BY <1>3, <2>3
    <3> QED
      BY <1>0, <1>4, <2>1, <3>1, <3>2, CountSame
  <2> QED
    BY <2>2, <2>3
<1> QED
  BY <1>4, <1>5 DEF RefsInv

\* A server that is allocated is not referred to.
LEMMA FreshCounts ==
    ASSUME Kept, NEW s \in Srvs, Fresh(s)
    PROVE  Holders(s) = {} /\ Heard(s) = {} /\ s \notin Listed(servers)
<1>1. Holders(s) = {} /\ s \notin Listed(servers)
  BY DEF Fresh, Holders
<1>2. ASSUME NEW i \in DOMAIN stack, Hears(stack[i], s) PROVE FALSE
  <2>1. stack[i] \in Frame
    BY LenProperties DEF Kept
  <2>2. stack[i] \in JsFrame /\ stack[i].s = s
    BY <1>2, <2>1, Kinds DEF Hears
  <2>3. "s" \in DOMAIN stack[i]
    BY <2>2 DEF JsFrame
  <2> QED
    BY <2>2, <2>3 DEF Fresh
<1> QED
  BY <1>1, <1>2 DEF Heard

\* Irccd.Server objects that come and go.
LEMMA ConstructorRefs ==
    ASSUME BotInv, Kept', RefsInv, NEW s \in Srvs, Server_constructor(s)
    PROVE  RefsInv'
<1>0. /\ Kept /\ stack # <<>> /\ fault = "none" /\ Top.fn = "js" /\ Fresh(s)
      /\ alive' = alive \cup {s} /\ refc' = [refc EXCEPT ![s] = 1]
      /\ handles' = [handles EXCEPT ![Top.p] = @ \cup {s}]
      /\ dropped' = dropped \ {s} /\ twice' = twice \ {s}
      /\ UNCHANGED <<stack, fault, plugVars, servers, conn>>
  BY DEF BotInv, Server_constructor, Script, Running
<1>1. Top.p \in Plugs /\ refc \in [Srvs -> Nat] /\ handles \in [Plugs -> SUBSET Srvs]
  BY <1>0, Topmost, Kinds DEF JsFrame, Kept, SrvInv
<1>2. Holders(s) = {} /\ Heard(s) = {} /\ s \notin Listed(servers)
  BY <1>0, FreshCounts
<1>3. Holders(s)' = {Top.p}
  BY <1>0, <1>1, <1>2 DEF Holders
<1>4. \A t \in Srvs : t # s => Holders(t)' = Holders(t) /\ refc'[t] = refc[t]
  BY <1>0, <1>1 DEF Holders
<1>5. \A t \in Srvs : Heard(t)' = Heard(t) /\ (t \in Listed(servers)' <=> t \in Listed(servers))
  BY <1>0 DEF Heard, Listed
<1>6. \A t \in Srvs : IsFiniteSet(Holders(t))'
  <2>1. PICK q : q = Top.p
    OBVIOUS
  <2>2. IsFiniteSet({q})
    BY FS_Singleton
  <2>3. IsFiniteSet(Holders(s))'
    BY <1>3, <2>1, <2>2
  <2> QED
    BY <1>4, <2>3 DEF RefsInv
<1>7. ASSUME NEW t \in Srvs, Live(t)' PROVE Counted(t)'
  <2>1. CASE t = s
    <3>1. Cardinality(Holders(s))' = 1 /\ Cardinality(Heard(s))' = 0 /\ refc'[s] = 0 + 1 + 0
      <4>1. PICK q : q = Top.p
        OBVIOUS
      <4>2. Cardinality({q}) = 1
        BY FS_Singleton
      <4>3. Cardinality({}) = 0
        BY FS_EmptySet
      <4>4. Heard(s)' = {} /\ Holders(s)' = {q} /\ refc'[s] = 1
        BY <1>0, <1>1, <1>2, <1>3, <1>5, <4>1
      <4> QED
        BY <4>2, <4>3, <4>4
    <3>2. 0 = IF s \in Listed(servers)' THEN 1 ELSE 0
      BY <1>2, <1>5
    <3> QED
      BY <2>1, <3>1, <3>2, CountNext
  <2>2. CASE t # s
    <3>1. Live(t)
      BY <1>0, <1>7, <2>2 DEF Live
    <3> QED
      BY <1>0, <1>4, <1>5, <2>2, <3>1, CountSame
  <2> QED
    BY <2>1, <2>2
<1> QED
  BY <1>6, <1>7 DEF RefsInv

LEMMA FindRefs ==
    ASSUME BotInv, Kept', RefsInv, NEW s \in Srvs, Server_find(s)
    PROVE  RefsInv'
<1>0. /\ Kept /\ stack # <<>> /\ fault = "none" /\ Top.fn = "js" /\ s \notin handles[Top.p]
      /\ refc' = [refc EXCEPT ![s] = @ + 1] /\ handles' = [handles EXCEPT ![Top.p] = @ \cup {s}]
      /\ UNCHANGED <<stack, fault, plugVars, servers, link, conn, alive, dropped, twice>>
  BY DEF BotInv, Server_find, Script, Running, Incref
<1>1. Top.p \in Plugs /\ refc \in [Srvs -> Nat] /\ handles \in [Plugs -> SUBSET Srvs]
  BY <1>0, Topmost, Kinds DEF JsFrame, Kept, SrvInv
<1>2. Holders(s)' = Holders(s) \cup {Top.p} /\ Top.p \notin Holders(s)
  BY <1>0, <1>1 DEF Holders
<1>3. \A t \in Srvs : t # s => Holders(t)' = Holders(t) /\ refc'[t] = refc[t]
  BY <1>0, <1>1 DEF Holders
<1>4. \A t \in Srvs : /\ Heard(t)' = Heard(t) /\ (t \in Listed(servers)' <=> t \in Listed(servers))
                      /\ Live(t)' <=> Live(t)
  BY <1>0 DEF Heard, Listed, Live
<1>5. IsFiniteSet(Holders(s))' /\ Cardinality(Holders(s))' = Cardinality(Holders(s)) + 1
  BY <1>2, OneRef DEF RefsInv
<1>6. \A t \in Srvs : IsFiniteSet(Holders(t))'
  BY <1>3, <1>5 DEF RefsInv
<1>7. ASSUME NEW t \in Srvs, Live(t)' PROVE Counted(t)'
  <2>1. CASE t = s
    <3>1. Cardinality(Heard(s)) \in Nat /\ refc[s] \in Nat
      BY <1>0, CountIs DEF RefsInv
    <3>2. Cardinality(Heard(s))' = Cardinality(Heard(s)) + 0 /\ refc'[s] = refc[s] + (0 + 1 + 0)
      BY <1>0, <1>1, <1>4, <3>1
    <3>3. (IF s \in Listed(servers)' THEN 1 ELSE 0) = (IF s \in Listed(servers) THEN 1 ELSE 0) + 0
      BY <1>4
    <3> QED
      BY <1>0, <1>4, <1>5, <1>7, <2>1, <3>2, <3>3, CountFrom
  <2>2. CASE t # s
    BY <1>0, <1>3, <1>4, <1>7, <2>2, CountSame
  <2> QED
    BY <2>1, <2>2
<1> QED
  BY <1>6, <1>7 DEF RefsInv

\* A reference that is given back.
LEMMA DecrefRefs ==
    ASSUME Kept, Kept', RefsInv, fault = "none", NEW s \in Srvs, Decref(s), refc[s] # 0,
           UNCHANGED <<dropped, twice>>,
           \A t \in Srvs : t # s => /\ Holders(t)' = Holders(t) /\ Heard(t)' = Heard(t)
                                    /\ t \in Listed(servers)' <=> t \in Listed(servers),
           IsFiniteSet(Holders(s))',
           s \notin twice =>
              \E dl, dh, dj \in Int :
                 /\ dl + dh + dj = -1
                 /\ (IF s \in Listed(servers)' THEN 1 ELSE 0) = (IF s \in Listed(servers) THEN 1 ELSE 0) + dl
                 /\ Cardinality(Holders(s))' = Cardinality(Holders(s)) + dh
                 /\ Cardinality(Heard(s))' = Cardinality(Heard(s)) + dj
    PROVE  RefsInv'
<1>1. /\ refc \in [Srvs -> Nat] /\ refc' = [refc EXCEPT ![s] = @ - 1] /\ alive' \subseteq alive
  BY DEF Decref, Kept, SrvInv
<1>2. \A t \in Srvs : IsFiniteSet(Holders(t))'
  BY DEF RefsInv
<1>3. ASSUME NEW t \in Srvs, Live(t)' PROVE Counted(t)'
  <2>1. Live(t)
    BY <1>1, <1>3 DEF Live
  <2>2. CASE t = s
    <3>1. PICK dl \in Int, dh \in Int, dj \in Int :
             /\ dl + dh + dj = -1
             /\ (IF s \in Listed(servers)' THEN 1 ELSE 0) = (IF s \in Listed(servers) THEN 1 ELSE 0) + dl
             /\ Cardinality(Holders(s))' = Cardinality(Holders(s)) + dh
             /\ Cardinality(Heard(s))' = Cardinality(Heard(s)) + dj
      BY <2>1, <2>2 DEF Live
    <3>2. refc'[s] = refc[s] + (dl + dh + dj)
      BY <1>1, <3>1
    <3> QED
      BY <2>1, <2>2, <3>1, <3>2, CountFrom
  <2>3. CASE t # s
    <3>1. refc'[t] = refc[t]
      BY <1>1, <2>3
    <3> QED
      BY <2>1, <2>3, <3>1, CountSame
  <2> QED
    BY <2>2, <2>3
<1> QED
  BY <1>2, <1>3 DEF RefsInv

LEMMA DestructorRefs ==
    ASSUME BotInv, Kept', RefsInv, NEW s \in Srvs, Server_destructor(s)
    PROVE  RefsInv'
<1>0. /\ Kept /\ stack # <<>> /\ fault = "none" /\ Top.fn = "js" /\ s \in handles[Top.p]
  BY DEF BotInv, Server_destructor, Script, Running
<1>1. CASE Crash("freed")
  BY <1>0, <1>1, CrashRefs
<1>2. CASE ~Crash("freed")
  <2>1. /\ ~FinalizeFails(s) /\ Decref(s) /\ handles' = [handles EXCEPT ![Top.p] = @ \ {s}]
        /\ UNCHANGED <<stack, fault, plugVars, servers, link, dropped, twice>>
    BY <1>2 DEF Server_destructor
  <2>2. Top.p \in Plugs /\ handles \in [Plugs -> SUBSET Srvs]
    BY <1>0, Topmost, Kinds DEF JsFrame, Kept, SrvInv
  <2>3. Holders(s)' = Holders(s) \ {Top.p} /\ Top.p \in Holders(s)
    BY <1>0, <2>1, <2>2 DEF Holders
  <2>4. \A t \in Srvs : t # s => Holders(t)' = Holders(t)
    BY <2>1, <2>2 DEF Holders
  <2>5. \A t \in Srvs : Heard(t)' = Heard(t) /\ (t \in Listed(servers)' <=> t \in Listed(servers))
    BY <2>1 DEF Heard, Listed
  <2>6. IsFiniteSet(Holders(s))' /\ Cardinality(Holders(s))' = Cardinality(Holders(s)) + (-1)
    BY <2>3, OneRef DEF RefsInv
  <2>7. Cardinality(Heard(s))' = Cardinality(Heard(s)) + 0
    <3>1. Cardinality(Heard(s)) \in Nat
      BY <1>0, CountIs DEF RefsInv
    <3> QED
      BY <2>5, <3>1
  <2>8. (IF s \in Listed(servers)' THEN 1 ELSE 0) = (IF s \in Listed(servers) THEN 1 ELSE 0) + 0
    BY <2>5
  <2>9. refc[s] # 0
    BY <2>1 DEF FinalizeFails, DecrefFails
  <2>10. 0 + (-1) + 0 = -1 /\ 0 \in Int /\ -1 \in Int
    OBVIOUS
  <2> QED
    BY <1>0, <2>1, <2>4, <2>5, <2>6, <2>7, <2>8, <2>9, <2>10, DecrefRefs
<1> QED
  BY <1>1, <1>2

LEMMA ReturnRefs ==
    ASSUME BotInv, Kept', RefsInv, js_return
    PROVE  RefsInv'
<1>0. /\ Kept /\ stack # <<>> /\ fault = "none" /\ Top.fn = "js"
  BY DEF BotInv, js_return, Script, Running
<1>1. PICK s : s = Top.s
  OBVIOUS
<1>2. s \in Srvs \cup {Nil}
  BY <1>0, <1>1, Topmost, Kinds DEF JsFrame
<1>3. \/ s = Nil /\ Return /\ UNCHANGED <<fault, plugVars, srvVars>>
      \/ Crash("freed")
      \/ /\ s # Nil /\ ~FinalizeFails(s) /\ Return /\ Decref(s)
         /\ UNCHANGED <<fault, plugVars, servers, link, handles, dropped, twice>>
  BY <1>1 DEF js_return
<1>4. CASE s = Nil /\ Return /\ UNCHANGED <<fault, plugVars, srvVars>>
  BY <1>0, <1>1, <1>4, QuietStep DEF Quiet, Silent
<1>5. CASE /\ s # Nil /\ ~FinalizeFails(s) /\ Return /\ Decref(s)
           /\ UNCHANGED <<fault, plugVars, servers, link, handles, dropped, twice>>
  <2>1. s \in Srvs /\ refc[s] # 0
    BY <1>2, <1>5 DEF FinalizeFails, DecrefFails
  <2>2. Heard(s)' = Heard(s) \ {Len(stack)} /\ Len(stack) \in Heard(s)
    BY <1>0, <1>1, <1>5, HeardPop DEF Hears
  <2>3. \A t \in Srvs : t # s => Heard(t)' = Heard(t)
    BY <1>0, <1>1, <1>5, HeardPop DEF Hears
  <2>4. \A t \in Srvs : Holders(t)' = Holders(t) /\ (t \in Listed(servers)' <=> t \in Listed(servers))
    BY <1>5 DEF Holders, Listed
  <2>5. IsFiniteSet(Heard(s)) /\ Cardinality(Holders(s)) \in Nat
    BY <1>0, <2>1, CountIs DEF RefsInv
  <2>6. Cardinality(Heard(s))' = Cardinality(Heard(s)) + (-1)
    BY <2>2, <2>5, OneRef
  <2>7. Cardinality(Holders(s))' = Cardinality(Holders(s)) + 0 /\ IsFiniteSet(Holders(s))'
    BY <2>1, <2>4, <2>5 DEF RefsInv
  <2>8. (IF s \in Listed(servers)' THEN 1 ELSE 0) = (IF s \in Listed(servers) THEN 1 ELSE 0) + 0
    BY <2>1, <2>4
  <2>9. 0 + 0 + (-1) = -1 /\ 0 \in Int /\ -1 \in Int
    OBVIOUS
  <2> QED
    BY <1>0, <1>5, <2>1, <2>3, <2>4, <2>6, <2>7, <2>8, <2>9, DecrefRefs
<1> QED
  BY <1>0, <1>3, <1>4, <1>5, CrashRefs


\* irc_bot_server_add: the list holds a reference.
LEMMA ListedCounts ==
    ASSUME BotInv, Kept', RefsInv, fault = "none", NEW s \in Srvs, NEW n \in Nat,
           Get(servers, NameOf[s]) = Nil, Connected(s, n), UNCHANGED <<stack, fault, handles>>,
           \A t \in Srvs : t # s /\ Live(t)' => Live(t),
           Live(s)' => Cardinality(Holders(s)) + Cardinality(Heard(s)) = n
    PROVE  RefsInv'
<1>0. Kept
  BY DEF BotInv
<1>1. /\ refc \in [Srvs -> Nat] /\ refc' = [refc EXCEPT ![s] = n + 1] /\ servers' = Append(servers, s)
      /\ servers \in Seq(Srvs) /\ Listed(servers) \subseteq Srvs
  <2>1. servers \in Seq(Srvs) /\ refc \in [Srvs -> Nat]
    BY <1>0 DEF Kept, SrvInv
  <2> QED
    BY <2>1, HeadListed DEF Connected
<1>2. s \notin Listed(servers)
  BY <1>1, GetListed, BotAssumption
<1>3. Listed(servers)' = Listed(servers) \cup {s}
  <2>1. servers' = Append(servers, s) /\ servers \in Seq(Srvs) /\ Once(servers)
    BY <1>0, <1>1 DEF Kept, SrvInv
  <2>2. Listed(servers') = Listed(servers) \cup {s}
    BY <1>2, <2>1, AppendOps
  <2> QED
    BY <2>2 DEF Listed
<1>4. \A t \in Srvs : Heard(t)' = Heard(t) /\ Holders(t)' = Holders(t)
  BY DEF Heard, Holders
<1>5. \A t \in Srvs : IsFiniteSet(Holders(t))'
  BY <1>4 DEF RefsInv
<1>6. ASSUME NEW t \in Srvs, Live(t)' PROVE Counted(t)'
  <2>1. CASE t = s
    <3>1. PICK h : h = Cardinality(Holders(s))
      OBVIOUS
    <3>2. PICK j : j = Cardinality(Heard(s))
      OBVIOUS
    <3>3. h \in Nat /\ j \in Nat
      BY <1>0, <3>1, <3>2, CountIs DEF RefsInv
    <3>4. refc'[s] = 1 + h + j
      <4>1. h + j = n
        BY <1>6, <2>1, <3>1, <3>2
      <4>2. refc'[s] = n + 1
        BY <1>1
      <4> QED
        BY <3>3, <4>1, <4>2
    <3>5. 1 = IF s \in Listed(servers)' THEN 1 ELSE 0
      BY <1>3
    <3> QED
      BY <1>4, <2>1, <3>1, <3>2, <3>4, <3>5, CountNext
  <2>2. CASE t # s
    <3>1. Live(t) /\ refc'[t] = refc[t] /\ (t \in Listed(servers)' <=> t \in Listed(servers))
      BY <1>1, <1>3, <1>6, <2>2
    <3> QED
      BY <1>0, <1>4, <3>1, CountSame
  <2> QED
    BY <2>1, <2>2
<1> QED
  BY <1>5, <1>6 DEF RefsInv

LEMMA AddRefs ==
    ASSUME BotInv, Kept', RefsInv, NEW s \in Srvs, Server_add(s)
    PROVE  RefsInv'
<1>0. Kept /\ fault = "none"
  BY DEF BotInv, Server_add, Script, Running
<1>1. \/ Crash("freed")
      \/ /\ irc_bot_server_add(s) /\ UNCHANGED <<stack, fault, plugVars, alive, handles, dropped, twice>>
  BY DEF Server_add
<1>2. CASE UNCHANGED <<servers, link, conn, refc, stack, fault, plugVars, alive, handles, dropped, twice>>
  BY <1>0, <1>2, QuietStep DEF Quiet, srvVars
<1>3. CASE /\ Get(servers, NameOf[s]) = Nil /\ Connected(s, refc[s])
           /\ UNCHANGED <<stack, fault, plugVars, alive, handles, dropped, twice>>
  <2>1. s \notin Listed(servers)
    <3>1. Listed(servers) \subseteq Srvs
      <4>1. servers \in Seq(Srvs)
        BY <1>0 DEF Kept, SrvInv
      <4> QED
        BY <4>1, HeadListed
    <3> QED
      BY <1>3, <3>1, GetListed, BotAssumption
  <2>2. \A t \in Srvs : Live(t)' => Live(t)
    BY <1>3 DEF Live
  <2>3. ASSUME Live(s)' PROVE Cardinality(Holders(s)) + Cardinality(Heard(s)) = refc[s]
    <3>1. Counted(s) /\ Cardinality(Places(s)) = 0
      BY <1>0, <2>1, <2>2, <2>3, CountIs DEF RefsInv
    <3>2. Cardinality(Holders(s)) \in Nat /\ Cardinality(Heard(s)) \in Nat
      BY <1>0, CountIs DEF RefsInv
    <3> QED
      BY <3>1, <3>2 DEF Counted
  <2>4. refc[s] \in Nat
    BY <1>0, CountIs DEF RefsInv
  <2> QED
    BY <1>0, <1>3, <2>2, <2>3, <2>4, ListedCounts
<1> QED
  BY <1>0, <1>1, <1>2, <1>3, CrashRefs DEF irc_bot_server_add

LEMMA CommandRefs ==
    ASSUME BotInv, Kept', RefsInv, NEW s \in Srvs, cmd_server_connect(s) \/ cmd_server_disconnect(s)
    PROVE  RefsInv'
<1>0. Kept /\ fault = "none"
  BY DEF BotInv, cmd_server_connect, cmd_server_disconnect, Idle
<1>1. CASE cmd_server_connect(s)
  <2>1. /\ Fresh(s) /\ Get(servers, NameOf[s]) = Nil /\ Connected(s, 0) /\ alive' = alive \cup {s}
        /\ dropped' = dropped \ {s} /\ twice' = twice \ {s}
        /\ UNCHANGED <<stack, fault, plugVars, handles>>
    BY <1>1 DEF cmd_server_connect
  <2>2. \A t \in Srvs : t # s /\ Live(t)' => Live(t)
    BY <2>1 DEF Live
  <2>3. Cardinality(Holders(s)) + Cardinality(Heard(s)) = 0
    <3>1. Cardinality({}) = 0
      BY FS_EmptySet
    <3> QED
      BY <1>0, <2>1, <3>1, FreshCounts
  <2> QED
    BY <1>0, <2>1, <2>2, <2>3, ListedCounts
<1>2. CASE cmd_server_disconnect(s)
  <2>1. UNCHANGED <<stack, fault, plugVars, servers, link, refc, alive, handles, dropped, twice>>
    BY <1>2 DEF cmd_server_disconnect
  <2>2. \A t \in Srvs : Live(t)' => Live(t) /\ (t \in Listed(servers)' <=> t \in Listed(servers))
    BY <2>1 DEF Live, Listed
  <2>3. \A t \in Srvs : Heard(t)' = Heard(t)
    BY <2>1 DEF Heard
  <2> QED
    BY <1>0, <2>1, <2>2, <2>3, RefsSteady
<1> QED
  BY <1>1, <1>2

\* The calls of irc_bot_server_remove.
LEMMA RemoveRefs ==
    ASSUME BotInv, Kept', RefsInv, fault = "none", NEW s \in Srvs, s \in Listed(servers),
           \/ irc_bot_server_remove(s, stack)
           \/ /\ stack # <<>> /\ Top.fn = "server_clear"
              /\ \E g \in Frame : g.fn = "server_clear" /\ irc_bot_server_remove(s, Over(g))
    PROVE  RefsInv'
<1>0. Kept
  BY DEF BotInv
<1>1. PICK u : u = Removing(s)
  OBVIOUS
<1>2. PICK v : v = DispatchFrame("event", s, {})
  OBVIOUS
<1>3. u \in Frame /\ v \in Frame
  BY <1>0, <1>1, <1>2, IsRemoving, FreshDispatch
<1>4. \A t : ~Hears(u, t) /\ ~Hears(v, t)
  BY <1>1, <1>2 DEF Hears, Removing, DispatchFrame
<1>5. CASE Crash("active coroutine")
  BY <1>0, <1>5, CrashRefs
<1>6. CASE ~Crash("active coroutine")
  <2>1. /\ twice' = IF \E i \in DOMAIN stack : stack[i] = u THEN twice \cup {s} ELSE twice
        /\ UNCHANGED <<fault, plugVars, servers, link, refc, alive, handles, dropped>>
        /\ \/ Call(<<u, v>>)
           \/ /\ stack # <<>> /\ Top.fn = "server_clear"
              /\ \E g \in Frame : g.fn = "server_clear" /\ stack' = Over(g) \o <<u, v>>
    BY <1>1, <1>2, <1>6 DEF irc_bot_server_remove, Call
  <2>2. ASSUME NEW t \in Srvs PROVE Heard(t)' = Heard(t)
    BY <1>0, <1>3, <1>4, <2>1, HeardCall, HeardOver
  <2>3. \A t \in Srvs : Live(t)' => Live(t) /\ (t \in Listed(servers)' <=> t \in Listed(servers))
    <3>1. twice \subseteq twice'
      BY <2>1
    <3> QED
      BY <2>1, <3>1 DEF Live, Listed
  <2> QED
    BY <1>0, <2>1, <2>2, <2>3, RefsSteady
<1> QED
  BY <1>5, <1>6

LEMMA ServerClearRefs ==
    ASSUME BotInv, Kept', RefsInv, irc_bot_server_clear
    PROVE  RefsInv'
<1>0. Kept /\ SrvInv /\ stack # <<>> /\ fault = "none" /\ Top.fn = "server_clear"
  BY DEF BotInv, Kept, irc_bot_server_clear, Running
<1>1. PICK s : s = Top.s
  OBVIOUS
<1>2. s \in Srvs \cup {Nil}
  BY <1>0, <1>1, Topmost, Kinds DEF ClearFrame
<1>3. CASE s = Nil
  <2>1. /\ Return /\ servers' = <<>> /\ dropped' = dropped \cup Listed(servers)
        /\ UNCHANGED <<fault, plugVars, conn, refc, alive, handles, twice>>
    BY <1>1, <1>3 DEF irc_bot_server_clear
  <2>2. Listed(servers)' = {}
    BY <2>1, Nothing DEF Listed
  <2>3. \A t \in Srvs : Live(t)' => Live(t) /\ (t \in Listed(servers)' <=> t \in Listed(servers))
    BY <2>1, <2>2 DEF Live
  <2>4. \A t \in Srvs : Heard(t)' = Heard(t)
    BY <1>0, <2>1, HeardPop DEF Hears
  <2> QED
    BY <1>0, <2>1, <2>3, <2>4, RefsSteady
<1>4. CASE s # Nil
  <2>1. PICK g : g = Clearing(NextServer(s))
    OBVIOUS
  <2>2. g \in Frame /\ g.fn = "server_clear"
    <3>1. NextServer(s) \in Srvs \cup {Nil}
      BY <1>0, <1>2, <1>4, ServersOps
    <3> QED
      BY <2>1, <3>1, IsClearing
  <2>3. PICK r : r = Get(servers, NameOf[s])
    OBVIOUS
  <2>4. \/ Crash("freed")
        \/ Skip(g)
        \/ r # Nil /\ irc_bot_server_remove(r, Over(g))
    BY <1>1, <1>4, <2>1, <2>3 DEF irc_bot_server_clear
  <2>5. CASE Skip(g)
    BY <1>0, <2>2, <2>5, QuietStep DEF Skip, Quiet
  <2>6. CASE r # Nil /\ irc_bot_server_remove(r, Over(g))
    <3>1. r \in Listed(servers) /\ r \in Srvs
      BY <1>0, <2>3, <2>6, ServersOps
    <3> QED
      BY <1>0, <2>2, <2>6, <3>1, RemoveRefs
  <2> QED
    BY <1>0, <2>4, <2>5, <2>6, CrashRefs
<1> QED
  BY <1>3, <1>4

\* The reference of the list goes with its place in it.
LEMMA RemoveEndRefs ==
    ASSUME BotInv, Kept', RefsInv, server_remove_end
    PROVE  RefsInv'
<1>0. /\ Kept /\ SrvInv /\ stack # <<>> /\ fault = "none" /\ Top.fn = "server_remove"
  BY DEF BotInv, Kept, server_remove_end, Running
<1>1. PICK s : s = Top.s
  OBVIOUS
<1>2. s \in Srvs
  BY <1>0, <1>1, Topmost, Kinds DEF RemoveFrame
<1>3. \/ Crash("freed")
      \/ /\ ~DecrefFails(s) /\ Return /\ servers' = LL_DELETE(servers, s) /\ Decref(s)
         /\ UNCHANGED <<fault, plugVars, handles, dropped, twice>>
  BY <1>1 DEF server_remove_end
<1>4. CASE /\ ~DecrefFails(s) /\ Return /\ servers' = LL_DELETE(servers, s) /\ Decref(s)
           /\ UNCHANGED <<fault, plugVars, handles, dropped, twice>>
  <2>1. Listed(servers)' = Listed(servers) \ {s}
    <3>1. Listed(servers') = Listed(servers) \ {s}
      BY <1>0, <1>4, DeleteOps DEF SrvInv
    <3> QED
      BY <3>1 DEF Listed
  <2>2. \A t \in Srvs : Heard(t)' = Heard(t) /\ Holders(t)' = Holders(t)
    BY <1>0, <1>4, HeardPop, SameHolders DEF Hears
  <2>3. s \notin twice => s \in Listed(servers)
    <3>1. Lasts(Len(stack), stack[Len(stack)]) /\ stack[Len(stack)] = Top
      BY <1>0, Topmost DEF BotInv
    <3> QED
      BY <1>0, <1>1, <3>1 DEF Lasts
  <2>4. IsFiniteSet(Holders(s))'
    BY <1>2, <2>2 DEF RefsInv
  <2>5. /\ Cardinality(Holders(s))' = Cardinality(Holders(s)) + 0
        /\ Cardinality(Heard(s))' = Cardinality(Heard(s)) + 0
    <3>1. Cardinality(Holders(s)) \in Nat /\ Cardinality(Heard(s)) \in Nat
      BY <1>0, <1>2, CountIs DEF RefsInv
    <3> QED
      BY <1>2, <2>2, <3>1
  <2>6. s \notin twice =>
          (IF s \in Listed(servers)' THEN 1 ELSE 0) = (IF s \in Listed(servers) THEN 1 ELSE 0) + (-1)
    BY <2>1, <2>3
  <2>7. -1 + 0 + 0 = -1 /\ 0 \in Int /\ -1 \in Int
    OBVIOUS
  <2>8. refc[s] # 0
    BY <1>4 DEF DecrefFails
  <2> QED
    BY <1>0, <1>2, <1>4, <2>1, <2>2, <2>4, <2>5, <2>6, <2>7, <2>8, DecrefRefs
<1> QED
  BY <1>0, <1>3, <1>4, CrashRefs

\* The Irccd.Server objects of a plugin go with its heap.
LEMMA HeapRefs ==
    ASSUME BotInv, Kept', RefsInv, stack # <<>>, fault = "none", Top.fn # "js", NEW p \in Plugs,
           ~FinishFails(p), Return, HeapDestroyed(p)
    PROVE  RefsInv'
<1>0. /\ Kept /\ refc \in [Srvs -> Nat] /\ handles \in [Plugs -> SUBSET Srvs]
      /\ refc' = [s \in Srvs |-> IF s \in handles[p] THEN refc[s] - 1 ELSE refc[s]]
      /\ alive' \subseteq alive /\ handles' = [handles EXCEPT ![p] = {}]
      /\ UNCHANGED <<fault, servers, dropped, twice>>
  BY DEF BotInv, Kept, SrvInv, HeapDestroyed
<1>1. \A t \in Srvs : /\ Heard(t)' = Heard(t) /\ (t \in Listed(servers)' <=> t \in Listed(servers))
                      /\ Live(t)' => Live(t)
  BY <1>0, HeardPop DEF Hears, Listed, Live
<1>2. \A t \in Srvs : Holders(t)' = Holders(t) \ {p}
  BY <1>0 DEF Holders
<1>3. \A t \in Srvs : p \in Holders(t) <=> t \in handles[p]
  BY DEF Holders
<1>4. \A t \in Srvs : IsFiniteSet(Holders(t))'
  <2> TAKE t \in Srvs
  <2>1. IsFiniteSet(Holders(t)) /\ Holders(t)' \subseteq Holders(t)
    BY <1>2 DEF RefsInv
  <2> QED
    BY <2>1, FS_Subset
<1>5. ASSUME NEW t \in Srvs, Live(t)' PROVE Counted(t)'
  <2>1. CASE t \in handles[p]
    <3>1. Cardinality(Holders(t))' = Cardinality(Holders(t)) + (-1)
      BY <1>2, <1>3, <2>1, OneRef DEF RefsInv
    <3>2. Cardinality(Heard(t))' = Cardinality(Heard(t)) + 0 /\ refc[t] \in Nat
      <4>1. Cardinality(Heard(t)) \in Nat /\ refc[t] \in Nat
        BY <1>0, CountIs DEF RefsInv
      <4> QED
        BY <1>1, <4>1
    <3>3. refc'[t] = refc[t] + (0 + (-1) + 0)
      BY <1>0, <2>1, <3>2
    <3>4. (IF t \in Listed(servers)' THEN 1 ELSE 0) = (IF t \in Listed(servers) THEN 1 ELSE 0) + 0
      BY <1>1
    <3>5. 0 \in Int /\ -1 \in Int /\ Live(t)
      BY <1>1, <1>5
    <3> QED
      BY <1>0, <3>1, <3>2, <3>3, <3>4, <3>5, CountFrom
  <2>2. CASE t \notin handles[p]
    <3>1. Holders(t)' = Holders(t) /\ refc'[t] = refc[t] /\ Live(t)
      BY <1>0, <1>1, <1>2, <1>3, <1>5, <2>2
    <3> QED
      BY <1>0, <1>1, <3>1, CountSame
  <2> QED
    BY <2>1, <2>2
<1> QED
  BY <1>4, <1>5 DEF RefsInv


\* Steps of a dispatch.
LEMMA DispatchRefs ==
    ASSUME BotInv, Kept', RefsInv, dispatch_plugins \/ dispatch_command \/ dispatch_observe
    PROVE  RefsInv'
<1>0. /\ Kept /\ stack # <<>> /\ fault = "none" /\ Top.fn = "dispatch" /\ Running("dispatch")
      /\ DispatchMoves /\ Listed(plugins) \subseteq Plugs
  BY DispatchIs, PluginsOps DEF BotInv, Running
<1>1. CASE Return /\ UNCHANGED <<fault, plugVars, srvVars>>
  BY <1>0, <1>1, QuietStep DEF Quiet, Silent
<1>2. CASE \E g \in DispatchFrames :
             /\ Offers(g) /\ g.s = Top.s
             /\ Skip(g) \/ \E p \in Listed(plugins) : Handle(p, g)
  <2>1. PICK g \in DispatchFrames :
             g.s = Top.s /\ (Skip(g) \/ \E p \in Listed(plugins) : Handle(p, g))
    BY <1>2
  <2>2. CASE Skip(g)
    <3>1. g \in Frame /\ g.fn = "dispatch"
      BY DEF DispatchFrames, Frame
    <3> QED
      BY <1>0, <2>2, <3>1, QuietStep DEF Quiet, Skip
  <2>3. CASE \E p \in Listed(plugins) : Handle(p, g)
    BY <1>0, <2>1, <2>3, HandleRefs
  <2> QED
    BY <2>1, <2>2, <2>3
<1> QED
  BY <1>0, <1>1, <1>2, CrashRefs DEF DispatchMoves

LEMMA ConsumerRefs ==
    ASSUME BotInv, Kept', RefsInv, NEW s \in Srvs, NEW ev \in Messages \cup OtherEvents,
           irc_server_consumer_entry(s, ev)
    PROVE  RefsInv'
<1>0. Kept /\ fault = "none" /\ UNCHANGED <<fault, plugVars, srvVars>>
  BY DEF BotInv, irc_server_consumer_entry, Idle
<1>1. PICK g : g = DispatchFrame(ev[1], s, ev[2])
  OBVIOUS
<1>2. g \in Frame /\ g.fn = "dispatch" /\ Call(<<g>>)
  <2>1. ev[1] \in {"message", "event"} /\ ev[2] \in Calls \cup {{}}
    BY DEF Messages, OtherEvents
  <2> QED
    BY <1>0, <1>1, <2>1, FreshDispatch DEF irc_server_consumer_entry
<1> QED
  BY <1>0, <1>2, QuietStep DEF Quiet, Silent

\* Steps about plugins, which call JavaScript without a server.
LEMMA CallRefs ==
    ASSUME Kept, Kept', RefsInv, fault = "none", NEW p \in Plugs, Call(<<Js(p, Nil)>>),
           UNCHANGED <<fault, plugVars, srvVars>>
    PROVE  RefsInv'
<1>1. PICK v : v = Js(p, Nil)
  OBVIOUS
<1>2. v \in Frame /\ Silent(v) /\ Call(<<v>>)
  BY <1>1, IsJs DEF Silent, Js
<1> QED
  BY <1>2, QuietStep DEF Quiet

LEMMA PluginRefs ==
    ASSUME BotInv, Kept', RefsInv,
           \/ \E p \in Plugs : \/ Plugin_unload(NameOf[p]) \/ Plugin_reload(NameOf[p]) \/ stimer_cb(p)
                               \/ cmd_plugin_unload(p)
           \/ irc_bot_plugin_clear
    PROVE  RefsInv'
<1>0. Kept /\ fault = "none" /\ Listed(plugins) \subseteq Plugs
      /\ \A name : Get(plugins, name) \in Plugs \cup {Nil}
  <2>1. Kept /\ fault = "none"
    BY DEF BotInv, Plugin_unload, Plugin_reload, stimer_cb, cmd_plugin_unload, irc_bot_plugin_clear,
           Script, Running, Idle
  <2> QED
    BY <2>1, PluginsOps
<1>1. ASSUME NEW p \in Plugs, Plugin_unload(NameOf[p]) PROVE RefsInv'
  <2>1. PICK q : q = Get(plugins, NameOf[p])
    OBVIOUS
  <2>2. Crash("null") \/ (q # Nil /\ irc_bot_plugin_remove(q, stack))
    BY <1>1, <2>1 DEF Plugin_unload
  <2> QED
    BY <1>0, <2>1, <2>2, CrashRefs, RemovePluginRefs
<1>2. ASSUME NEW p \in Plugs, Plugin_reload(NameOf[p]) PROVE RefsInv'
  <2>1. PICK q : q = Get(plugins, NameOf[p])
    OBVIOUS
  <2>2. Crash("null") \/ (q # Nil /\ Call(<<Js(q, Nil)>>) /\ UNCHANGED <<fault, plugVars, srvVars>>)
    BY <1>2, <2>1 DEF Plugin_reload
  <2> QED
    BY <1>0, <2>1, <2>2, CrashRefs, CallRefs
<1>3. ASSUME NEW p \in Plugs, stimer_cb(p) PROVE RefsInv'
  BY <1>0, <1>3, CallRefs DEF stimer_cb
<1>4. ASSUME NEW p \in Plugs, cmd_plugin_unload(p) PROVE RefsInv'
  <2>1. irc_bot_plugin_remove(p, stack)
    BY <1>4 DEF cmd_plugin_unload, Idle
  <2> QED
    BY <1>0, <2>1, RemovePluginRefs
<1>5. CASE irc_bot_plugin_clear
  <2>1. stack # <<>> /\ Top.fn = "plugin_clear"
    BY <1>5 DEF irc_bot_plugin_clear, Running
  <2>2. PICK p : p = Top.p
    OBVIOUS
  <2>3. \/ Return /\ UNCHANGED <<fault, srvVars>>
        \/ Crash("freed")
        \/ p \in Listed(plugins) /\ irc_bot_plugin_remove(p, Over(Unloading(Successor(plugins, p))))
    BY <1>5, <2>2 DEF irc_bot_plugin_clear
  <2>4. CASE Return /\ UNCHANGED <<fault, srvVars>>
    BY <1>0, <2>1, <2>4, QuietStep DEF Quiet, Silent
  <2>5. CASE p \in Listed(plugins) /\ irc_bot_plugin_remove(p, Over(Unloading(Successor(plugins, p))))
    <3>1. PICK g : g = Unloading(Successor(plugins, p))
      OBVIOUS
    <3>2. g \in Frame /\ g.fn = "plugin_clear" /\ irc_bot_plugin_remove(p, Over(g)) /\ p \in Plugs
      <4>1. Successor(plugins, p) \in Plugs \cup {Nil}
        BY <1>0, <2>5, PluginsOps
      <4> QED
        BY <1>0, <2>5, <3>1, <4>1, IsWalk
    <3> QED
      BY <1>0, <2>1, <3>2, RemovePluginRefs
  <2> QED
    BY <1>0, <2>3, <2>4, <2>5, CrashRefs
<1> QED
  BY <1>1, <1>2, <1>3, <1>4, <1>5

LEMMA ReloadRefs ==
    ASSUME BotInv, Kept', RefsInv, cmd_plugin_reload
    PROVE  RefsInv'
<1>0. /\ Kept /\ stack # <<>> /\ fault = "none" /\ Top.fn = "reload"
  BY DEF BotInv, cmd_plugin_reload, Running
<1>1. PICK p : p = Top.p
  OBVIOUS
<1>2. PICK q : q = Successor(plugins, p)
  OBVIOUS
<1>3. PICK v : v = Js(q, Nil)
  OBVIOUS
<1>4. PICK f : f = Reloading(q)
  OBVIOUS
<1>5. \/ Return /\ UNCHANGED <<fault, plugVars, srvVars>>
      \/ Crash("freed")
      \/ Goto(Reloading(Nil)) /\ UNCHANGED <<fault, plugVars, srvVars>>
      \/ /\ p \in Listed(plugins) /\ q # Nil /\ stack' = Over(f) \o <<v>>
         /\ UNCHANGED <<fault, plugVars, srvVars>>
  BY <1>1, <1>2, <1>3, <1>4 DEF cmd_plugin_reload, Skip
<1>6. CASE Return /\ UNCHANGED <<fault, plugVars, srvVars>>
  BY <1>0, <1>6, QuietStep DEF Quiet, Silent
<1>7. CASE Goto(Reloading(Nil)) /\ UNCHANGED <<fault, plugVars, srvVars>>
  <2>1. PICK g : g = Reloading(Nil)
    OBVIOUS
  <2>2. g \in Frame /\ g.fn # "js" /\ Goto(g)
    BY <1>7, <2>1, IsWalk
  <2> QED
    BY <1>0, <1>7, <2>2, QuietStep DEF Quiet
<1>8. CASE /\ p \in Listed(plugins) /\ q # Nil /\ stack' = Over(f) \o <<v>>
           /\ UNCHANGED <<fault, plugVars, srvVars>>
  <2>1. q \in Plugs
    BY <1>0, <1>2, <1>8, PluginsOps
  <2>2. v \in Frame /\ Silent(v) /\ f \in Frame /\ f.fn # "js"
    BY <1>3, <1>4, <2>1, IsJs, IsWalk DEF Silent, Js
  <2> QED
    BY <1>0, <1>8, <2>2, QuietStep DEF Quiet
<1> QED
  BY <1>0, <1>5, <1>6, <1>7, <1>8, CrashRefs

LEMMA LoadRefs ==
    ASSUME BotInv, Kept', RefsInv, irc_bot_plugin_add \/ \E p \in Plugs : cmd_plugin_load(p)
    PROVE  RefsInv'
<1>0. Kept /\ fault = "none" /\ UNCHANGED <<fault, srvVars>>
  BY DEF BotInv, irc_bot_plugin_add, cmd_plugin_load, Running, Idle
<1>1. CASE irc_bot_plugin_add
  <2>1. stack # <<>> /\ Top.fn = "plugin_add"
    BY <1>1 DEF irc_bot_plugin_add, Running
  <2>2. Top \in AddFrame /\ Top.p \in Plugs
    BY <2>1, AddAlone
  <2>3. PICK f : f = [Top EXCEPT !.step = "load"]
    OBVIOUS
  <2>4. PICK v : v = Js(Top.p, Nil)
    OBVIOUS
  <2>5. v \in Frame /\ Silent(v) /\ f \in Frame /\ f.fn # "js"
    BY <2>2, <2>3, <2>4, IsJs DEF Silent, Js, AddFrame, Frame
  <2>6. Return \/ stack' = Over(f) \o <<v>>
    BY <1>1, <2>3, <2>4 DEF irc_bot_plugin_add
  <2> QED
    BY <1>0, <2>1, <2>5, <2>6, QuietStep DEF Quiet, Silent
<1>2. ASSUME NEW p \in Plugs, cmd_plugin_load(p) PROVE RefsInv'
  <2>1. PICK f : f = [fn |-> "plugin_add", p |-> p, step |-> "script"]
    OBVIOUS
  <2>2. PICK v : v = Js(p, Nil)
    OBVIOUS
  <2>3. v \in Frame /\ Silent(v) /\ f \in Frame /\ Silent(f) /\ Call(<<f, v>>)
    BY <1>2, <2>1, <2>2, IsJs DEF cmd_plugin_load, Silent, Js, AddFrame, Frame
  <2> QED
    BY <1>0, <2>3, QuietStep DEF Quiet
<1> QED
  BY <1>1, <1>2

\* Commands for all servers or all plugins, and the end.
LEMMA AllRefs ==
    ASSUME BotInv, Kept', RefsInv, cmd_server_disconnect_all \/ cmd_plugin_all \/ irc_bot_finish
    PROVE  RefsInv'
<1>0. Kept /\ SrvInv /\ fault = "none" /\ UNCHANGED <<fault, plugVars, srvVars>>
  BY DEF BotInv, Kept, cmd_server_disconnect_all, cmd_plugin_all, irc_bot_finish, Running, Idle
<1>1. PICK g : g = Clearing(HeadOf(servers))
  OBVIOUS
<1>2. PICK u : u = Unloading(HeadOf(plugins))
  OBVIOUS
<1>3. g \in Frame /\ Silent(g) /\ u \in Frame /\ Silent(u)
  BY <1>0, <1>1, <1>2, ServersOps, PluginsOps, IsClearing, IsWalk DEF Silent
<1>4. CASE cmd_server_disconnect_all
  BY <1>0, <1>1, <1>3, <1>4, QuietStep DEF Quiet, cmd_server_disconnect_all
<1>5. CASE cmd_plugin_all
  <2>1. PICK w : w = Reloading(HeadOf(plugins))
    OBVIOUS
  <2>2. PICK v : v = Js(HeadOf(plugins), Nil)
    OBVIOUS
  <2>3. w \in Frame /\ Silent(w) /\ v \in Frame /\ Silent(v)
    <3>1. HeadOf(plugins) \in Plugs
      BY <1>0, <1>5, PluginsOps DEF cmd_plugin_all
    <3> QED
      BY <2>1, <2>2, <3>1, IsWalk, IsJs DEF Silent, Js
  <2>4. Call(<<u>>) \/ Call(<<w, v>>)
    BY <1>2, <1>5, <2>1, <2>2 DEF cmd_plugin_all
  <2> QED
    BY <1>0, <1>3, <2>3, <2>4, QuietStep DEF Quiet
<1>6. CASE irc_bot_finish
  <2>1. PICK f : f = [fn |-> "finish", step |-> "plugins"]
    OBVIOUS
  <2>2. PICK e : e = [Top EXCEPT !.step = "end"]
    OBVIOUS
  <2>3. \/ Call(<<f, g>>)
        \/ Running("finish") /\ stack' = Over(e) \o <<u>>
    BY <1>1, <1>2, <1>6, <2>1, <2>2 DEF irc_bot_finish
  <2>4. CASE Call(<<f, g>>)
    <3>1. f \in Frame /\ Silent(f)
      BY <2>1 DEF FinishFrame, Frame, Silent
    <3> QED
      BY <1>0, <1>3, <2>4, <3>1, QuietStep DEF Quiet
  <2>5. CASE Running("finish") /\ stack' = Over(e) \o <<u>>
    <3>1. stack # <<>> /\ Top.fn = "finish" /\ Top \in FinishFrame
      BY <1>0, <2>5, Topmost, Kinds DEF Running
    <3>2. e \in Frame /\ e.fn # "js"
      BY <2>2, <3>1 DEF FinishFrame, Frame
    <3> QED
      BY <1>0, <1>3, <2>5, <3>1, <3>2, QuietStep DEF Quiet
  <2> QED
    BY <2>3, <2>4, <2>5
<1> QED
  BY <1>4, <1>5, <1>6

LEMMA EndRefs ==
    ASSUME BotInv, Kept', RefsInv, plugin_remove_end \/ script_fails
    PROVE  RefsInv'
<1>0. /\ Kept /\ stack # <<>> /\ fault = "none" /\ Top.fn \in {"plugin_remove", "plugin_add"}
  BY DEF BotInv, plugin_remove_end, script_fails, Running
<1>1. PICK p : p = Top.p
  OBVIOUS
<1>2. p \in Plugs
  <2>1. Top \in Frame
    BY <1>0, Topmost
  <2> QED
    BY <1>0, <1>1, <2>1, Kinds DEF UnloadFrame, AddFrame
<1>3. Crash("freed") \/ (~FinishFails(p) /\ Return /\ HeapDestroyed(p))
  BY <1>1 DEF plugin_remove_end, script_fails
<1> QED
  BY <1>0, <1>2, <1>3, CrashRefs, HeapRefs

LEMMA RefsNext == BotInv /\ RefsInv /\ [Next]_vars => RefsInv'
<1> SUFFICES ASSUME BotInv, RefsInv, [Next]_vars, Kept, Kept'
             PROVE  RefsInv'
  BY NextBot DEF BotInv
<1>1. CASE UNCHANGED vars
  BY <1>1, QuietStep DEF vars, srvVars, Quiet
<1>2. CASE \E s \in Srvs, ev \in Messages \cup OtherEvents : irc_server_consumer_entry(s, ev)
  BY <1>2, ConsumerRefs
<1>3. CASE dispatch_plugins \/ dispatch_command \/ dispatch_observe
  BY <1>3, DispatchRefs
<1>4. CASE server_remove_end \/ irc_bot_server_clear
  BY <1>4, RemoveEndRefs, ServerClearRefs
<1>5. CASE plugin_remove_end \/ irc_bot_plugin_clear \/ cmd_plugin_reload
  BY <1>5, EndRefs, PluginRefs, ReloadRefs
<1>6. CASE script_fails \/ irc_bot_plugin_add
  BY <1>6, EndRefs, LoadRefs
<1>7. ASSUME NEW s \in Srvs,
             \/ Server_constructor(s) \/ Server_add(s) \/ Server_find(s)
             \/ Server_destructor(s) \/ cmd_server_connect(s) \/ cmd_server_disconnect(s)
      PROVE  RefsInv'
  BY <1>7, ConstructorRefs, AddRefs, FindRefs, DestructorRefs, CommandRefs
<1>8. ASSUME NEW s \in Srvs, Server_remove(s) PROVE RefsInv'
  BY <1>8, RemoveRefs DEF Server_remove, Script, Running
<1>9. CASE \E p \in Plugs : \/ Plugin_unload(NameOf[p]) \/ Plugin_reload(NameOf[p])
                            \/ stimer_cb(p) \/ cmd_plugin_load(p) \/ cmd_plugin_unload(p)
  BY <1>9, PluginRefs, LoadRefs
<1>10. CASE js_return \/ cmd_server_disconnect_all \/ cmd_plugin_all \/ irc_bot_finish
  BY <1>10, ReturnRefs, AllRefs
<1> QED
  BY <1>1, <1>2, <1>3, <1>4, <1>5, <1>6, <1>7, <1>8, <1>9, <1>10 DEF Next

\* Every server has as many references as hold it: the list, the Irccd.Server
\* objects of the plugins and the handlers it was given to, unless it was removed
\* while it was being removed or lost by irc_bot_server_clear.
THEOREM RefsAlwaysExact == Spec => []RefsExact
<1>1. Init => RefsInv
  <2> SUFFICES ASSUME Init
               PROVE  RefsInv
    OBVIOUS
  <2>1. \A s \in Srvs : Holders(s) = {} /\ ~Live(s)
    BY DEF Init, Holders, Live
  <2>2. IsFiniteSet({})
    BY FS_EmptySet
  <2> QED
    BY <2>1, <2>2 DEF RefsInv
<1>2. BotInv /\ RefsInv => RefsExact
  <2> SUFFICES ASSUME BotInv, RefsInv, fault = "none", NEW s \in alive \ (twice \cup dropped)
               PROVE  refc[s] = Cardinality({i \in DOMAIN servers : servers[i] = s})
                                + Cardinality({p \in Plugs : s \in handles[p]})
                                + Cardinality({i \in DOMAIN stack : stack[i].fn = "js" /\ stack[i].s = s})
    BY DEF RefsExact
  <2>1. s \in Srvs /\ Live(s)
    BY DEF BotInv, Kept, SrvInv, Live
  <2>2. Counted(s)
    BY <2>1 DEF RefsInv
  <2> QED
    BY <2>2 DEF Counted, Places, Holders, Heard, Hears
<1> QED
  BY <1>1, <1>2, InitBot, NextBot, RefsNext, PTL DEF Spec


-----------------------------------------------------------------------------
(* Calls into plugins.                                                     *)

\* JavaScript that a dispatch, a reload or an unload calls is that of a plugin in the list.
CallsListed ==
    /\ Len(stack') > Len(stack) /\ Last(stack').fn = "js" /\ Len(stack') > 1
    /\ Below \in {"dispatch", "reload", "plugin_remove"}
    => Last(stack').p \in Listed(plugins)

LEMMA NoCall ==
    ASSUME Kept,
           \/ stack # <<>> /\ Return
           \/ stack # <<>> /\ \E f \in Frame : Goto(f)
           \/ stack' = <<>>
           \/ UNCHANGED stack
    PROVE  CallsListed
<1>1. PICK n : n = Len(stack)
  OBVIOUS
<1>2. n \in Nat
  <2>1. stack \in Seq(Frame)
    BY DEF Kept
  <2> QED
    BY <1>1, <2>1, LenProperties
<1>3. PICK m : m = Len(stack')
  OBVIOUS
<1>4. m = n - 1 \/ m = n \/ m = 0
  BY <1>1, <1>3, Returned, Went, Nothing
<1>5. ~(m > n)
  BY <1>2, <1>4
<1> QED
  BY <1>1, <1>3, <1>5 DEF CallsListed

\* The last frames after a step, by its kind.
LEMMA CallEnds ==
    ASSUME Kept, NEW a \in Frame, NEW b \in Frame, NEW f \in Frame
    PROVE  /\ stack # <<>> /\ stack' = Over(f) \o <<a>> => Last(stack') = a /\ Below = f.fn
           /\ stack # <<>> /\ stack' = Over(f) \o <<a, b>> => Last(stack') = b /\ Below = a.fn
           /\ stack # <<>> /\ Call(<<a>>) => Last(stack') = a /\ Below = Top.fn
           /\ stack = <<>> /\ Call(<<a>>) => Last(stack') = a /\ Len(stack') = 1
           /\ Call(<<a, b>>) => Last(stack') = b /\ Below = a.fn
<1>1. PICK n : n = Len(stack)
  OBVIOUS
<1>2. n \in Nat /\ n + 1 - 1 = n /\ n + 2 - 1 = n + 1
  <2>1. stack \in Seq(Frame)
    BY DEF Kept
  <2>2. n \in Nat
    BY <1>1, <2>1, LenProperties
  <2> QED
    BY <2>2
<1>3. ASSUME stack # <<>>, stack' = Over(f) \o <<a>> PROVE Last(stack') = a /\ Below = f.fn
  <2>1. Len(stack') = n + 1 /\ stack'[n] = f /\ stack'[n + 1] = a
    BY <1>1, <1>3, WentCalling
  <2> QED
    BY <1>2, <2>1 DEF Last, Below
<1>4. ASSUME stack # <<>>, stack' = Over(f) \o <<a, b>> PROVE Last(stack') = b /\ Below = a.fn
  <2>1. Len(stack') = n + 2 /\ stack'[n + 1] = a /\ stack'[n + 2] = b
    BY <1>1, <1>4, WentCallingTwo
  <2> QED
    BY <1>2, <2>1 DEF Last, Below
<1>5. ASSUME stack # <<>>, Call(<<a>>) PROVE Last(stack') = a /\ Below = Top.fn
  <2>1. Len(stack') = n + 1 /\ stack'[n + 1] = a /\ Cut(n)
    BY <1>1, <1>5, Called
  <2>2. n \in 1..n /\ stack[n] = Top
    BY <1>1, <1>5, Topmost
  <2>3. stack'[n] = Top
    BY <2>1, <2>2 DEF Cut
  <2> QED
    BY <1>2, <2>1, <2>3 DEF Last, Below
<1>6. ASSUME stack = <<>>, Call(<<a>>) PROVE Last(stack') = a /\ Len(stack') = 1
  <2>1. Len(stack') = n + 1 /\ stack'[n + 1] = a /\ n = 0
    BY <1>1, <1>6, Called, Nothing
  <2> QED
    BY <2>1 DEF Last
<1>7. ASSUME Call(<<a, b>>) PROVE Last(stack') = b /\ Below = a.fn
  <2>1. Len(stack') = n + 2 /\ stack'[n + 1] = a /\ stack'[n + 2] = b
    BY <1>1, <1>7, CalledTwo
  <2> QED
    BY <1>2, <2>1 DEF Last, Below
<1> QED
  BY <1>3, <1>4, <1>5, <1>6, <1>7

LEMMA UnloadCalls ==
    ASSUME Kept, NEW p \in Listed(plugins),
           \/ irc_bot_plugin_remove(p, stack)
           \/ stack # <<>> /\ \E f \in Frame : irc_bot_plugin_remove(p, Over(f))
    PROVE  CallsListed
<1>1. PICK below \in Seq(Frame) : irc_bot_plugin_remove(p, below)
  <2>1. stack \in Seq(Frame)
    BY DEF Kept
  <2> QED
    BY <2>1, OverOps
<1>2. PICK u : u = [fn |-> "plugin_remove", p |-> p]
  OBVIOUS
<1>3. PICK v : v = Js(p, Nil)
  OBVIOUS
<1>4. p \in Plugs
  BY PluginsOps
<1>5. u \in Frame /\ v \in Frame /\ v.p = p
  BY <1>2, <1>3, <1>4, IsJs DEF UnloadFrame, Frame, Js
<1> DEFINE out == Leave(p, below)
<1>6. out \in Seq(Frame) /\ stack' = out \o <<u, v>>
  BY <1>1, <1>2, <1>3, <1>4, LeaveOps DEF irc_bot_plugin_remove
<1> HIDE DEF out
<1>7. Last(stack') = v
  <2> DEFINE t == out \o <<u, v>>
  <2>1. Len(t) = Len(out) + 2 /\ t[Len(out) + 2] = v
    BY <1>5, <1>6, TwoMore
  <2> HIDE DEF t
  <2>2. Last(t) = v
    BY <2>1 DEF Last
  <2> QED
    BY <1>6, <2>2 DEF t
<1> QED
  BY <1>5, <1>7 DEF CallsListed

LEMMA StepCalls ==
    ASSUME BotInv, [Next]_vars
    PROVE  CallsListed
<1>0. /\ Kept /\ SrvInv /\ Listed(plugins) \subseteq Plugs
      /\ \A name : Get(plugins, name) \in Listed(plugins) \cup {Nil}
  BY PluginsOps DEF BotInv, Kept
<1>2. CASE UNCHANGED stack \/ stack' = <<>>
  BY <1>0, <1>2, NoCall
<1>3. CASE \E s \in Srvs, ev \in Messages \cup OtherEvents : irc_server_consumer_entry(s, ev)
  <2>1. PICK s \in Srvs, ev \in Messages \cup OtherEvents : irc_server_consumer_entry(s, ev)
    BY <1>3
  <2>2. PICK g : g = DispatchFrame(ev[1], s, ev[2])
    OBVIOUS
  <2>3. g \in Frame /\ g.fn = "dispatch" /\ Call(<<g>>)
    <3>1. ev[1] \in {"message", "event"} /\ ev[2] \in Calls \cup {{}}
      BY DEF Messages, OtherEvents
    <3> QED
      BY <1>0, <2>1, <2>2, <3>1, FreshDispatch DEF irc_server_consumer_entry
  <2> QED
    BY <1>0, <2>3, CallEnds DEF CallsListed
<1>4. CASE dispatch_plugins \/ dispatch_command \/ dispatch_observe
  <2>1. Running("dispatch") /\ DispatchMoves
    BY <1>4, DispatchIs
  <2>2. stack # <<>>
    BY <2>1 DEF Running
  <2>3. ASSUME NEW g \in DispatchFrames, Skip(g) PROVE CallsListed
    <3>1. g \in Frame
      BY DEF Frame
    <3> QED
      BY <1>0, <2>2, <2>3, <3>1, NoCall DEF Skip
  <2>4. ASSUME NEW g \in DispatchFrames, NEW p \in Listed(plugins), Handle(p, g) PROVE CallsListed
    <3>1. PICK v : v = Js(p, g.s)
      OBVIOUS
    <3>2. g \in Frame /\ g.s \in Srvs /\ p \in Plugs
      BY <1>0 DEF Frame, DispatchFrames
    <3>3. v \in Frame /\ v.p = p /\ stack' = Over(g) \o <<v>>
      BY <2>4, <3>1, <3>2, IsJs DEF Handle, Js
    <3> QED
      BY <1>0, <2>2, <3>2, <3>3, CallEnds DEF CallsListed
  <2> QED
    BY <1>0, <2>1, <2>2, <2>3, <2>4, NoCall DEF DispatchMoves, Crash
<1>5. CASE server_remove_end \/ plugin_remove_end \/ script_fails \/ js_return
  <2>1. stack # <<>> /\ (Return \/ stack' = <<>>)
    BY <1>5 DEF server_remove_end, plugin_remove_end, script_fails, js_return, Script, Running, Crash
  <2> QED
    BY <1>0, <2>1, NoCall
<1>6. ASSUME NEW s \in Srvs, s \in Listed(servers), NEW g \in Frame,
             irc_bot_server_remove(s, stack) \/ (stack # <<>> /\ irc_bot_server_remove(s, Over(g)))
      PROVE  CallsListed
  <2>1. PICK u : u = Removing(s)
    OBVIOUS
  <2>2. PICK v : v = DispatchFrame("event", s, {})
    OBVIOUS
  <2>3. u \in Frame /\ v \in Frame /\ v.fn = "dispatch"
    BY <1>0, <2>1, <2>2, IsRemoving, FreshDispatch
  <2>4. stack' = <<>> \/ Call(<<u, v>>) \/ (stack # <<>> /\ stack' = Over(g) \o <<u, v>>)
    BY <1>6, <2>1, <2>2 DEF irc_bot_server_remove, Call, Crash
  <2>5. CASE Call(<<u, v>>) \/ (stack # <<>> /\ stack' = Over(g) \o <<u, v>>)
    <3>1. Last(stack') = v
      BY <1>0, <2>3, <2>5, CallEnds
    <3> QED
      BY <2>3, <3>1 DEF CallsListed
  <2> QED
    BY <1>2, <2>4, <2>5
<1>7. CASE irc_bot_server_clear
  <2>1. stack # <<>> /\ Top.fn = "server_clear"
    BY <1>7 DEF irc_bot_server_clear, Running
  <2>2. PICK s : s = Top.s
    OBVIOUS
  <2>3. PICK g : g = Clearing(NextServer(s))
    OBVIOUS
  <2>4. PICK r : r = Get(servers, NameOf[s])
    OBVIOUS
  <2>5. \/ Return
        \/ stack' = <<>>
        \/ s # Nil /\ (Skip(g) \/ (r # Nil /\ irc_bot_server_remove(r, Over(g))))
    BY <1>7, <2>2, <2>3, <2>4 DEF irc_bot_server_clear, Crash
  <2>6. CASE s # Nil /\ (Skip(g) \/ (r # Nil /\ irc_bot_server_remove(r, Over(g))))
    <3>1. s \in Srvs
      BY <1>0, <2>1, <2>2, <2>6, Topmost, Kinds DEF ClearFrame
    <3>2. g \in Frame /\ (r # Nil => r \in Listed(servers) /\ r \in Srvs)
      <4>1. NextServer(s) \in Srvs \cup {Nil} /\ r \in Listed(servers) \cup {Nil} /\ Listed(servers) \subseteq Srvs
        BY <1>0, <2>4, <3>1, ServersOps
      <4> QED
        BY <2>3, <4>1, IsClearing
    <3>3. CASE Skip(g)
      BY <1>0, <2>1, <3>2, <3>3, NoCall DEF Skip
    <3> QED
      BY <1>6, <2>1, <2>6, <3>2, <3>3
  <2> QED
    BY <1>0, <1>2, <2>1, <2>5, <2>6, NoCall
<1>8. CASE irc_bot_plugin_clear
  <2>1. stack # <<>>
    BY <1>8 DEF irc_bot_plugin_clear, Running
  <2>2. PICK p : p = Top.p
    OBVIOUS
  <2>3. PICK g : g = Unloading(Successor(plugins, p))
    OBVIOUS
  <2>4. \/ Return
        \/ stack' = <<>>
        \/ p \in Listed(plugins) /\ irc_bot_plugin_remove(p, Over(g))
    BY <1>8, <2>2, <2>3 DEF irc_bot_plugin_clear, Crash
  <2>5. CASE p \in Listed(plugins) /\ irc_bot_plugin_remove(p, Over(g))
    <3>1. g \in Frame
      <4>1. Successor(plugins, p) \in Plugs \cup {Nil}
        BY <1>0, <2>5, PluginsOps
      <4> QED
        BY <2>3, <4>1, IsWalk
    <3> QED
      BY <1>0, <2>1, <2>5, <3>1, UnloadCalls
  <2> QED
    BY <1>0, <1>2, <2>1, <2>4, <2>5, NoCall
<1>9. CASE cmd_plugin_reload
  <2>1. stack # <<>>
    BY <1>9 DEF cmd_plugin_reload, Running
  <2>2. PICK p : p = Top.p
    OBVIOUS
  <2>3. PICK q : q = Successor(plugins, p)
    OBVIOUS
  <2>4. PICK g : g = Reloading(q)
    OBVIOUS
  <2>5. PICK v : v = Js(q, Nil)
    OBVIOUS
  <2>6. \/ Return
        \/ stack' = <<>>
        \/ Goto(Reloading(Nil))
        \/ p \in Listed(plugins) /\ q # Nil /\ stack' = Over(g) \o <<v>>
    BY <1>9, <2>2, <2>3, <2>4, <2>5 DEF cmd_plugin_reload, Crash, Skip
  <2>7. CASE Goto(Reloading(Nil))
    <3>1. Reloading(Nil) \in Frame
      BY IsWalk
    <3> QED
      BY <1>0, <2>1, <2>7, <3>1, NoCall
  <2>8. CASE p \in Listed(plugins) /\ q # Nil /\ stack' = Over(g) \o <<v>>
    <3>1. q \in Listed(plugins) /\ q \in Plugs
      BY <1>0, <2>3, <2>8, PluginsOps
    <3>2. g \in Frame /\ v \in Frame /\ v.p = q
      BY <2>4, <2>5, <3>1, IsWalk, IsJs DEF Js
    <3> QED
      BY <1>0, <2>1, <2>8, <3>1, <3>2, CallEnds DEF CallsListed
  <2> QED
    BY <1>0, <1>2, <2>1, <2>6, <2>7, <2>8, NoCall
<1>10. CASE irc_bot_plugin_add
  <2>1. stack # <<>> /\ Top.fn = "plugin_add"
    BY <1>10 DEF irc_bot_plugin_add, Running
  <2>2. Top \in AddFrame /\ Top.p \in Plugs
    BY <2>1, AddAlone
  <2>3. PICK f : f = [Top EXCEPT !.step = "load"]
    OBVIOUS
  <2>4. PICK v : v = Js(Top.p, Nil)
    OBVIOUS
  <2>5. v \in Frame /\ f \in Frame /\ f.fn = "plugin_add"
    BY <2>2, <2>3, <2>4, IsJs DEF AddFrame, Frame
  <2>6. Return \/ stack' = Over(f) \o <<v>>
    BY <1>10, <2>3, <2>4 DEF irc_bot_plugin_add
  <2>7. CASE stack' = Over(f) \o <<v>>
    BY <1>0, <2>1, <2>5, <2>7, CallEnds DEF CallsListed
  <2> QED
    BY <1>0, <2>1, <2>6, <2>7, NoCall
<1>11. ASSUME NEW s \in Srvs,
              \/ Server_constructor(s) \/ Server_add(s) \/ Server_find(s)
              \/ Server_destructor(s) \/ cmd_server_connect(s) \/ cmd_server_disconnect(s)
       PROVE  CallsListed
  <2>1. UNCHANGED stack \/ stack' = <<>>
    BY <1>11 DEF Server_constructor, Server_add, Server_find, Server_destructor, cmd_server_connect,
                 cmd_server_disconnect, Crash
  <2> QED
    BY <1>2, <2>1
<1>12. ASSUME NEW s \in Srvs, Server_remove(s) PROVE CallsListed
  <2>1. s \in Listed(servers) /\ irc_bot_server_remove(s, stack)
    BY <1>12 DEF Server_remove
  <2>2. Removing(s) \in Frame
    BY IsRemoving
  <2> QED
    BY <1>6, <2>1, <2>2
<1>13. ASSUME NEW p \in Plugs, Plugin_unload(NameOf[p]) \/ cmd_plugin_unload(p) PROVE CallsListed
  <2>1. PICK q : q = Get(plugins, NameOf[p])
    OBVIOUS
  <2>2. \/ stack' = <<>>
        \/ q # Nil /\ irc_bot_plugin_remove(q, stack)
        \/ p \in Listed(plugins) /\ irc_bot_plugin_remove(p, stack)
    BY <1>13, <2>1 DEF Plugin_unload, cmd_plugin_unload, Idle, Crash
  <2>3. q \in Listed(plugins) \cup {Nil}
    BY <1>0, <2>1
  <2> QED
    BY <1>0, <1>2, <2>2, <2>3, UnloadCalls
<1>14. ASSUME NEW q \in Plugs,
              \/ Running("js") /\ Call(<<Js(q, Nil)>>)
              \/ stack = <<>> /\ Call(<<Js(q, Nil)>>)
       PROVE  CallsListed
  <2>1. PICK v : v = Js(q, Nil)
    OBVIOUS
  <2>2. v \in Frame /\ Call(<<v>>)
    BY <1>14, <2>1, IsJs
  <2>3. (stack # <<>> /\ Top.fn = "js") \/ stack = <<>>
    BY <1>14 DEF Running
  <2>4. Below = "js" \/ Len(stack') = 1
    BY <1>0, <2>2, <2>3, CallEnds
  <2>5. CASE Below = "js"
    BY <2>5 DEF CallsListed
  <2>6. CASE Len(stack') = 1
    BY <2>6 DEF CallsListed
  <2> QED
    BY <2>4, <2>5, <2>6
<1>15. ASSUME NEW p \in Plugs, Plugin_reload(NameOf[p]) PROVE CallsListed
  <2>1. PICK q : q = Get(plugins, NameOf[p])
    OBVIOUS
  <2>2. stack' = <<>> \/ (q # Nil /\ Running("js") /\ Call(<<Js(q, Nil)>>))
    BY <1>15, <2>1 DEF Plugin_reload, Crash, Script
  <2>3. q # Nil => q \in Plugs
    BY <1>0, <2>1
  <2> QED
    BY <1>2, <1>14, <2>2, <2>3
<1>16. ASSUME NEW p \in Plugs, stimer_cb(p) PROVE CallsListed
  BY <1>14, <1>16 DEF stimer_cb, Idle
<1>17. ASSUME NEW p \in Plugs, cmd_plugin_load(p) PROVE CallsListed
  <2>1. PICK f : f = [fn |-> "plugin_add", p |-> p, step |-> "script"]
    OBVIOUS
  <2>2. PICK v : v = Js(p, Nil)
    OBVIOUS
  <2>3. v \in Frame /\ f \in Frame /\ f.fn = "plugin_add" /\ Call(<<f, v>>)
    BY <1>17, <2>1, <2>2, IsJs DEF cmd_plugin_load, AddFrame, Frame
  <2>4. Below = "plugin_add"
    BY <1>0, <2>3, CallEnds
  <2> QED
    BY <2>4 DEF CallsListed
<1>18. PICK g : g = Clearing(HeadOf(servers))
  OBVIOUS
<1>19. PICK u : u = Unloading(HeadOf(plugins))
  OBVIOUS
<1>20. g \in Frame /\ g.fn # "js" /\ u \in Frame /\ u.fn # "js"
  BY <1>0, <1>18, <1>19, ServersOps, PluginsOps, IsClearing, IsWalk
<1>21. CASE cmd_server_disconnect_all
  <2>1. stack = <<>> /\ Call(<<g>>)
    BY <1>18, <1>21 DEF cmd_server_disconnect_all, Idle
  <2>2. Len(stack') = 1
    BY <1>0, <1>20, <2>1, CallEnds
  <2> QED
    BY <2>2 DEF CallsListed
<1>22. CASE cmd_plugin_all
  <2>1. PICK p : p = HeadOf(plugins)
    OBVIOUS
  <2>2. PICK w : w = Reloading(p)
    OBVIOUS
  <2>3. PICK v : v = Js(p, Nil)
    OBVIOUS
  <2>4. p \in Plugs /\ p \in Listed(plugins)
    <3>1. plugins # <<>> /\ plugins \in Seq(Plugs)
      BY <1>0, <1>22, PluginsOps DEF cmd_plugin_all
    <3>2. p = plugins[1] /\ 1 \in DOMAIN plugins
      BY <2>1, <3>1, HeadListed
    <3> QED
      BY <1>0, <3>2 DEF Listed
  <2>5. w \in Frame /\ v \in Frame /\ v.p = p
    BY <2>2, <2>3, <2>4, IsWalk, IsJs DEF Js
  <2>6. stack = <<>> /\ (Call(<<u>>) \/ Call(<<w, v>>))
    BY <1>19, <1>22, <2>1, <2>2, <2>3 DEF cmd_plugin_all, Idle
  <2>7. CASE Call(<<u>>)
    <3>1. Len(stack') = 1
      BY <1>0, <1>20, <2>6, <2>7, CallEnds
    <3> QED
      BY <3>1 DEF CallsListed
  <2>8. CASE Call(<<w, v>>)
    <3>1. Last(stack') = v
      BY <1>0, <2>5, <2>8, CallEnds
    <3> QED
      BY <2>4, <2>5, <3>1 DEF CallsListed
  <2> QED
    BY <2>6, <2>7, <2>8
<1>23. CASE irc_bot_finish
  <2>1. PICK f : f = [fn |-> "finish", step |-> "plugins"]
    OBVIOUS
  <2>2. PICK e : e = [Top EXCEPT !.step = "end"]
    OBVIOUS
  <2>3. \/ Call(<<f, g>>)
        \/ Running("finish") /\ stack' = Over(e) \o <<u>>
    BY <1>18, <1>19, <1>23, <2>1, <2>2 DEF irc_bot_finish
  <2>4. CASE Call(<<f, g>>)
    <3>1. f \in Frame
      BY <2>1 DEF FinishFrame, Frame
    <3>2. Last(stack') = g
      BY <1>0, <1>20, <2>4, <3>1, CallEnds
    <3> QED
      BY <1>20, <3>2 DEF CallsListed
  <2>5. CASE Running("finish") /\ stack' = Over(e) \o <<u>>
    <3>1. stack # <<>> /\ Top.fn = "finish" /\ Top \in FinishFrame
      BY <1>0, <2>5, Topmost, Kinds DEF Running
    <3>2. e \in Frame
      BY <2>2, <3>1 DEF FinishFrame, Frame
    <3>3. Last(stack') = u
      BY <1>0, <1>20, <2>5, <3>1, <3>2, CallEnds
    <3> QED
      BY <1>20, <3>3 DEF CallsListed
  <2> QED
    BY <2>3, <2>4, <2>5
<1>24. CASE UNCHANGED vars
  BY <1>2, <1>24 DEF vars
<1>25. CASE \E s \in Srvs : \/ Server_constructor(s) \/ Server_add(s) \/ Server_find(s)
                            \/ Server_destructor(s) \/ Server_remove(s)
                            \/ cmd_server_connect(s) \/ cmd_server_disconnect(s)
  BY <1>11, <1>12, <1>25
<1>26. CASE \E p \in Plugs : \/ Plugin_unload(NameOf[p]) \/ Plugin_reload(NameOf[p])
                             \/ stimer_cb(p) \/ cmd_plugin_load(p) \/ cmd_plugin_unload(p)
  BY <1>13, <1>15, <1>16, <1>17, <1>26
<1>27. Next => \/ \E s \in Srvs, ev \in Messages \cup OtherEvents : irc_server_consumer_entry(s, ev)
               \/ dispatch_plugins \/ dispatch_command \/ dispatch_observe
               \/ server_remove_end \/ plugin_remove_end \/ script_fails \/ js_return
               \/ irc_bot_server_clear \/ irc_bot_plugin_clear \/ cmd_plugin_reload
               \/ irc_bot_plugin_add
               \/ \E s \in Srvs : \/ Server_constructor(s) \/ Server_add(s) \/ Server_find(s)
                                  \/ Server_destructor(s) \/ Server_remove(s)
                                  \/ cmd_server_connect(s) \/ cmd_server_disconnect(s)
               \/ \E p \in Plugs : \/ Plugin_unload(NameOf[p]) \/ Plugin_reload(NameOf[p])
                                   \/ stimer_cb(p) \/ cmd_plugin_load(p) \/ cmd_plugin_unload(p)
               \/ cmd_server_disconnect_all \/ cmd_plugin_all \/ irc_bot_finish
  BY DEF Next
<1> QED
  BY <1>3, <1>4, <1>5, <1>7, <1>8, <1>9, <1>10, <1>21, <1>22, <1>23, <1>24, <1>25, <1>26, <1>27

\* Whatever handlers unload and load meanwhile, a dispatch, a reload and an unload
\* call a plugin between its onLoad and its onUnload only.
THEOREM AlwaysHeardWhileLoaded == Spec => HeardWhileLoaded
<1>1. ASSUME BotInv, [Next]_vars, NEW p \in Plugs
      PROVE  /\ Entered(p) /\ Len(stack') > 1 /\ Below \in {"dispatch", "reload", "plugin_remove"}
             => life[p] = "loaded"
  BY <1>1, StepCalls DEF CallsListed, Entered, BotInv, LoadedListed
<1>2. BotInv /\ [Next]_vars =>
        [\A p \in Plugs :
           /\ Entered(p) /\ Len(stack') > 1 /\ Below \in {"dispatch", "reload", "plugin_remove"}
           => life[p] = "loaded"]_vars
  BY <1>1
<1> QED
  BY <1>2, BotInvariant, PTL DEF Spec, HeardWhileLoaded

=============================================================================
