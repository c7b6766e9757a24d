---------------------------- MODULE Peer_proofs ----------------------------
(***************************************************************************)
(* The control socket keeps its promises for every number of clients, every *)
(* capacity of the buffers and sockets and every number of events: no      *)
(* descriptor is forgotten unless an input buffer was full, irccdctl reads *)
(* the hello and then the answer to its request, and what it tells its     *)
(* user is true.                                                           *)
(*                                                                         *)
(* One invariant holds all of this together.  It says of each connection   *)
(* who owns its descriptor, and of each run of irccdctl what is under way  *)
(* in each direction at each point of the dialogue.                        *)
(***************************************************************************)
EXTENDS Peer, FiniteSetTheorems, SequenceTheorems, WellFoundedInduction, TLAPS

PeerRec == [co : {"hello", "loop", "dead"}, ev : SUBSET {"r", "w"}, in : Seq(Items),
            out : Seq(Items), watch : BOOLEAN]

ClientRec == [pc : Ended \cup {"off", "hello", "reply", "items", "watch", "open"},
              req : CtlRequests \cup {"none"}, in : Seq(Items), sent : Nat]

Typed ==
    /\ daemon \in {"up", "stopped", "crashed"}
    /\ at \in {Nil} \cup [who : Conns \cup {Nil},
                          step : {"lines", "dispatch", "hook", "observe", "answer"}]
    /\ hook \in Ctl \cup {Nil, "other"}
    /\ peers \subseteq Conns
    /\ peer \in [Conns -> PeerRec]
    /\ fd \in [Conns -> {"none", "backlog", "open", "closed", "leaked"}]
    /\ up \in [Conns -> Seq(Items)] /\ down \in [Conns -> Seq(Items)]
    /\ client \in [Conns -> ClientRec]
    /\ result \in [Ctl -> {"none", "ok", "partly", "no"}]
    /\ filled \subseteq Conns
    /\ \A c \in Conns : /\ Len(peer[c].in) <= InCap /\ Len(peer[c].out) <= OutCap
                        /\ Len(down[c]) <= SockCap

\* What irccdctl has yet to look at, and what it asks and was not answered yet.
Stream(c) == client[c].in \o down[c] \o peer[c].out
Asking(c) == peer[c].in \o up[c]

\* The daemon holds a descriptor exactly as long as a coroutine of a listed peer
\* serves it, and that coroutine waits for something unless its input is full.
Owned(c) ==
    /\ fd[c] = "open" <=> peer[c].co # "dead"
    /\ peer[c].co # "dead" => c \in peers
    /\ peer[c].co = "dead" => peer[c].in = <<>> /\ peer[c].out = <<>>
    /\ peer[c].co # "dead" /\ (peer[c].ev = {} \/ Len(peer[c].in) = InCap) => c \in filled
    /\ fd[c] = "leaked" => c \in filled
    /\ client[c].pc = "off" => fd[c] = "none"

\* The beginning of the hello, and of the answer to a request that ended that way.
Greeting(s) ==
    /\ Len(s) <= 2
    /\ Len(s) >= 1 => s[1] = "hello"
    /\ Len(s) >= 2 => s[2] = "nl"
Told(s, req, how) ==
    /\ Len(s) >= 1 => \/ s[1] = "OK" /\ (req \notin Unheeded => how = "ok")
                      \/ s[1] = "error" /\ (req # "edit" => how = "no")
    /\ Len(s) >= 2 => s[2] = "nl"
Asks(s, req) == Len(s) = 2 /\ s[1] = req /\ s[2] = "nl"

\* The dialogue of irccdctl.  The end of the connection may cut what it reads, never
\* change how that begins.
Off(c) == Asking(c) = <<>> /\ client[c].in = <<>> /\ down[c] = <<>> /\ ~peer[c].watch
Greeted(c) ==
    /\ Asking(c) = <<>> /\ ~peer[c].watch /\ Greeting(Stream(c))
    /\ peer[c].co # "dead" => Len(Stream(c)) = 2
    /\ peer[c].co = "loop" => peer[c].out = <<>>
    /\ fd[c] = "backlog" => Stream(c) = <<>>
Replied(c) ==
    /\ client[c].req \in CtlRequests /\ fd[c] # "backlog"
    /\ Told(Stream(c), client[c].req, result[c])
    /\ peer[c].co # "dead" =>
          \/ Asks(Asking(c), client[c].req) /\ Stream(c) = <<>> /\ ~peer[c].watch
          \/ Asking(c) = <<>> /\ Len(Stream(c)) >= 2
Listing(c) ==
    /\ fd[c] # "backlog" /\ client[c].req = "show" /\ result[c] = "ok"
    /\ peer[c].co # "dead" => Asking(c) = <<>>
Talks(c) ==
    /\ client[c].pc = "off" => Off(c)
    /\ client[c].pc = "hello" => Greeted(c)
    /\ client[c].pc = "reply" => Replied(c)
    /\ client[c].pc = "items" => Listing(c)

PeerInv == Typed /\ (\A c \in Conns : Owned(c)) /\ (\A c \in Ctl : Talks(c))

-----------------------------------------------------------------------------
(* Lines.                                                                  *)

\* A set of numbers that is not empty has a least one.
LEMMA LeastOne ==
    ASSUME NEW T \in SUBSET Nat, T # {}
    PROVE  Min(T) \in T /\ \A y \in T : Min(T) <= y
<1>1. \E x \in T : \A y \in T : ~(<<y, x>> \in OpToRel(<, Nat))
  BY WFMin, NatLessThanWellFounded
<1>2. \A x, y \in T : ~(<<y, x>> \in OpToRel(<, Nat)) => x <= y
  <2> TAKE x, y \in T
  <2>1. y < x => <<y, x>> \in OpToRel(<, Nat)
    BY DEF OpToRel
  <2>2. ~(y < x) => x <= y
    OBVIOUS
  <2> QED
    BY <2>1, <2>2, Zenon
<1>3. \E x \in T : \A y \in T : x <= y
  BY <1>1, <1>2, Zenon
<1> QED
  BY <1>3, Zenon DEF Min

\* The beginning and the end of a buffer.
LEMMA Prefix ==
    ASSUME NEW s \in Seq(Items), NEW n \in Nat, n <= Len(s)
    PROVE  /\ SubSeq(s, 1, n) \in Seq(Items) /\ Len(SubSeq(s, 1, n)) = n
           /\ \A i \in 1..n : SubSeq(s, 1, n)[i] = s[i]
<1>1. Len(s) \in Nat /\ \A i \in 1..Len(s) : s[i] \in Items
  OBVIOUS
<1>2. \A i \in 1..n : s[i] \in Items
  BY <1>1
<1>3. /\ SubSeq(s, 1, n) \in Seq(Items)
      /\ Len(SubSeq(s, 1, n)) = IF 1 <= n THEN n - 1 + 1 ELSE 0
      /\ \A i \in 1..n - 1 + 1 : SubSeq(s, 1, n)[i] = s[1 + i - 1]
  BY <1>2, SubSeqProperties
<1>4. n - 1 + 1 = n /\ (~(1 <= n) => n = 0) /\ \A i \in 1..n : 1 + i - 1 = i
  OBVIOUS
<1> QED
  BY <1>3, <1>4

LEMMA Suffix ==
    ASSUME NEW s \in Seq(Items), NEW n \in Nat, n <= Len(s)
    PROVE  /\ SubSeq(s, n + 1, Len(s)) \in Seq(Items)
           /\ Len(SubSeq(s, n + 1, Len(s))) = Len(s) - n
           /\ \A i \in 1..(Len(s) - n) : SubSeq(s, n + 1, Len(s))[i] = s[n + i]
<1> DEFINE k == Len(s)
<1>1. k \in Nat /\ \A i \in 1..k : s[i] \in Items
  OBVIOUS
<1> HIDE DEF k
<1>2. \A i \in (n + 1)..k : s[i] \in Items
  BY <1>1
<1>3. /\ SubSeq(s, n + 1, k) \in Seq(Items)
      /\ Len(SubSeq(s, n + 1, k)) = IF n + 1 <= k THEN k - (n + 1) + 1 ELSE 0
      /\ \A i \in 1..k - (n + 1) + 1 : SubSeq(s, n + 1, k)[i] = s[n + 1 + i - 1]
  BY <1>1, <1>2, SubSeqProperties
<1>4. n <= k
  BY DEF k
<1>5. /\ k - (n + 1) + 1 = k - n /\ (~(n + 1 <= k) => k - n = 0)
      /\ \A i \in 1..(k - n) : n + 1 + i - 1 = n + i
  BY <1>1, <1>4
<1> QED
  BY <1>3, <1>5 DEF k

\* The first line of a buffer and what is behind it.
LEMMA LineOps ==
    ASSUME NEW s \in Seq(Items), HasLine(s)
    PROVE  /\ LineLen(s) \in Nat /\ LineLen(s) < Len(s) /\ s[LineLen(s) + 1] = "nl"
           /\ \A i \in 1..LineLen(s) : s[i] # "nl"
           /\ Line(s) \in Seq(Items) /\ Len(Line(s)) = LineLen(s)
           /\ \A i \in 1..LineLen(s) : Line(s)[i] = s[i]
           /\ AfterLine(s) \in Seq(Items) /\ Len(AfterLine(s)) = Len(s) - LineLen(s) - 1
<1> DEFINE T == {i \in DOMAIN s : s[i] = "nl"}
           m == Min(T)
<1>1. DOMAIN s = 1..Len(s) /\ Len(s) \in Nat /\ \A i \in 1..Len(s) : s[i] \in Items
  OBVIOUS
<1>2. T \in SUBSET Nat /\ T # {}
  BY <1>1 DEF HasLine
<1>3. m \in T /\ \A y \in T : m <= y
  BY <1>2, LeastOne
<1> HIDE DEF m
<1>4. m \in 1..Len(s) /\ s[m] = "nl" /\ \A i \in 1..(m - 1) : s[i] # "nl"
  BY <1>1, <1>3
<1>5. LineLen(s) = m - 1
  BY DEF LineLen, m
<1>6. /\ Line(s) \in Seq(Items) /\ Len(Line(s)) = m - 1
      /\ \A i \in 1..(m - 1) : Line(s)[i] = s[i]
  <2>1. \A i \in 1..(m - 1) : s[i] \in Items
    BY <1>1, <1>4
  <2>2. 1 \in Int /\ m - 1 \in Int
    BY <1>4
  <2> QED
    BY <1>4, <1>5, <2>1, <2>2, SubSeqProperties DEF Line
<1>7. AfterLine(s) \in Seq(Items) /\ Len(AfterLine(s)) = Len(s) - m
  <2>1. m \in Nat /\ m <= Len(s)
    BY <1>1, <1>4
  <2>2. LineLen(s) + 2 = m + 1
    BY <1>5, <2>1
  <2>3. AfterLine(s) = SubSeq(s, m + 1, Len(s))
    BY <2>2 DEF AfterLine
  <2> QED
    BY <2>1, <2>3, Suffix
<1> QED
  BY <1>1, <1>4, <1>5, <1>6, <1>7

-----------------------------------------------------------------------------
(* What the daemon does to a peer.                                         *)

\* nce_stream_push adds to the output; the watcher stops when it had stopped or the
\* input is full.
LEMMA PushOps ==
    ASSUME NEW p \in PeerRec, NEW s \in Seq(Items), Len(p.in) <= InCap
    PROVE  LET q == nce_stream_push(p, s)
           IN  /\ q \in PeerRec /\ q.co = p.co /\ q.in = p.in /\ q.watch = p.watch
               /\ q.out = p.out \o s
               /\ q.ev = {} => p.ev = {} \/ Len(p.in) = InCap
<1>1. p.out \o s \in Seq(Items) /\ Len(p.in) \in Nat
  BY ConcatProperties DEF PeerRec
<1> DEFINE r == [p EXCEPT !.out = @ \o s]
<1>2. /\ r \in PeerRec /\ r.co = p.co /\ r.in = p.in /\ r.watch = p.watch
      /\ r.out = p.out \o s /\ r.ev = p.ev
  BY <1>1 DEF PeerRec
<1> HIDE DEF r
<1>3. Needed(r) \in SUBSET {"r", "w"} /\ (Needed(r) = {} => Len(p.in) = InCap)
  BY <1>1, <1>2, PeerAssumption DEF Needed
<1>4. nce_stream_push(p, s) = IF r.ev = {} THEN r ELSE [r EXCEPT !.ev = Needed(r)]
  BY DEF nce_stream_push, Rearm, r
<1> QED
  BY <1>2, <1>3, <1>4, ZenonT(40) DEF PeerRec

\* nce_stream_drain takes a line from the input.
LEMMA DrainOps ==
    ASSUME NEW p \in PeerRec, HasLine(p.in), Len(p.in) <= InCap
    PROVE  LET q == nce_stream_drain(p)
           IN  /\ q \in PeerRec /\ q.co = p.co /\ q.out = p.out /\ q.watch = p.watch
               /\ q.in = AfterLine(p.in) /\ Len(q.in) < Len(p.in)
               /\ q.ev = {} => p.ev = {}
<1>1. /\ AfterLine(p.in) \in Seq(Items) /\ Len(AfterLine(p.in)) < Len(p.in)
      /\ Len(p.in) \in Nat /\ Len(AfterLine(p.in)) \in Nat
  <2>1. p.in \in Seq(Items)
    BY DEF PeerRec
  <2> QED
    BY <2>1, LineOps
<1> DEFINE r == [p EXCEPT !.in = AfterLine(@)]
<1>2. /\ r \in PeerRec /\ r.co = p.co /\ r.out = p.out /\ r.watch = p.watch
      /\ r.in = AfterLine(p.in) /\ r.ev = p.ev
  BY <1>1 DEF PeerRec
<1> HIDE DEF r
<1>3. Needed(r) \in SUBSET {"r", "w"} /\ "r" \in Needed(r)
  BY <1>1, <1>2, PeerAssumption DEF Needed
<1>4. nce_stream_drain(p) = IF r.ev = {} THEN r ELSE [r EXCEPT !.ev = Needed(r)]
  BY DEF nce_stream_drain, Rearm, r
<1> QED
  BY <1>1, <1>2, <1>3, <1>4, SMTT(30) DEF PeerRec

Texts == {<<"OK">>, <<"error">>, <<"event">>, <<"OK", "nl", "item">>, <<"OK", "nl", "item", "nl">>}

\* peer_push never takes back what was written and stays within the buffer; on an
\* empty buffer the text and the end of its line fit.
LEMMA PushText ==
    ASSUME NEW p \in PeerRec, NEW text \in Texts, Len(p.in) <= InCap, Len(p.out) <= OutCap
    PROVE  LET q == peer_push(p, text)
           IN  /\ q \in PeerRec /\ q.co = p.co /\ q.in = p.in /\ q.watch = p.watch
               /\ Len(q.out) <= OutCap
               /\ \E t \in Seq(Items) : q.out = p.out \o t
               /\ q.ev = {} => p.ev = {} \/ Len(p.in) = InCap
               /\ p.co = "dead" => q.out = p.out
               /\ p.co # "dead" /\ p.out = <<>> =>
                     Len(q.out) >= 2 /\ q.out[1] = text[1] /\ q.out[2] = "nl"
<1> DEFINE nl == <<"nl">>
           a == nce_stream_push(p, text)
           b == nce_stream_push(a, nl)
<1>0. OutCap \in Nat /\ OutCap >= 5
  BY PeerAssumption
<1>1. /\ text \in Seq(Items) /\ Len(text) \in Nat /\ 1 <= Len(text) /\ Len(text) <= 4
      /\ text[1] \in Items
      /\ Len(text) >= 2 => text[2] = "nl"
  <2>1. "OK" \in Items /\ "error" \in Items /\ "event" \in Items /\ "nl" \in Items /\ "item" \in Items
    BY DEF Items
  <2>2. CASE text = <<"OK">>
    BY <2>1, <2>2
  <2>3. CASE text = <<"error">>
    BY <2>1, <2>3
  <2>4. CASE text = <<"event">>
    BY <2>1, <2>4
  <2>5. CASE text = <<"OK", "nl", "item">>
    BY <2>1, <2>5
  <2>6. CASE text = <<"OK", "nl", "item", "nl">>
    BY <2>1, <2>6
  <2> QED
    BY <2>2, <2>3, <2>4, <2>5, <2>6 DEF Texts
<1>2. nl \in Seq(Items) /\ Len(nl) = 1 /\ nl[1] = "nl"
  BY DEF Items
<1>3. p.out \in Seq(Items) /\ p.in \in Seq(Items) /\ p.ev \in SUBSET {"r", "w"}
  BY DEF PeerRec
<1>4. /\ a \in PeerRec /\ a.co = p.co /\ a.in = p.in /\ a.watch = p.watch
      /\ a.out = p.out \o text
      /\ a.ev = {} => p.ev = {} \/ Len(p.in) = InCap
  BY <1>1, PushOps
<1> HIDE DEF a
<1>5. /\ b \in PeerRec /\ b.co = p.co /\ b.in = p.in /\ b.watch = p.watch
      /\ b.out = a.out \o nl
      /\ b.ev = {} => p.ev = {} \/ Len(p.in) = InCap
  BY <1>2, <1>4, PushOps
<1> HIDE DEF b, nl
<1>6. a.out \in Seq(Items) /\ Len(a.out) = Len(p.out) + Len(text)
  BY <1>1, <1>3, <1>4, ConcatProperties
<1>7. /\ b.out \in Seq(Items) /\ Len(b.out) = Len(p.out) + Len(text) + 1
      /\ \A i \in 1..Len(a.out) : b.out[i] = a.out[i]
      /\ b.out[Len(a.out) + 1] = "nl"
  <2>1. /\ a.out \o nl \in Seq(Items) /\ Len(a.out \o nl) = Len(a.out) + 1
        /\ \A i \in 1..Len(a.out) + 1 : (a.out \o nl)[i] = IF i <= Len(a.out) THEN a.out[i] ELSE nl[i - Len(a.out)]
    <3> DEFINE o == a.out
    <3>1. o \in Seq(Items)
      BY <1>6
    <3> HIDE DEF o
    <3>2. /\ o \o nl \in Seq(Items) /\ Len(o \o nl) = Len(o) + Len(nl)
          /\ \A i \in 1..Len(o) + Len(nl) : (o \o nl)[i] = IF i <= Len(o) THEN o[i] ELSE nl[i - Len(o)]
      BY <3>1, <1>2, ConcatProperties
    <3> QED
      BY <3>2, <1>2 DEF o
  <2>2. Len(a.out) \in Nat /\ Len(a.out) + 1 - Len(a.out) = 1 /\ ~(Len(a.out) + 1 <= Len(a.out))
    <3> DEFINE o == a.out
    <3>1. o \in Seq(Items)
      BY <1>6
    <3> HIDE DEF o
    <3>2. Len(o) \in Nat
      BY <3>1
    <3>3. \A k \in Nat : k + 1 - k = 1 /\ ~(k + 1 <= k)
      OBVIOUS
    <3> QED
      BY <3>2, <3>3 DEF o
  <2>3. \A i \in 1..Len(a.out) : i \in 1..Len(a.out) + 1 /\ i <= Len(a.out)
    BY <2>2
  <2>4. b.out[Len(a.out) + 1] = nl[1]
    BY <1>5, <2>1, <2>2
  <2>5. Len(b.out) = Len(p.out) + Len(text) + 1
    BY <1>5, <1>6, <2>1
  <2> QED
    BY <1>2, <1>5, <2>1, <2>3, <2>4, <2>5
<1>8. \E t \in Seq(Items) : a.out = p.out \o t
  BY <1>1, <1>4
<1>9. \E t \in Seq(Items) : b.out = p.out \o t
  <2>1. text \o nl \in Seq(Items)
    BY <1>1, <1>2, ConcatProperties
  <2>2. \A s, t, u \in Seq(Items) : (s \o t) \o u = s \o (t \o u)
    BY ConcatAssociative
  <2>3. (p.out \o text) \o nl = p.out \o (text \o nl)
    BY <1>1, <1>2, <1>3, <2>2, ZenonT(40)
  <2>4. b.out = p.out \o (text \o nl)
    BY <1>4, <1>5, <2>3, Zenon
  <2> QED
    BY <2>1, <2>4, Zenon
<1>10. \E t \in Seq(Items) : p.out = p.out \o t
  <2>1. p.out \o <<>> = p.out /\ <<>> \in Seq(Items)
    BY <1>3, ConcatEmptySeq, EmptySeq
  <2> QED
    BY <2>1
<1>11. p.out = <<>> => /\ Len(a.out) = Len(text) /\ Len(b.out) = Len(text) + 1
                       /\ \A i \in 1..Len(text) : b.out[i] = text[i] /\ a.out[i] = text[i]
                       /\ b.out[Len(text) + 1] = "nl"
  <2> HAVE p.out = <<>>
  <2>1. a.out = text
    BY <1>1, <1>4, ConcatEmptySeq
  <2> QED
    BY <1>6, <1>7, <2>1
<1>12. peer_push(p, text) = IF ~Room(p, Len(text)) THEN p ELSE IF Room(a, 1) THEN b ELSE a
  BY DEF peer_push, a, b, nl
<1>13. CASE ~Room(p, Len(text))
  <2>1. peer_push(p, text) = p
    BY <1>12, <1>13
  <2>2. ASSUME p.co # "dead" PROVE p.out # <<>>
    <3>1. ~(Len(p.out) + Len(text) <= OutCap)
      BY <1>13, <2>2 DEF Room
    <3>2. ~(0 + Len(text) <= OutCap) => FALSE
      BY <1>1, <1>0
    <3> QED
      BY <3>1, <3>2
  <2> QED
    BY <1>10, <2>1, <2>2
<1>14. CASE Room(p, Len(text)) /\ ~Room(a, 1)
  <2>1. peer_push(p, text) = a /\ p.co # "dead" /\ Len(a.out) <= OutCap
    BY <1>1, <1>3, <1>6, <1>12, <1>14, PeerAssumption DEF Room
  <2>2. p.out # <<>>
    <3>1. ~(Len(a.out) + 1 <= OutCap)
      BY <1>4, <1>14, <2>1 DEF Room
    <3>2. ~(Len(text) + 1 <= OutCap) => FALSE
      BY <1>1, <1>0
    <3> QED
      BY <3>1, <3>2, <1>11
  <2> QED
    BY <1>4, <1>8, <2>1, <2>2
<1>15. CASE Room(p, Len(text)) /\ Room(a, 1)
  <2>1. peer_push(p, text) = b /\ p.co # "dead" /\ Len(b.out) <= OutCap
    BY <1>1, <1>3, <1>6, <1>7, <1>12, <1>15, PeerAssumption DEF Room
  <2>2. p.out = <<>> => Len(b.out) >= 2 /\ b.out[1] = text[1] /\ b.out[2] = "nl"
    BY <1>1, <1>11
  <2> QED
    BY <1>5, <1>9, <2>1, <2>2
<1> QED
  BY <1>13, <1>14, <1>15

-----------------------------------------------------------------------------
(* The answers to commands.                                                *)

\* p is the peer of c with more output; on an empty buffer it begins with that line.
Pushed(c, p, first) ==
    /\ p \in PeerRec /\ p.co = peer[c].co /\ p.in = peer[c].in /\ Len(p.out) <= OutCap
    /\ \E t \in Seq(Items) : p.out = peer[c].out \o t
    /\ p.ev = {} => peer[c].ev = {} \/ Len(peer[c].in) = InCap
    /\ peer[c].co # "dead" /\ peer[c].out = <<>> =>
          Len(p.out) >= 2 /\ p.out[1] = first /\ p.out[2] = "nl"

LEMMA PushedOnce ==
    ASSUME Typed, NEW c \in Conns, NEW text \in Texts
    PROVE  /\ Pushed(c, peer_push(peer[c], text), text[1])
           /\ Pushed(c, peer_push([peer[c] EXCEPT !.watch = TRUE], text), text[1])
<1>1. peer[c] \in PeerRec /\ Len(peer[c].in) <= InCap /\ Len(peer[c].out) <= OutCap
  BY DEF Typed
<1> DEFINE w == [peer[c] EXCEPT !.watch = TRUE]
<1>2. /\ w \in PeerRec /\ w.co = peer[c].co /\ w.in = peer[c].in /\ w.out = peer[c].out
      /\ w.ev = peer[c].ev
  BY <1>1 DEF PeerRec
<1> HIDE DEF w
<1>3. Pushed(c, peer_push(peer[c], text), text[1])
  BY <1>1, PushText DEF Pushed
<1>4. Pushed(c, peer_push(w, text), text[1])
  <2> DEFINE q == peer_push(w, text)
  <2>1. /\ q \in PeerRec /\ q.co = w.co /\ q.in = w.in /\ Len(q.out) <= OutCap
        /\ \E t \in Seq(Items) : q.out = w.out \o t
        /\ q.ev = {} => w.ev = {} \/ Len(w.in) = InCap
        /\ w.co # "dead" /\ w.out = <<>> =>
              Len(q.out) >= 2 /\ q.out[1] = text[1] /\ q.out[2] = "nl"
    BY <1>1, <1>2, PushText
  <2> HIDE DEF q
  <2>2. Pushed(c, q, text[1])
    BY <1>2, <2>1 DEF Pushed
  <2> QED
    BY <2>2 DEF q
<1> QED
  BY <1>3, <1>4 DEF w

LEMMA PushedTwice ==
    ASSUME Typed, NEW c \in Conns, NEW p, NEW first, Pushed(c, p, first), NEW text \in Texts
    PROVE  Pushed(c, peer_push(p, text), first)
<1> DEFINE q == peer_push(p, text)
<1>1. peer[c].out \in Seq(Items) /\ p.out \in Seq(Items) /\ Len(p.in) <= InCap
  BY DEF Typed, Pushed, PeerRec
<1>2. /\ q \in PeerRec /\ q.co = p.co /\ q.in = p.in /\ Len(q.out) <= OutCap
      /\ \E t \in Seq(Items) : q.out = p.out \o t
      /\ q.ev = {} => p.ev = {} \/ Len(p.in) = InCap
  BY <1>1, PushText DEF Pushed
<1> HIDE DEF q
<1>3. PICK t \in Seq(Items) : p.out = peer[c].out \o t
  BY DEF Pushed
<1>4. PICK u \in Seq(Items) : q.out = p.out \o u
  BY <1>2
<1>5. q.out = peer[c].out \o (t \o u) /\ t \o u \in Seq(Items)
  <2> DEFINE o == peer[c].out
  <2>1. o \in Seq(Items)
    BY <1>1
  <2> HIDE DEF o
  <2>2. (o \o t) \o u = o \o (t \o u) /\ t \o u \in Seq(Items)
    BY <2>1, ConcatAssociative
  <2>3. q.out = (o \o t) \o u
    BY <1>3, <1>4 DEF o
  <2> QED
    BY <2>2, <2>3, Zenon DEF o
<1>6. Len(p.out) >= 2 => Len(q.out) >= 2 /\ q.out[1] = p.out[1] /\ q.out[2] = p.out[2]
  <2> DEFINE o == p.out
  <2> HIDE DEF o
  <2>1. o \in Seq(Items)
    BY <1>1 DEF o
  <2>2. Len(o \o u) = Len(o) + Len(u) /\ Len(o) \in Nat /\ Len(u) \in Nat
    BY <2>1
  <2>3. \A i \in 1..Len(o) : (o \o u)[i] = o[i]
    BY <2>1
  <2>4. Len(o) >= 2 => Len(o \o u) >= 2 /\ 1 \in 1..Len(o) /\ 2 \in 1..Len(o)
    BY <2>2
  <2> QED
    BY <1>4, <2>3, <2>4 DEF o
<1>7. peer[c].co # "dead" /\ peer[c].out = <<>> =>
          Len(q.out) >= 2 /\ q.out[1] = first /\ q.out[2] = "nl"
  BY <1>6 DEF Pushed
<1>8. q.ev = {} => peer[c].ev = {} \/ Len(peer[c].in) = InCap
  BY <1>2 DEF Pushed
<1>9. q \in PeerRec /\ q.co = peer[c].co /\ q.in = peer[c].in /\ Len(q.out) <= OutCap
  BY <1>2 DEF Pushed
<1>10. Pushed(c, q, first)
  BY <1>5, <1>7, <1>8, <1>9 DEF Pushed
<1> QED
  BY <1>10 DEF q

\* A command of c was answered, and the result recorded is the one that was told.
Answered(c) ==
    \E q \in PeerRec, how \in {"ok", "partly", "no"} :
        /\ HasLine(peer[c].in)
        /\ peer' = [peer EXCEPT ![c] = q]
        /\ q.co = peer[c].co
        /\ q.in = AfterLine(peer[c].in) /\ Len(q.in) < Len(peer[c].in)
        /\ Len(q.out) <= OutCap
        /\ q.ev = {} => peer[c].ev = {} \/ Len(peer[c].in) = InCap
        /\ \E t \in Seq(Items) : q.out = peer[c].out \o t
        /\ peer[c].co # "dead" /\ peer[c].out = <<>> =>
              Len(q.out) >= 2 /\ Told(q.out, peer[c].in[1], how)
        /\ result' = IF c \in Ctl /\ ~Gone(c) THEN [result EXCEPT ![c] = how] ELSE result
        /\ UNCHANGED <<daemon, hook, peers, fd, up, down, client, events, filled>>

LEMMA AnswerOps ==
    ASSUME Typed, NEW c \in Conns, HasLine(peer[c].in),
           NEW p, NEW first, Pushed(c, p, first),
           NEW how \in {"ok", "partly", "no"}, Answer(c, p, how),
           \/ first = "OK" /\ (peer[c].in[1] \notin Unheeded => how = "ok")
           \/ first = "error" /\ (peer[c].in[1] # "edit" => how = "no")
    PROVE  Answered(c)
<1> DEFINE q == nce_stream_drain(p)
<1>1. p \in PeerRec /\ HasLine(p.in) /\ Len(p.in) <= InCap
  BY DEF Typed, Pushed
<1>2. /\ q \in PeerRec /\ q.co = p.co /\ q.out = p.out
      /\ q.in = AfterLine(p.in) /\ Len(q.in) < Len(p.in)
      /\ q.ev = {} => p.ev = {}
  BY <1>1, DrainOps
<1>3. peer' = [peer EXCEPT ![c] = q]
      /\ result' = (IF c \in Ctl /\ ~Gone(c) THEN [result EXCEPT ![c] = how] ELSE result)
      /\ UNCHANGED <<daemon, hook, peers, fd, up, down, client, events, filled>>
  BY DEF Answer
<1> HIDE DEF q
<1>4. /\ q.co = peer[c].co /\ q.in = AfterLine(peer[c].in) /\ Len(q.in) < Len(peer[c].in)
      /\ Len(q.out) <= OutCap
      /\ q.ev = {} => peer[c].ev = {} \/ Len(peer[c].in) = InCap
      /\ \E t \in Seq(Items) : q.out = peer[c].out \o t
  BY <1>2 DEF Pushed
<1>5. peer[c].co # "dead" /\ peer[c].out = <<>> =>
          Len(q.out) >= 2 /\ Told(q.out, peer[c].in[1], how)
  BY <1>2 DEF Pushed, Told
<1> QED
  BY <1>2, <1>3, <1>4, <1>5 DEF Answered

\* A command of one word is the first thing in the buffer.
LEMMA Command ==
    ASSUME Typed, NEW c \in Conns, HasLine(peer[c].in), NEW k, Received(c) = <<k>>
    PROVE  peer[c].in[1] = k
<1> DEFINE s == peer[c].in
<1>1. s \in Seq(Items)
  BY DEF Typed, PeerRec
<1> HIDE DEF s
<1>2. Len(Line(s)) = LineLen(s) /\ \A i \in 1..LineLen(s) : Line(s)[i] = s[i]
  BY <1>1, LineOps DEF s
<1>3. Line(s) = <<k>>
  BY DEF Received, s
<1>4. Len(Line(s)) = 1 /\ Line(s)[1] = k
  BY <1>3
<1>5. 1 \in 1..1
  OBVIOUS
<1>6. s[1] = k
  BY <1>2, <1>4, <1>5
<1> QED
  BY <1>6 DEF s

\* What is done between a line and the next.
Points == {Nil} \cup [who : Conns \cup {Nil},
                      step : {"lines", "dispatch", "hook", "observe", "answer"}]
Skipped(c) ==
    /\ HasLine(peer[c].in) /\ Received(c) = <<>>
    /\ peer' = [peer EXCEPT ![c] = nce_stream_drain(@)]
    /\ UNCHANGED <<daemon, hook, peers, fd, up, down, client, events, result, filled>>
Elsewhere == UNCHANGED <<daemon, hook, peers, peer, fd, up, down, client, events, result, filled>>

LEMMA LinesOps ==
    ASSUME Typed, NEW c \in Conns, peer_lines(c)
    PROVE  /\ at' \in Points
           /\ Answered(c) \/ Skipped(c) \/ Elsewhere \/ ProcessEnds("crashed")
<1> USE DEF ok, error
<1>1. /\ ok \in Texts /\ ok[1] = "OK" /\ error \in Texts /\ error[1] = "error"
  BY DEF Texts
<1>2. \A t \in {<<"OK", "nl", "item">>, <<"OK", "nl", "item", "nl">>} : t \in Texts /\ t[1] = "OK"
  BY DEF Texts
<1>3. /\ Pushed(c, peer_push(peer[c], ok), "OK")
      /\ Pushed(c, peer_push(peer[c], error), "error")
      /\ Pushed(c, peer_push([peer[c] EXCEPT !.watch = TRUE], ok), "OK")
      /\ \A t \in {<<"OK", "nl", "item">>, <<"OK", "nl", "item", "nl">>} :
             Pushed(c, peer_push(peer[c], t), "OK")
  <2> HIDE DEF ok, error
  <2> QED
    BY <1>1, <1>2, PushedOnce
<1>4. Pushed(c, peer_push(peer_push(peer[c], error), ok), "error")
  <2> HIDE DEF ok, error
  <2> QED
    BY <1>1, <1>3, PushedTwice
<1> HIDE DEF ok, error
<1>5. at \in Points
  BY DEF Typed, Points
<1> DEFINE k == peer[c].in[1]
<1>6. ASSUME HasLine(peer[c].in), NEW p, NEW how \in {"ok", "partly", "no"}, Answer(c, p, how),
             \/ Pushed(c, p, "OK") /\ (k \notin Unheeded => how = "ok")
             \/ Pushed(c, p, "error") /\ (k # "edit" => how = "no")
      PROVE  Answered(c)
  BY <1>6, AnswerOps
<1>7. ASSUME HasLine(peer[c].in), Refused(c)
      PROVE  Answered(c)
  BY <1>3, <1>6, <1>7 DEF Refused
<1>8. CASE HasLine(peer[c].in) /\ invoke_set(c)
  <2>1. k = "set" /\ at' = at
    BY <1>8, Command DEF invoke_set
  <2> QED
    BY <1>3, <1>5, <1>6, <1>7, <1>8, <2>1 DEF invoke_set
<1>9. CASE HasLine(peer[c].in) /\ invoke_send(c)
  <2>1. k = "send" /\ at' = at
    BY <1>9, Command DEF invoke_send
  <2> QED
    BY <1>3, <1>5, <1>6, <1>7, <1>9, <2>1 DEF invoke_send, OkAnyhow, Unheeded
<1>17. CASE HasLine(peer[c].in) /\ invoke_remove(c)
  <2>1. k = "remove" /\ at' = at
    BY <1>17, Command DEF invoke_remove
  <2> QED
    BY <1>3, <1>5, <1>6, <1>7, <1>17, <2>1 DEF invoke_remove, OkAnyhow, Unheeded
<1>10. CASE HasLine(peer[c].in) /\ cmd_rule_edit(c)
  <2>1. k = "edit" /\ at' = at
    BY <1>10, Command DEF cmd_rule_edit
  <2> QED
    BY <1>3, <1>5, <1>6, <1>7, <1>10, <2>1 DEF cmd_rule_edit
<1>11. CASE HasLine(peer[c].in) /\ invoke_show(c)
  <2>1. k = "show" /\ at' = at
    BY <1>11, Command DEF invoke_show
  <2> QED
    BY <1>3, <1>5, <1>6, <1>7, <1>11, <2>1 DEF invoke_show
<1>12. CASE HasLine(peer[c].in) /\ cmd_plugin_load(c)
  <2>1. k = "load" /\ at' = at
    BY <1>12, Command DEF cmd_plugin_load
  <2> QED
    BY <1>3, <1>4, <1>5, <1>6, <1>12, <2>1 DEF cmd_plugin_load, OkAnyhow, Unheeded
<1>13. CASE HasLine(peer[c].in) /\ cmd_watch(c)
  <2>1. k = "watch" /\ at' = at
    BY <1>13, Command DEF cmd_watch
  <2> QED
    BY <1>3, <1>5, <1>6, <1>13, <2>1 DEF cmd_watch
<1>14. CASE HasLine(peer[c].in) /\ invoke_dispatch(c)
  <2>1. at' \in Points
    BY <1>14 DEF invoke_dispatch, Points
  <2>2. CASE Answer(c, peer_push(peer[c], ok), "ok")
    BY <1>3, <1>6, <1>14, <2>1, <2>2
  <2>3. CASE Elsewhere
    BY <2>1, <2>3
  <2> QED
    BY <1>14, <2>2, <2>3 DEF invoke_dispatch, Elsewhere
<1>15. CASE invoke_part(c)
  BY <1>15 DEF invoke_part, ProcessEnds, Points
<1>16. CASE peer_lines_end(c)
  BY <1>5, <1>16 DEF peer_lines_end, Skipped, Elsewhere, Points
<1> QED
  BY <1>8, <1>9, <1>10, <1>11, <1>12, <1>13, <1>14, <1>15, <1>16, <1>17 DEF peer_lines

-----------------------------------------------------------------------------
(* The transfers between a peer and its socket.                            *)

LEMMA LeastOps ==
    ASSUME NEW m \in Nat, NEW n \in Nat
    PROVE  Least(m, n) \in Nat /\ Least(m, n) <= m /\ Least(m, n) <= n
<1>1. {m, n} \in SUBSET Nat /\ {m, n} # {}
  OBVIOUS
<1>2. Min({m, n}) \in {m, n} /\ \A y \in {m, n} : Min({m, n}) <= y
  BY <1>1, LeastOne
<1> QED
  BY <1>2 DEF Least

\* What the coroutine of c reads, and what it writes; it serves the lines then, or
\* waits for the next time.
Moved(c) ==
    \E q \in PeerRec, n \in Nat, m \in Nat :
        /\ n <= Len(up[c]) /\ Len(peer[c].in) + n <= InCap
        /\ m <= Len(peer[c].out) /\ Len(down[c]) + m <= SockCap
        /\ q.in = peer[c].in \o SubSeq(up[c], 1, n)
        /\ q.out = SubSeq(peer[c].out, m + 1, Len(peer[c].out))
        /\ q.co = IF q.out = <<>> THEN "loop" ELSE peer[c].co
        /\ q.watch = peer[c].watch /\ q.ev = Needed(q)
        /\ peer' = [peer EXCEPT ![c] = q]
        /\ up' = [up EXCEPT ![c] = SubSeq(up[c], n + 1, Len(up[c]))]
        /\ down' = [down EXCEPT ![c] = @ \o SubSeq(peer[c].out, 1, m)]
        /\ filled' = IF Len(q.in) = InCap THEN filled \cup {c} ELSE filled
        /\ UNCHANGED fd

LEMMA TransferOps ==
    ASSUME Typed, NEW c \in Conns, peer_stream_entry(c)
    PROVE  /\ at' \in Points /\ peer[c].co # "dead"
           /\ UNCHANGED <<daemon, hook, peers, client, events, result>>
           /\ PeerEnds(c) \/ Moved(c)
<1> DEFINE r == "r" \in peer[c].ev \cap Ready(c)
           w == "w" \in peer[c].ev \cap Ready(c)
           n == IF r THEN Least(InCap - Len(peer[c].in), Len(up[c])) ELSE 0
           m == IF w THEN Least(Len(peer[c].out), SockCap - Len(down[c])) ELSE 0
<1>1. /\ peer[c] \in PeerRec /\ Len(peer[c].in) <= InCap /\ Len(down[c]) <= SockCap
      /\ peer[c].in \in Seq(Items) /\ peer[c].out \in Seq(Items)
      /\ up[c] \in Seq(Items) /\ down[c] \in Seq(Items)
  BY DEF Typed, PeerRec
<1>2. /\ Len(peer[c].in) \in Nat /\ Len(peer[c].out) \in Nat /\ Len(up[c]) \in Nat
      /\ Len(down[c]) \in Nat /\ InCap \in Nat /\ SockCap \in Nat
  BY <1>1, PeerAssumption
<1>3. InCap - Len(peer[c].in) \in Nat /\ SockCap - Len(down[c]) \in Nat
  BY <1>1, <1>2
<1>4. n \in Nat /\ n <= Len(up[c]) /\ n <= InCap - Len(peer[c].in)
  <2>1. CASE r
    BY <1>2, <1>3, <2>1, LeastOps
  <2>2. CASE ~r
    BY <1>2, <1>3, <2>2
  <2> QED
    BY <2>1, <2>2
<1>5. m \in Nat /\ m <= Len(peer[c].out) /\ m <= SockCap - Len(down[c])
  <2>1. CASE w
    BY <1>2, <1>3, <2>1, LeastOps
  <2>2. CASE ~w
    BY <1>2, <1>3, <2>2
  <2> QED
    BY <2>1, <2>2
<1>6. PeerEnds(c) \/ Transferred(c, n, m)
  BY DEF peer_stream_entry
<1>7. UNCHANGED <<daemon, hook, peers, client, events, result>> /\ peer[c].co # "dead"
  BY DEF peer_stream_entry
<1>8. at \in Points
  BY DEF Typed, Points
<1>9. CASE PeerEnds(c)
  BY <1>7, <1>8, <1>9 DEF PeerEnds
<1>10. CASE Transferred(c, n, m)
  <2> HIDE DEF n, m, r, w
  <2> DEFINE a == peer[c].in \o SubSeq(up[c], 1, n)
             b == SubSeq(peer[c].out, m + 1, Len(peer[c].out))
             p == [peer[c] EXCEPT !.in = @ \o SubSeq(up[c], 1, n), !.out = Drop(@, m)]
             q == [p EXCEPT !.ev = Needed(p)]
             s == IF p.out = <<>> THEN [q EXCEPT !.co = "loop"] ELSE q
  <2>1. SubSeq(up[c], 1, n) \in Seq(Items) /\ b \in Seq(Items)
    BY <1>1, <1>4, <1>5, Prefix, Suffix
  <2>2. a \in Seq(Items)
    BY <1>1, <2>1, ConcatProperties
  <2>3. /\ p \in PeerRec /\ p.in = a /\ p.out = b /\ p.co = peer[c].co
        /\ p.watch = peer[c].watch
    BY <1>1, <2>1, <2>2 DEF PeerRec, Drop
  <2>4. /\ peer' = [peer EXCEPT ![c] = s]
        /\ at' = (IF p.co = "loop" THEN [who |-> c, step |-> "lines"] ELSE Nil)
        /\ up' = [up EXCEPT ![c] = SubSeq(up[c], n + 1, Len(up[c]))]
        /\ down' = [down EXCEPT ![c] = @ \o SubSeq(peer[c].out, 1, m)]
        /\ filled' = (IF Len(p.in) = InCap THEN filled \cup {c} ELSE filled)
        /\ UNCHANGED fd
    BY <1>10 DEF Transferred, Drop, Typed
  <2> HIDE DEF p, a, b
  <2>5. Needed(p) \in SUBSET {"r", "w"}
    BY DEF Needed
  <2>6. /\ s \in PeerRec /\ s.in = a /\ s.out = b /\ s.watch = peer[c].watch
        /\ s.co = IF s.out = <<>> THEN "loop" ELSE peer[c].co
        /\ s.ev = Needed(p)
    BY <2>3, <2>5 DEF PeerRec
  <2>7. Needed(s) = Needed(p) /\ s.in = p.in
    BY <2>3, <2>6 DEF Needed
  <2>8. at' \in Points
    BY <2>4 DEF Points
  <2>9. Len(peer[c].in) + n <= InCap /\ Len(down[c]) + m <= SockCap
    <3>1. \A x, y, z \in Nat : y <= z - x => x + y <= z
      OBVIOUS
    <3> QED
      BY <1>2, <1>4, <1>5, <3>1
  <2>10. Moved(c)
    <3> HIDE DEF s
    <3>1. s.ev = Needed(s) /\ filled' = (IF Len(s.in) = InCap THEN filled \cup {c} ELSE filled)
      BY <2>4, <2>6, <2>7
    <3> QED
      BY <1>4, <1>5, <2>4, <2>6, <2>9, <3>1 DEF Moved, a, b
  <2> QED
    BY <1>7, <2>8, <2>10
<1> QED
  BY <1>6, <1>9, <1>10

-----------------------------------------------------------------------------
(* Types.                                                                  *)

LEMMA NewPeers ==
    /\ NoPeer \in PeerRec /\ peer_new \in PeerRec
    /\ NoPeer.in = <<>> /\ NoPeer.out = <<>> /\ NoPeer.co = "dead" /\ ~NoPeer.watch
    /\ peer_new.in = <<>> /\ peer_new.out = <<"hello", "nl">> /\ peer_new.co = "hello"
    /\ ~peer_new.watch /\ peer_new.ev # {} /\ NoPeer.ev = {}
    /\ Len(NoPeer.in) = 0 /\ Len(NoPeer.out) = 0 /\ Len(peer_new.in) = 0
    /\ Len(peer_new.out) = 2 /\ 2 <= OutCap /\ 0 <= OutCap /\ 0 <= InCap /\ 1 <= InCap
<1>1. <<"hello", "nl">> \in Seq(Items) /\ <<>> \in Seq(Items)
  BY DEF Items
<1> QED
  BY <1>1, PeerAssumption DEF NoPeer, peer_new, PeerRec

\* What each action of the daemon does to the peers keeps them typed.
LEMMA ReapTyped ==
    ASSUME Typed, NEW list \in SUBSET Conns, NEW all \in [Conns -> PeerRec],
           NEW fds \in [Conns -> {"none", "backlog", "open", "closed", "leaked"}],
           \A c \in Conns : Len(all[c].in) <= InCap /\ Len(all[c].out) <= OutCap,
           Reap(list, all, fds),
           UNCHANGED <<daemon, at, hook, up, down, client, events, result, filled>>
    PROVE  Typed'
<1>1. peers' \subseteq Conns /\ peer' \in [Conns -> PeerRec]
      /\ fd' \in [Conns -> {"none", "backlog", "open", "closed", "leaked"}]
  BY NewPeers DEF Reap
<1>2. \A c \in Conns : Len(peer'[c].in) <= InCap /\ Len(peer'[c].out) <= OutCap
  BY NewPeers DEF Reap
<1> QED
  BY <1>1, <1>2 DEF Typed

LEMMA EndsTyped ==
    ASSUME Typed, NEW how \in {"stopped", "crashed"}, ProcessEnds(how)
    PROVE  Typed'
<1>1. /\ peers' \subseteq Conns /\ peer' \in [Conns -> PeerRec]
      /\ fd' \in [Conns -> {"none", "backlog", "open", "closed", "leaked"}]
      /\ daemon' \in {"up", "stopped", "crashed"} /\ at' = Nil /\ hook' = Nil
  BY NewPeers DEF ProcessEnds, Typed
<1>2. \A c \in Conns : Len(peer'[c].in) <= InCap /\ Len(peer'[c].out) <= OutCap
  BY NewPeers DEF ProcessEnds
<1> QED
  BY <1>1, <1>2 DEF Typed, ProcessEnds

LEMMA AnsweredTyped ==
    ASSUME Typed, NEW c \in Conns, Answered(c), at' \in Points
    PROVE  Typed'
<1>1. PICK q \in PeerRec, how \in {"ok", "partly", "no"} :
          /\ peer' = [peer EXCEPT ![c] = q] /\ Len(q.in) < Len(peer[c].in) /\ Len(q.out) <= OutCap
          /\ result' = IF c \in Ctl /\ ~Gone(c) THEN [result EXCEPT ![c] = how] ELSE result
          /\ UNCHANGED <<daemon, hook, peers, fd, up, down, client, events, filled>>
  BY DEF Answered
<1>2. Len(q.in) <= InCap
  <2>1. q.in \in Seq(Items) /\ peer[c].in \in Seq(Items) /\ Len(peer[c].in) <= InCap
    BY DEF Typed, PeerRec
  <2>2. Len(q.in) \in Nat /\ Len(peer[c].in) \in Nat /\ InCap \in Nat
    BY <2>1, PeerAssumption
  <2> QED
    BY <1>1, <2>1, <2>2
<1>3. peer' \in [Conns -> PeerRec] /\ result' \in [Ctl -> {"none", "ok", "partly", "no"}]
  BY <1>1 DEF Typed
<1>4. \A d \in Conns : Len(peer'[d].in) <= InCap /\ Len(peer'[d].out) <= OutCap
  BY <1>1, <1>2 DEF Typed
<1> QED
  BY <1>1, <1>3, <1>4 DEF Typed, Points

LEMMA SkippedTyped ==
    ASSUME Typed, NEW c \in Conns, Skipped(c), at' \in Points
    PROVE  Typed'
<1> DEFINE q == nce_stream_drain(peer[c])
<1>1. peer[c] \in PeerRec /\ HasLine(peer[c].in) /\ Len(peer[c].in) <= InCap
  BY DEF Typed, Skipped
<1>2. q \in PeerRec /\ q.out = peer[c].out /\ Len(q.in) < Len(peer[c].in)
  BY <1>1, DrainOps
<1>3. peer' = [peer EXCEPT ![c] = q]
  BY DEF Skipped, Typed
<1> HIDE DEF q
<1>4. Len(q.in) <= InCap
  <2>1. q.in \in Seq(Items) /\ peer[c].in \in Seq(Items)
    BY <1>1, <1>2 DEF PeerRec
  <2>2. Len(q.in) \in Nat /\ Len(peer[c].in) \in Nat /\ InCap \in Nat
    BY <2>1, PeerAssumption
  <2> QED
    BY <1>1, <1>2, <2>2
<1>5. peer' \in [Conns -> PeerRec]
  BY <1>2, <1>3 DEF Typed
<1>6. \A d \in Conns : Len(peer'[d].in) <= InCap /\ Len(peer'[d].out) <= OutCap
  BY <1>2, <1>3, <1>4 DEF Typed
<1> QED
  BY <1>5, <1>6 DEF Typed, Points, Skipped

LEMMA EntryTyped ==
    ASSUME Typed, NEW c \in Conns, peer_stream_entry(c)
    PROVE  Typed'
<1>1. /\ at' \in Points /\ UNCHANGED <<daemon, hook, peers, client, events, result>>
      /\ PeerEnds(c) \/ Moved(c)
  BY TransferOps
<1>2. CASE PeerEnds(c)
  <2>1. peer' \in [Conns -> PeerRec] /\ fd' \in [Conns -> {"none", "backlog", "open", "closed", "leaked"}]
    BY <1>2, NewPeers DEF PeerEnds, Typed
  <2>2. \A d \in Conns : Len(peer'[d].in) <= InCap /\ Len(peer'[d].out) <= OutCap
    BY <1>2, NewPeers DEF PeerEnds, Typed
  <2> QED
    BY <1>1, <1>2, <2>1, <2>2 DEF PeerEnds, Typed, Points
<1>3. CASE Moved(c)
  <2>1. PICK q \in PeerRec, n \in Nat, m \in Nat :
          /\ n <= Len(up[c]) /\ Len(peer[c].in) + n <= InCap
          /\ m <= Len(peer[c].out) /\ Len(down[c]) + m <= SockCap
          /\ q.in = peer[c].in \o SubSeq(up[c], 1, n)
          /\ q.out = SubSeq(peer[c].out, m + 1, Len(peer[c].out))
          /\ peer' = [peer EXCEPT ![c] = q]
          /\ up' = [up EXCEPT ![c] = SubSeq(up[c], n + 1, Len(up[c]))]
          /\ down' = [down EXCEPT ![c] = @ \o SubSeq(peer[c].out, 1, m)]
          /\ filled' = (IF Len(q.in) = InCap THEN filled \cup {c} ELSE filled)
          /\ UNCHANGED fd
    BY <1>3 DEF Moved
  <2> DEFINE i == peer[c].in
             o == peer[c].out
             u == up[c]
             d == down[c]
  <2>2. i \in Seq(Items) /\ o \in Seq(Items) /\ u \in Seq(Items) /\ d \in Seq(Items) /\ Len(o) <= OutCap
    BY DEF Typed, PeerRec
  <2>3. /\ n <= Len(u) /\ Len(i) + n <= InCap /\ m <= Len(o) /\ Len(d) + m <= SockCap
        /\ q.in = i \o SubSeq(u, 1, n) /\ q.out = SubSeq(o, m + 1, Len(o))
    BY <2>1
  <2> HIDE DEF i, o, u, d
  <2>4. /\ SubSeq(u, 1, n) \in Seq(Items) /\ Len(SubSeq(u, 1, n)) = n
        /\ SubSeq(u, n + 1, Len(u)) \in Seq(Items)
        /\ SubSeq(o, 1, m) \in Seq(Items) /\ Len(SubSeq(o, 1, m)) = m
        /\ Len(SubSeq(o, m + 1, Len(o))) = Len(o) - m
    BY <2>2, <2>3, Prefix, Suffix
  <2>5. Len(i \o SubSeq(u, 1, n)) = Len(i) + n
    BY <2>2, <2>4, ConcatProperties
  <2>6. d \o SubSeq(o, 1, m) \in Seq(Items) /\ Len(d \o SubSeq(o, 1, m)) = Len(d) + m
    BY <2>2, <2>4, ConcatProperties
  <2>7. Len(q.in) <= InCap
    BY <2>3, <2>5
  <2>8. Len(q.out) <= OutCap
    <3>1. Len(o) \in Nat /\ OutCap \in Nat
      BY <2>2, PeerAssumption
    <3> QED
      BY <2>2, <2>3, <2>4, <3>1
  <2>9. peer' \in [Conns -> PeerRec] /\ up' \in [Conns -> Seq(Items)] /\ down' \in [Conns -> Seq(Items)]
    BY <2>1, <2>4, <2>6 DEF Typed, u, d, o
  <2>10. \A x \in Conns : Len(peer'[x].in) <= InCap /\ Len(peer'[x].out) <= OutCap
    BY <2>1, <2>7, <2>8 DEF Typed
  <2>11. \A x \in Conns : Len(down'[x]) <= SockCap
    <3>1. down'[c] = d \o SubSeq(o, 1, m)
      BY <2>1 DEF d, o, Typed
    <3>2. Len(down'[c]) <= SockCap
      BY <2>3, <2>6, <3>1
    <3>3. \A x \in Conns : x # c => down'[x] = down[x]
      BY <2>1 DEF Typed
    <3> QED
      BY <3>2, <3>3 DEF Typed
  <2>12. filled' \subseteq Conns
    BY <2>1 DEF Typed
  <2> QED
    BY <1>1, <2>1, <2>9, <2>10, <2>11, <2>12 DEF Typed, Points
<1> QED
  BY <1>1, <1>2, <1>3

LEMMA LinesTyped ==
    ASSUME Typed, NEW c \in Conns, peer_lines(c)
    PROVE  Typed'
<1>1. at' \in Points /\ (Answered(c) \/ Skipped(c) \/ Elsewhere \/ ProcessEnds("crashed"))
  BY LinesOps
<1>2. CASE Elsewhere
  BY <1>1, <1>2 DEF Elsewhere, Typed, Points
<1> QED
  BY <1>1, <1>2, AnsweredTyped, SkippedTyped, EndsTyped

\* Broadcasting gives each peer that watches the event, if there is room.
LEMMA BroadcastTyped ==
    ASSUME Typed, peer' = transport_broadcast(peer) \/ UNCHANGED peer
    PROVE  /\ peer' \in [Conns -> PeerRec]
           /\ \A c \in Conns : Len(peer'[c].in) <= InCap /\ Len(peer'[c].out) <= OutCap
<1>1. CASE UNCHANGED peer
  BY <1>1 DEF Typed
<1>2. CASE peer' = transport_broadcast(peer)
  <2>1. <<"event">> \in Texts
    BY DEF Texts
  <2>2. \A c \in Conns : LET q == peer_push(peer[c], <<"event">>)
                         IN  q \in PeerRec /\ Len(q.in) <= InCap /\ Len(q.out) <= OutCap
    <3> TAKE c \in Conns
    <3>1. peer[c] \in PeerRec /\ Len(peer[c].in) <= InCap /\ Len(peer[c].out) <= OutCap
      BY DEF Typed
    <3> QED
      BY <2>1, <3>1, PushText
  <2>3. \A c \in Conns : peer'[c] \in {peer[c], peer_push(peer[c], <<"event">>)}
    BY <1>2 DEF transport_broadcast
  <2>4. peer' = [c \in Conns |-> peer'[c]]
    BY <1>2 DEF transport_broadcast
  <2>5. \A c \in Conns : /\ peer'[c] \in PeerRec
                        /\ Len(peer'[c].in) <= InCap /\ Len(peer'[c].out) <= OutCap
    <3> TAKE c \in Conns
    <3>1. peer[c] \in PeerRec /\ Len(peer[c].in) <= InCap /\ Len(peer[c].out) <= OutCap
      BY DEF Typed
    <3> DEFINE q == peer_push(peer[c], <<"event">>)
    <3>2. q \in PeerRec /\ Len(q.in) <= InCap /\ Len(q.out) <= OutCap
      BY <2>2
    <3>3. peer'[c] = peer[c] \/ peer'[c] = q
      BY <2>3
    <3> HIDE DEF q
    <3> QED
      BY <3>1, <3>2, <3>3
  <2> QED
    BY <2>4, <2>5
<1> QED
  BY <1>1, <1>2

\* What irccdctl and the other clients do.
LEMMA EndsClientTyped ==
    ASSUME Typed, NEW c \in Conns, NEW how \in Ended, Ends(c, how)
    PROVE  Typed'
<1> DEFINE r == [client[c] EXCEPT !.pc = how, !.req = "none", !.in = <<>>, !.sent = 0]
<1>a. client[c] \in ClientRec /\ <<>> \in Seq(Items)
  BY DEF Typed
<1>b. r \in ClientRec
  BY <1>a DEF ClientRec
<1>c. client' = [client EXCEPT ![c] = r]
  BY DEF Ends, Typed
<1> HIDE DEF r
<1>1. client' \in [Conns -> ClientRec] /\ down' \in [Conns -> Seq(Items)]
      /\ result' \in [Ctl -> {"none", "ok", "partly", "no"}]
  BY <1>a, <1>b, <1>c DEF Ends, Typed
<1>2. \A d \in Conns : Len(down'[d]) <= SockCap
  BY PeerAssumption DEF Ends, Typed
<1> QED
  BY <1>1, <1>2 DEF Typed, Ends, daemonVars

LEMMA ConsumedTyped ==
    ASSUME Typed, NEW c \in Conns, HasLine(client[c].in),
           NEW pc \in {"items", "watch"}, Consumed(c, pc)
    PROVE  Typed'
<1>1. client[c] \in ClientRec /\ AfterLine(client[c].in) \in Seq(Items)
  <2>1. client[c].in \in Seq(Items)
    BY DEF Typed, ClientRec
  <2> QED
    BY <2>1, LineOps DEF Typed
<1>2. client' \in [Conns -> ClientRec]
  BY <1>1 DEF Consumed, Typed, ClientRec
<1> QED
  BY <1>2 DEF Typed, Consumed, daemonVars

\* What irccdctl takes from its socket.
Polled(c, n) ==
    /\ n <= Len(down[c])
    /\ client' = [client EXCEPT ![c].in = @ \o SubSeq(down[c], 1, n)]
    /\ down' = [down EXCEPT ![c] = SubSeq(down[c], n + 1, Len(down[c]))]
    /\ UNCHANGED <<daemonVars, up, events, result, filled>>

LEMMA PollOps ==
    ASSUME Typed, NEW c \in Ctl, ctl_poll(c)
    PROVE  \/ Ends(c, "died")
           \/ \E n \in Nat : Polled(c, n)
<1> DEFINE n == Least(Len(down[c]), CtlCap - 1)
<1>1. down[c] \in Seq(Items)
  BY DEF Typed, Conns
<1>2. Len(down[c]) \in Nat /\ CtlCap - 1 \in Nat
  BY <1>1, PeerAssumption
<1>3. n \in Nat /\ n <= Len(down[c])
  BY <1>2, LeastOps
<1>4. \/ Ends(c, "died")
      \/ /\ client' = [client EXCEPT ![c].in = @ \o SubSeq(down[c], 1, n)]
         /\ down' = [down EXCEPT ![c] = Drop(@, n)]
         /\ UNCHANGED <<daemonVars, up, events, result, filled>>
  BY DEF ctl_poll
<1> HIDE DEF n
<1> QED
  BY <1>3, <1>4 DEF Polled, Drop, Typed, Conns

LEMMA PolledTyped ==
    ASSUME Typed, NEW c \in Conns, NEW n \in Nat, Polled(c, n)
    PROVE  Typed'
<1> DEFINE d == down[c]
           i == client[c].in
<1>1. d \in Seq(Items) /\ i \in Seq(Items) /\ n <= Len(d) /\ Len(d) <= SockCap
  BY DEF Typed, ClientRec, Polled
<1> HIDE DEF d, i
<1>2. /\ SubSeq(d, 1, n) \in Seq(Items) /\ SubSeq(d, n + 1, Len(d)) \in Seq(Items)
      /\ Len(SubSeq(d, n + 1, Len(d))) = Len(d) - n
  BY <1>1, Prefix, Suffix
<1>3. i \o SubSeq(d, 1, n) \in Seq(Items)
  BY <1>1, <1>2, ConcatProperties
<1>4. Len(SubSeq(d, n + 1, Len(d))) <= SockCap
  <2>1. Len(d) \in Nat /\ SockCap \in Nat
    BY <1>1, PeerAssumption
  <2> QED
    BY <1>1, <1>2, <2>1
<1>5. client' \in [Conns -> ClientRec] /\ down' \in [Conns -> Seq(Items)]
  BY <1>2, <1>3, ZenonT(40) DEF Typed, Polled, ClientRec, d, i
<1>6. \A x \in Conns : Len(down'[x]) <= SockCap
  BY <1>4 DEF Typed, Polled, d
<1> QED
  BY <1>5, <1>6 DEF Typed, Polled, daemonVars

LEMMA RequestTyped ==
    ASSUME Typed, NEW c \in Ctl, ctl_request(c)
    PROVE  Typed'
<1>1. c \in Conns /\ client[c] \in ClientRec /\ AfterLine(client[c].in) \in Seq(Items)
  <2>1. client[c].in \in Seq(Items) /\ HasLine(client[c].in)
    BY DEF Typed, ClientRec, ctl_request, Conns
  <2> QED
    BY <2>1, LineOps DEF Typed, Conns
<1>2. CASE Ends(c, "died")
  BY <1>1, <1>2, EndsClientTyped DEF Ended
<1>3. ASSUME NEW k \in CtlRequests,
             up' = [up EXCEPT ![c] = @ \o <<k, "nl">>],
             client' = [client EXCEPT ![c].in = AfterLine(@), ![c].pc = "reply", ![c].req = k],
             UNCHANGED <<daemonVars, down, events, result, filled>>
      PROVE  Typed'
  <2>1. <<k, "nl">> \in Seq(Items) /\ up[c] \in Seq(Items)
    BY <1>1 DEF Items, Typed
  <2>2. up[c] \o <<k, "nl">> \in Seq(Items)
    BY <2>1, ConcatProperties
  <2>3. up' \in [Conns -> Seq(Items)]
    BY <1>3, <2>2 DEF Typed
  <2>4. client' \in [Conns -> ClientRec]
    BY <1>1, <1>3 DEF Typed, ClientRec
  <2> QED
    BY <1>3, <2>3, <2>4 DEF Typed, daemonVars
<1> QED
  BY <1>2, <1>3 DEF ctl_request

LEMMA OtherSendTyped ==
    ASSUME Typed, NEW c \in Others, other_send(c)
    PROVE  Typed'
<1>1. PICK s \in {<<k, "nl">> : k \in Asked} \cup {<<"nl">>} : up' = [up EXCEPT ![c] = @ \o s]
  BY DEF other_send
<1>2. s \in Seq(Items)
  <2>1. Asked \subseteq Items /\ "nl" \in Items
    BY PeerAssumption DEF Items, CtlRequests
  <2>2. CASE s = <<"nl">>
    BY <2>1, <2>2
  <2>3. ASSUME NEW k \in Asked, s = <<k, "nl">> PROVE s \in Seq(Items)
    BY <2>1, <2>3
  <2> QED
    BY <2>2, <2>3
<1>3. up[c] \in Seq(Items) /\ client[c] \in ClientRec /\ c \in Conns
  BY DEF Typed, Conns
<1>4. up[c] \o s \in Seq(Items)
  BY <1>2, <1>3, ConcatProperties
<1>5. up' \in [Conns -> Seq(Items)]
  BY <1>1, <1>3, <1>4 DEF Typed
<1>6. client' \in [Conns -> ClientRec]
  <2> DEFINE r == [client[c] EXCEPT !.sent = @ + 1]
  <2>1. r \in ClientRec
    BY <1>3 DEF ClientRec
  <2>2. client' = [client EXCEPT ![c] = r]
    BY <1>3 DEF other_send, Typed
  <2> HIDE DEF r
  <2> QED
    BY <2>1, <2>2 DEF Typed
<1> QED
  BY <1>5, <1>6 DEF Typed, daemonVars, other_send

LEMMA DialTyped ==
    ASSUME Typed, NEW c \in Conns, dial(c) \/ other_connect(c)
    PROVE  Typed'
<1>a. PICK pc \in {"hello", "died", "open"} : client' = [client EXCEPT ![c].pc = pc]
  BY DEF dial, other_connect
<1> DEFINE r == [client[c] EXCEPT !.pc = pc]
<1>b. client[c] \in ClientRec
  BY DEF Typed
<1>c. r \in ClientRec /\ client' = [client EXCEPT ![c] = r]
  BY <1>a, <1>b DEF ClientRec, Ended, Typed
<1> HIDE DEF r
<1>d. fd' = fd \/ fd' = [fd EXCEPT ![c] = "backlog"]
  BY DEF dial, other_connect, connect, daemonVars
<1>1. client' \in [Conns -> ClientRec] /\ fd' \in [Conns -> {"none", "backlog", "open", "closed", "leaked"}]
  BY <1>c, <1>d DEF Typed
<1>2. UNCHANGED <<daemon, at, hook, peers, peer, up, down, result, filled>>
  BY DEF dial, other_connect, connect, daemonVars
<1> QED
  BY <1>1, <1>2 DEF Typed

LEMMA TypedStep == Typed /\ [Next]_vars => Typed'
<1> SUFFICES ASSUME Typed, [Next]_vars
             PROVE  Typed'
  OBVIOUS
<1>1. ASSUME NEW c \in Conns, peer_lines(c) PROVE Typed'
  BY <1>1, LinesTyped
<1>2. CASE irc_hook_invoke
  <2>1. at' \in Points /\ hook' \in Ctl \cup {Nil, "other"}
    BY <1>2 DEF irc_hook_invoke, Goto, Dispatching, Typed, Points
  <2> QED
    BY <1>2, <2>1 DEF irc_hook_invoke, Typed, Points
<1>3. CASE broadcaster
  <2>1. at' \in Points
    BY <1>3 DEF broadcaster, Dispatching, Typed, Points
  <2>2. /\ peer' \in [Conns -> PeerRec]
        /\ \A c \in Conns : Len(peer'[c].in) <= InCap /\ Len(peer'[c].out) <= OutCap
    BY <1>3, BroadcastTyped DEF broadcaster
  <2> QED
    BY <1>3, <2>1, <2>2 DEF broadcaster, Typed, Points
<1>4. CASE server_event
  BY <1>4 DEF server_event, Typed
<1>5. CASE transport_stop
  BY <1>5, EndsTyped DEF transport_stop
<1>6. ASSUME NEW c \in Conns, transport_entry(c) PROVE Typed'
  <2>1. CASE Reap(peers, peer, fd)
    BY <1>6, <2>1, ReapTyped DEF transport_entry, Typed
  <2>2. CASE Reap(peers \cup {c}, [peer EXCEPT ![c] = peer_new], [fd EXCEPT ![c] = "open"])
    <3>0. peer_new \in PeerRec /\ Len(peer_new.in) <= InCap /\ Len(peer_new.out) <= OutCap
      BY NewPeers
    <3>1. /\ peers \cup {c} \in SUBSET Conns /\ [peer EXCEPT ![c] = peer_new] \in [Conns -> PeerRec]
          /\ [fd EXCEPT ![c] = "open"] \in [Conns -> {"none", "backlog", "open", "closed", "leaked"}]
      BY NewPeers DEF Typed
    <3>2. \A d \in Conns : /\ Len([peer EXCEPT ![c] = peer_new][d].in) <= InCap
                           /\ Len([peer EXCEPT ![c] = peer_new][d].out) <= OutCap
      BY <3>0 DEF Typed
    <3> QED
      BY <1>6, <2>2, <3>1, <3>2, ReapTyped DEF transport_entry
  <2> QED
    BY <1>6, <2>1, <2>2 DEF transport_entry
<1>7. ASSUME NEW c \in Conns, peer_stream_entry(c) PROVE Typed'
  BY <1>7, EntryTyped
<1>8. ASSUME NEW c \in Ctl, dial(c) \/ CtlRuns(c) \/ ctl_interrupted(c) PROVE Typed'
  <2>1. c \in Conns
    BY DEF Conns
  <2>2. ASSUME NEW how \in Ended, Ends(c, how) PROVE Typed'
    BY <2>1, <2>2, EndsClientTyped
  <2>3. CASE dial(c)
    BY <2>1, <2>3, DialTyped
  <2>4. CASE ctl_poll(c)
    BY <2>1, <2>2, <2>4, PollOps, PolledTyped DEF Ended
  <2>5. CASE ctl_timeout(c) \/ ctl_interrupted(c)
    BY <2>2, <2>5 DEF ctl_timeout, ctl_interrupted, Ended
  <2>6. CASE ctl_request(c)
    BY <2>6, RequestTyped
  <2>7. CASE ctl_response(c)
    <3>1. HasLine(client[c].in) /\ \/ Ends(c, "refused") \/ Ends(c, "done")
                                   \/ Consumed(c, "items") \/ Consumed(c, "watch")
      BY <2>7 DEF ctl_response
    <3> QED
      BY <2>1, <2>2, <3>1, ConsumedTyped DEF Ended
  <2>8. CASE ctl_items(c) \/ ctl_event(c)
    BY <2>1, <2>2, <2>8, ConsumedTyped DEF ctl_items, ctl_event, Ended
  <2> QED
    BY <1>8, <2>3, <2>4, <2>5, <2>6, <2>7, <2>8 DEF CtlRuns
<1>9. ASSUME NEW c \in Others, \/ other_connect(c) \/ other_send(c) \/ other_read(c) \/ other_leave(c)
      PROVE  Typed'
  <2>1. c \in Conns
    BY DEF Conns
  <2>2. CASE other_connect(c)
    BY <2>1, <2>2, DialTyped
  <2>3. CASE other_send(c)
    BY <2>3, OtherSendTyped
  <2>4. CASE other_read(c)
    <3>1. down' \in [Conns -> Seq(Items)] /\ \A d \in Conns : Len(down'[d]) <= SockCap
      <4>1. down' = [down EXCEPT ![c] = <<>>] /\ <<>> \in Seq(Items) /\ Len(<<>>) = 0 /\ 0 <= SockCap
        BY <2>4, PeerAssumption DEF other_read
      <4> QED
        BY <2>1, <4>1 DEF Typed
    <3> QED
      BY <2>4, <3>1 DEF other_read, Typed, daemonVars
  <2>5. CASE other_leave(c)
    BY <2>1, <2>5, EndsClientTyped DEF other_leave, Ended
  <2> QED
    BY <1>9, <2>2, <2>3, <2>4, <2>5
<1>10. CASE UNCHANGED vars
  BY <1>10 DEF vars, Typed
<1> QED
  BY <1>1, <1>2, <1>3, <1>4, <1>5, <1>6, <1>7, <1>8, <1>9, <1>10 DEF Next, Daemon

-----------------------------------------------------------------------------
(* Descriptors.                                                            *)

LEMMA OwnedFrame ==
    ASSUME NEW c \in Conns, Owned(c), peer'[c] = peer[c], fd'[c] = fd[c],
           c \in peers => c \in peers', c \in filled => c \in filled',
           client'[c].pc = "off" => client[c].pc = "off"
    PROVE  Owned(c)'
BY DEF Owned

\* Whatever the list, the peers and the descriptors were when the zombies are freed.
LEMMA ReapOwned ==
    ASSUME NEW c \in Conns, NEW list, NEW all, NEW fds, Reap(list, all, fds),
           UNCHANGED <<client, filled>>,
           fds[c] = "open" <=> all[c].co # "dead",
           all[c].co # "dead" => c \in list,
           all[c].co = "dead" => all[c].in = <<>> /\ all[c].out = <<>>,
           all[c].co # "dead" /\ (all[c].ev = {} \/ Len(all[c].in) = InCap) => c \in filled,
           fds[c] = "leaked" => c \in filled,
           client[c].pc = "off" => fds[c] = "none"
    PROVE  Owned(c)'
<1>1. CASE c \in list /\ all[c].ev = {}
  <2>1. peer'[c] = NoPeer
    BY <1>1 DEF Reap, Zombie
  <2>2. fd'[c] = IF all[c].co # "dead" THEN "leaked" ELSE fds[c]
    BY <1>1 DEF Reap, Zombie
  <2>3. all[c].co # "dead" => client[c].pc # "off" /\ c \in filled
    BY <1>1
  <2> QED
    BY <2>1, <2>2, <2>3, NewPeers DEF Owned
<1>2. CASE ~(c \in list /\ all[c].ev = {})
  <2>1. peer'[c] = all[c] /\ fd'[c] = fds[c] /\ (c \in list => c \in peers')
    BY <1>2 DEF Reap, Zombie
  <2> QED
    BY <2>1 DEF Owned
<1> QED
  BY <1>1, <1>2

LEMMA EntryOwned ==
    ASSUME Typed, NEW c \in Conns, transport_entry(c), NEW d \in Conns, Owned(d)
    PROVE  Owned(d)'
<1>1. CASE Reap(peers, peer, fd)
  BY <1>1, ReapOwned DEF transport_entry, Owned
<1>2. CASE Reap(peers \cup {c}, [peer EXCEPT ![c] = peer_new], [fd EXCEPT ![c] = "open"])
  <2> DEFINE all == [peer EXCEPT ![c] = peer_new]
             fds == [fd EXCEPT ![c] = "open"]
             list == peers \cup {c}
  <2>1. CASE d = c
    <3>1. all[d] = peer_new /\ fds[d] = "open" /\ d \in list
      BY <2>1 DEF Typed
    <3>2. client[d].pc # "off"
      BY <2>1 DEF transport_entry, Owned
    <3>3. Len(all[d].in) # InCap /\ all[d].ev # {} /\ all[d].co # "dead"
      BY <3>1, NewPeers, PeerAssumption
    <3> HIDE DEF all, fds, list
    <3>4. Reap(list, all, fds) /\ UNCHANGED <<client, filled>>
      BY <1>2 DEF transport_entry, all, fds, list
    <3> QED
      BY <3>1, <3>2, <3>3, <3>4, ReapOwned
  <2>2. CASE d # c
    <3>1. all[d] = peer[d] /\ fds[d] = fd[d] /\ (d \in peers => d \in list)
      BY <2>2 DEF Typed
    <3> HIDE DEF all, fds, list
    <3>2. Reap(list, all, fds) /\ UNCHANGED <<client, filled>>
      BY <1>2 DEF transport_entry, all, fds, list
    <3> QED
      BY <3>1, <3>2, ReapOwned DEF Owned
  <2> QED
    BY <2>1, <2>2
<1> QED
  BY <1>1, <1>2 DEF transport_entry

LEMMA AnsweredOwned ==
    ASSUME Typed, NEW c \in Conns, Answered(c), Owned(c)
    PROVE  Owned(c)'
<1>1. PICK q \in PeerRec :
        /\ peer' = [peer EXCEPT ![c] = q]
        /\ HasLine(peer[c].in) /\ q.co = peer[c].co /\ Len(q.in) < Len(peer[c].in)
        /\ q.ev = {} => peer[c].ev = {} \/ Len(peer[c].in) = InCap
        /\ UNCHANGED <<daemon, hook, peers, fd, up, down, client, events, filled>>
  BY DEF Answered
<1>2. peer'[c] = q
  BY <1>1 DEF Typed
<1>3. peer[c].co # "dead"
  <2>1. ~HasLine(<<>>)
    BY DEF HasLine
  <2> QED
    BY <1>1, <2>1 DEF Owned
<1>4. Len(q.in) # InCap
  <2>1. q.in \in Seq(Items) /\ peer[c].in \in Seq(Items) /\ Len(peer[c].in) <= InCap
    BY DEF Typed, PeerRec
  <2>2. Len(q.in) \in Nat /\ Len(peer[c].in) \in Nat /\ InCap \in Nat
    BY <2>1, PeerAssumption
  <2> QED
    BY <1>1, <2>1, <2>2
<1> QED
  BY <1>1, <1>2, <1>3, <1>4 DEF Owned

LEMMA SkippedOwned ==
    ASSUME Typed, NEW c \in Conns, Skipped(c), Owned(c)
    PROVE  Owned(c)'
<1> DEFINE q == nce_stream_drain(peer[c])
<1>1. peer[c] \in PeerRec /\ HasLine(peer[c].in) /\ Len(peer[c].in) <= InCap
  BY DEF Typed, Skipped
<1>2. q \in PeerRec /\ q.co = peer[c].co /\ Len(q.in) < Len(peer[c].in) /\ (q.ev = {} => peer[c].ev = {})
  BY <1>1, DrainOps
<1>3. peer'[c] = q
  BY DEF Skipped, Typed
<1> HIDE DEF q
<1>4. peer[c].co # "dead"
  <2>1. ~HasLine(<<>>)
    BY DEF HasLine
  <2> QED
    BY <1>1, <2>1 DEF Owned
<1>5. Len(q.in) # InCap
  <2>1. q.in \in Seq(Items) /\ peer[c].in \in Seq(Items)
    BY <1>1, <1>2 DEF PeerRec
  <2>2. Len(q.in) \in Nat /\ Len(peer[c].in) \in Nat /\ InCap \in Nat
    BY <2>1, PeerAssumption
  <2> QED
    BY <1>1, <1>2, <2>2
<1> QED
  BY <1>2, <1>3, <1>4, <1>5 DEF Owned, Skipped

LEMMA MovedOwned ==
    ASSUME Typed, Typed', NEW c \in Conns, Moved(c), UNCHANGED <<peers, client>>, peer[c].co # "dead", Owned(c)
    PROVE  Owned(c)'
<1>1. PICK q \in PeerRec :
        /\ q.co = IF q.out = <<>> THEN "loop" ELSE peer[c].co
        /\ q.ev = Needed(q)
        /\ peer' = [peer EXCEPT ![c] = q]
        /\ filled' = IF Len(q.in) = InCap THEN filled \cup {c} ELSE filled
        /\ UNCHANGED fd
  BY DEF Moved
<1>2. peer'[c] = q
  BY <1>1 DEF Typed
<1>3. Len(q.in) <= InCap
  BY <1>2 DEF Typed
<1>4. q.ev = {} => Len(q.in) = InCap
  <2>1. q.in \in Seq(Items) /\ InCap \in Nat
    BY PeerAssumption DEF PeerRec
  <2>2. Len(q.in) \in Nat
    BY <2>1
  <2>3. q.ev = {} => ~(Len(q.in) < InCap)
    BY <1>1 DEF Needed
  <2> QED
    BY <1>3, <2>1, <2>2, <2>3
<1>5. Len(q.in) = InCap => c \in filled'
  BY <1>1
<1> QED
  BY <1>1, <1>2, <1>4, <1>5 DEF Owned

LEMMA BroadcastOwned ==
    ASSUME Typed, NEW c \in Conns, Owned(c), peer' = transport_broadcast(peer),
           UNCHANGED <<peers, fd, client, filled>>
    PROVE  Owned(c)'
<1> DEFINE q == peer_push(peer[c], <<"event">>)
<1>1. peer'[c] \in {peer[c], q}
  BY DEF transport_broadcast
<1>2. peer[c] \in PeerRec /\ Len(peer[c].in) <= InCap /\ Len(peer[c].out) <= OutCap /\ <<"event">> \in Texts
  BY DEF Typed, Texts
<1>3. /\ q.co = peer[c].co /\ q.in = peer[c].in
      /\ q.ev = {} => peer[c].ev = {} \/ Len(peer[c].in) = InCap
      /\ peer[c].co = "dead" => q.out = peer[c].out
  BY <1>2, PushText
<1> HIDE DEF q
<1>4. CASE peer'[c] = q
  BY <1>3, <1>4 DEF Owned
<1>5. CASE peer'[c] = peer[c]
  BY <1>5 DEF Owned
<1> QED
  BY <1>1, <1>4, <1>5

\* What a client does changes its own ends of the connection, and the daemon's only
\* when it connects.
Acts(c) ==
    \/ c \in Ctl /\ (dial(c) \/ CtlRuns(c) \/ ctl_interrupted(c))
    \/ c \in Others /\ (other_connect(c) \/ other_send(c) \/ other_read(c) \/ other_leave(c))

LEMMA ActsFrame ==
    ASSUME Typed, NEW c \in Conns, Acts(c)
    PROVE  /\ UNCHANGED <<daemon, at, hook, peers, peer, filled>>
           /\ \/ fd' = fd
              \/ client[c].pc = "off" /\ fd' = [fd EXCEPT ![c] = "backlog"] /\ up' = up /\ down' = down
           /\ client'[c].pc # "off"
           /\ \A d \in Conns : d # c => client'[d] = client[d] /\ up'[d] = up[d] /\ down'[d] = down[d]
           /\ \A d \in Ctl : d # c => result'[d] = result[d]
<1>1. client \in [Conns -> ClientRec] /\ up \in [Conns -> Seq(Items)]
      /\ down \in [Conns -> Seq(Items)] /\ result \in [Ctl -> {"none", "ok", "partly", "no"}]
  BY DEF Typed
<1> DEFINE Same == /\ \A d \in Conns : d # c => client'[d] = client[d] /\ up'[d] = up[d] /\ down'[d] = down[d]
                   /\ \A d \in Ctl : d # c => result'[d] = result[d]
                   /\ client'[c].pc # "off"
           Still == UNCHANGED <<daemon, at, hook, peers, peer, fd, filled>>
<1>2. ASSUME NEW how \in Ended, Ends(c, how) PROVE Same /\ Still
  BY <1>1, <1>2 DEF Ends, daemonVars, Ended
<1>3. ASSUME NEW pc \in {"items", "watch"}, Consumed(c, pc) PROVE Same /\ Still
  BY <1>1, <1>3 DEF Consumed, daemonVars
<1>4. CASE dial(c) \/ other_connect(c)
  <2>1. CASE connect(c) /\ client' = [client EXCEPT ![c].pc = "hello"]
    BY <1>1, <2>1 DEF connect, ClientRec
  <2>2. CASE connect(c) /\ client' = [client EXCEPT ![c].pc = "open"]
    BY <1>1, <2>2 DEF connect, ClientRec
  <2>3. CASE client' = [client EXCEPT ![c].pc = "died"] /\ UNCHANGED <<daemonVars, up, down, events, result, filled>>
    BY <1>1, <2>3 DEF daemonVars, ClientRec
  <2> QED
    BY <1>4, <2>1, <2>2, <2>3 DEF dial, other_connect
<1>5. CASE c \in Ctl /\ ctl_poll(c)
  <2>1. CASE Ends(c, "died")
    BY <1>2, <2>1 DEF Ended
  <2>2. ASSUME NEW n \in Nat, Polled(c, n) PROVE Same /\ Still
    BY <1>1, <1>5, <2>2 DEF Polled, daemonVars, ctl_poll, Polling, Waiting
  <2> QED
    BY <1>5, <2>1, <2>2, PollOps
<1>6. CASE c \in Ctl /\ (ctl_timeout(c) \/ ctl_interrupted(c))
  BY <1>2, <1>6 DEF ctl_timeout, ctl_interrupted, Ended
<1>7. CASE c \in Ctl /\ ctl_request(c)
  <2>1. CASE Ends(c, "died")
    BY <1>2, <2>1 DEF Ended
  <2>2. CASE ~Ends(c, "died")
    <3>1. PICK k \in CtlRequests :
            /\ up' = [up EXCEPT ![c] = @ \o <<k, "nl">>]
            /\ client' = [client EXCEPT ![c].in = AfterLine(@), ![c].pc = "reply", ![c].req = k]
            /\ UNCHANGED <<daemonVars, down, events, result, filled>>
      BY <1>7, <2>2 DEF ctl_request
    <3>2. Still
      BY <3>1 DEF daemonVars
    <3>3. client'[c].pc # "off"
      BY <1>1, <3>1 DEF ClientRec
    <3>4. \A d \in Conns : d # c => client'[d] = client[d] /\ up'[d] = up[d] /\ down'[d] = down[d]
      BY <1>1, <3>1
    <3> QED
      BY <3>1, <3>2, <3>3, <3>4
  <2> QED
    BY <2>1, <2>2
<1>8. CASE c \in Ctl /\ ctl_response(c)
  <2>1. \/ Ends(c, "refused") \/ Ends(c, "done") \/ Consumed(c, "items") \/ Consumed(c, "watch")
    BY <1>8 DEF ctl_response
  <2> QED
    BY <1>2, <1>3, <2>1 DEF Ended
<1>9. CASE c \in Ctl /\ (ctl_items(c) \/ ctl_event(c))
  BY <1>2, <1>3, <1>9 DEF ctl_items, ctl_event, Ended
<1>10. CASE other_leave(c)
  BY <1>2, <1>10 DEF other_leave, Ended
<1>11. CASE other_send(c)
  BY <1>1, <1>11 DEF other_send, daemonVars
<1>12. CASE other_read(c)
  BY <1>1, <1>12 DEF other_read, daemonVars
<1> QED
  BY <1>4, <1>5, <1>6, <1>7, <1>8, <1>9, <1>10, <1>11, <1>12 DEF Acts, CtlRuns

\* What is left alone by an action on another connection.
Link(d) == <<peer[d], fd[d], up[d], down[d], client[d]>>
Aside(d) == Link(d)' = Link(d) /\ (d \in peers => d \in peers') /\ (d \in filled => d \in filled')

LEMMA AsideOwned ==
    ASSUME NEW d \in Conns, Owned(d), Aside(d)
    PROVE  Owned(d)'
BY OwnedFrame DEF Aside, Link

LEMMA OwnedStep ==
    ASSUME Typed, Typed', \A d \in Conns : Owned(d), [Next]_vars
    PROVE  \A d \in Conns : Owned(d)'
<1> SUFFICES ASSUME NEW d \in Conns
             PROVE  Owned(d)'
  OBVIOUS
<1>0. Owned(d)
  OBVIOUS
<1>1. ASSUME NEW how, ProcessEnds(how) PROVE Owned(d)'
  <2>1. peer'[d] = NoPeer /\ fd'[d] \in {"none", "closed"} /\ UNCHANGED client
        /\ (client[d].pc = "off" => fd'[d] = "none")
    BY <1>0, <1>1 DEF ProcessEnds, Owned
  <2> QED
    BY <2>1, NewPeers DEF Owned
<1>2. ASSUME NEW c \in Conns, peer_lines(c) PROVE Owned(d)'
  <2>1. Answered(c) \/ Skipped(c) \/ Elsewhere \/ ProcessEnds("crashed")
    BY <1>2, LinesOps
  <2>2. CASE d = c
    <3>1. CASE Elsewhere
      BY <1>0, <3>1, OwnedFrame DEF Elsewhere
    <3> QED
      BY <1>0, <1>1, <2>1, <2>2, <3>1, AnsweredOwned, SkippedOwned
  <2>3. CASE d # c
    <3>1. CASE Answered(c) \/ Skipped(c) \/ Elsewhere
      <4>1. Aside(d)
        BY <2>3, <3>1 DEF Answered, Skipped, Elsewhere, Aside, Link, Typed
      <4> QED
        BY <1>0, <4>1, AsideOwned
    <3> QED
      BY <1>1, <2>1, <3>1
  <2> QED
    BY <2>2, <2>3
<1>3. CASE irc_hook_invoke
  BY <1>0, <1>3, OwnedFrame DEF irc_hook_invoke
<1>4. CASE broadcaster
  <2>1. UNCHANGED <<peers, fd, client, filled>>
    BY <1>4 DEF broadcaster
  <2>2. CASE UNCHANGED peer
    BY <1>0, <2>1, <2>2, OwnedFrame
  <2>3. CASE peer' = transport_broadcast(peer)
    BY <1>0, <2>1, <2>3, BroadcastOwned
  <2> QED
    BY <1>4, <2>2, <2>3 DEF broadcaster
<1>5. CASE server_event
  BY <1>0, <1>5, OwnedFrame DEF server_event
<1>6. CASE transport_stop
  BY <1>1, <1>6 DEF transport_stop
<1>7. ASSUME NEW c \in Conns, transport_entry(c) PROVE Owned(d)'
  BY <1>0, <1>7, EntryOwned
<1>8. ASSUME NEW c \in Conns, peer_stream_entry(c) PROVE Owned(d)'
  <2>1. /\ PeerEnds(c) \/ Moved(c)
        /\ UNCHANGED <<peers, client>> /\ peer[c].co # "dead"
    BY <1>8, TransferOps
  <2>2. CASE d = c
    <3>1. CASE PeerEnds(c)
      <4>1. peer'[d] = NoPeer /\ fd'[d] = "closed" /\ client[d].pc # "off"
        BY <1>0, <2>1, <2>2, <3>1 DEF PeerEnds, Typed, Owned
      <4> QED
        BY <2>1, <4>1, NewPeers DEF Owned
    <3>2. CASE Moved(c)
      BY <1>0, <2>1, <2>2, <3>2, MovedOwned
    <3> QED
      BY <2>1, <3>1, <3>2
  <2>3. CASE d # c
    <3>1. Aside(d)
      BY <2>1, <2>3, ZenonT(40) DEF PeerEnds, Moved, Aside, Link, Typed
    <3> QED
      BY <1>0, <3>1, AsideOwned
  <2> QED
    BY <2>2, <2>3
<1>9. ASSUME NEW c \in Conns, Acts(c) PROVE Owned(d)'
  <2>1. /\ UNCHANGED <<peers, peer, filled>>
        /\ fd' = fd \/ (client[c].pc = "off" /\ fd' = [fd EXCEPT ![c] = "backlog"])
        /\ client'[c].pc # "off"
        /\ \A x \in Conns : x # c => client'[x] = client[x]
    BY <1>9, ActsFrame
  <2>2. client'[d].pc = "off" => client[d].pc = "off" /\ d # c
    BY <2>1
  <2>3. CASE fd'[d] = fd[d]
    BY <1>0, <2>1, <2>2, <2>3, OwnedFrame
  <2>4. CASE fd'[d] # fd[d]
    <3>1. d = c /\ fd'[d] = "backlog" /\ client[d].pc = "off"
      BY <2>1, <2>4 DEF Typed
    <3>2. peer[d].co = "dead"
      BY <1>0, <3>1 DEF Owned
    <3> QED
      BY <1>0, <2>1, <2>2, <3>1, <3>2 DEF Owned
  <2> QED
    BY <2>3, <2>4
<1>10. CASE UNCHANGED vars
  BY <1>0, <1>10, OwnedFrame DEF vars
<1> QED
  BY <1>2, <1>3, <1>4, <1>5, <1>6, <1>7, <1>8, <1>9, <1>10 DEF Next, Daemon, Acts, Conns

-----------------------------------------------------------------------------
(* What begins right stays right when its end is cut, and what is complete *)
(* stays right when more comes behind it.                                  *)

LEMMA JoinOps ==
    ASSUME NEW s \in Seq(Items), NEW t \in Seq(Items)
    PROVE  /\ s \o t \in Seq(Items) /\ Len(s \o t) = Len(s) + Len(t)
           /\ Len(s) \in Nat /\ Len(t) \in Nat
           /\ Len(s) >= 1 => (s \o t)[1] = s[1]
           /\ Len(s) >= 2 => (s \o t)[2] = s[2]
           /\ s \o <<>> = s /\ <<>> \o s = s
           /\ s \o t = <<>> => s = <<>> /\ t = <<>>
<1>1. Len(s) \in Nat /\ Len(t) \in Nat
  OBVIOUS
<1>2. s \o t \in Seq(Items) /\ Len(s \o t) = Len(s) + Len(t)
  OBVIOUS
<1>3. \A i \in 1..Len(s) : (s \o t)[i] = s[i]
  OBVIOUS
<1>4. (Len(s) >= 1 => 1 \in 1..Len(s)) /\ (Len(s) >= 2 => 2 \in 1..Len(s))
  BY <1>1
<1>5. s \o <<>> = s /\ <<>> \o s = s
  BY ConcatEmptySeq
<1>6. s \o t = <<>> => s = <<>> /\ t = <<>>
  BY ConcatEqualIffEmpty
<1> QED
  BY <1>1, <1>2, <1>3, <1>4, <1>5, <1>6

LEMMA Began ==
    ASSUME NEW s \in Seq(Items), NEW t \in Seq(Items), NEW req, NEW how
    PROVE  /\ Greeting(s \o t) => Greeting(s)
           /\ Told(s \o t, req, how) => Told(s, req, how)
           /\ Told(s, req, how) /\ Len(s) >= 2 => Told(s \o t, req, how) /\ Len(s \o t) >= 2
<1>1. /\ Len(s \o t) = Len(s) + Len(t) /\ Len(s) \in Nat /\ Len(t) \in Nat
      /\ Len(s) >= 1 => (s \o t)[1] = s[1]
      /\ Len(s) >= 2 => (s \o t)[2] = s[2]
  BY JoinOps
<1>2. /\ Len(s) >= 1 => Len(s \o t) >= 1
      /\ Len(s) >= 2 => Len(s \o t) >= 2 /\ Len(s) >= 1
      /\ Len(s \o t) <= 2 => Len(s) <= 2
  BY <1>1
<1>3. Greeting(s \o t) => Greeting(s)
  BY <1>1, <1>2 DEF Greeting
<1>4. Told(s \o t, req, how) => Told(s, req, how)
  BY <1>1, <1>2 DEF Told
<1>5. Told(s, req, how) /\ Len(s) >= 2 => Told(s \o t, req, how) /\ Len(s \o t) >= 2
  BY <1>1, <1>2 DEF Told
<1> QED
  BY <1>3, <1>4, <1>5

\* A transfer changes neither what is read nor what is asked.
LEMMA Rejoined ==
    ASSUME NEW s \in Seq(Items), NEW t \in Seq(Items), NEW n \in Nat, n <= Len(t)
    PROVE  (s \o SubSeq(t, 1, n)) \o SubSeq(t, n + 1, Len(t)) = s \o t
<1> DEFINE a == SubSeq(t, 1, n)
           b == SubSeq(t, n + 1, Len(t))
<1>1. a \in Seq(Items) /\ b \in Seq(Items)
  BY Prefix, Suffix
<1>2. a \o b = t
  <2>1. Len(t) \in Nat
    OBVIOUS
  <2>2. 1 \in 1..Len(t) + 1 /\ n \in 1 - 1..Len(t) /\ Len(t) \in n..Len(t)
    BY <2>1
  <2>3. SubSeq(t, 1, n) \o SubSeq(t, n + 1, Len(t)) = SubSeq(t, 1, Len(t))
    BY <2>2, ConcatAdjacentSubSeq
  <2>4. SubSeq(t, 1, Len(t)) = t
    BY SubSeqFull
  <2> QED
    BY <2>3, <2>4
<1> HIDE DEF a, b
<1>3. (s \o a) \o b = s \o (a \o b)
  BY <1>1, ConcatAssociative
<1>4. (s \o a) \o b = s \o t
  BY <1>2, <1>3
<1> QED
  BY <1>4 DEF a, b

\* Lines put together one after the other: the grouping does not matter.
LEMMA Associative == \A s, t, u \in Seq(Items) : (s \o t) \o u = s \o (t \o u)
  BY ConcatAssociative

\* A request that is complete is all there is.
LEMMA OneRequest ==
    ASSUME NEW s \in Seq(Items), NEW u \in Seq(Items), NEW req \in CtlRequests,
           Asks(s \o u, req), HasLine(s)
    PROVE  s[1] = req /\ u = <<>> /\ AfterLine(s) = <<>> /\ Line(s) # <<>>
<1>1. /\ Len(s \o u) = Len(s) + Len(u) /\ Len(s) \in Nat /\ Len(u) \in Nat
      /\ Len(s) >= 1 => (s \o u)[1] = s[1]
  BY JoinOps
<1>2. /\ LineLen(s) \in Nat /\ LineLen(s) < Len(s) /\ s[LineLen(s) + 1] = "nl"
      /\ Line(s) \in Seq(Items) /\ Len(Line(s)) = LineLen(s)
      /\ AfterLine(s) \in Seq(Items) /\ Len(AfterLine(s)) = Len(s) - LineLen(s) - 1
  BY LineOps
<1>3. req # "nl"
  BY DEF CtlRequests
<1>4. Len(s) >= 1 /\ s[1] = req
  BY <1>1, <1>2 DEF Asks
<1>5. LineLen(s) # 0
  <2>1. 0 + 1 = 1
    OBVIOUS
  <2> QED
    BY <1>2, <1>3, <1>4, <2>1
<1>6. Len(s) = 2 /\ Len(u) = 0 /\ LineLen(s) = 1
  <2>1. Len(s) + Len(u) = 2
    BY <1>1 DEF Asks
  <2> DEFINE a == Len(s)
             b == Len(u)
             l == LineLen(s)
  <2>2. a \in Nat /\ b \in Nat /\ l \in Nat /\ l < a /\ l # 0 /\ a + b = 2
    BY <1>1, <1>2, <1>5, <2>1
  <2> HIDE DEF a, b, l
  <2>3. a = 2 /\ b = 0 /\ l = 1
    BY <2>2
  <2> QED
    BY <2>3 DEF a, b, l
<1>7. Len(AfterLine(s)) = 0
  BY <1>2, <1>6
<1>8. \A x \in Seq(Items) : Len(x) = 0 <=> x = <<>>
  BY EmptySeq
<1>9. u = <<>>
  BY <1>6, <1>8
<1>10. AfterLine(s) = <<>>
  BY <1>2, <1>7, <1>8
<1>11. Line(s) # <<>>
  <2>1. Len(Line(s)) = 1
    BY <1>2, <1>6
  <2>2. Line(s) \in Seq(Items) /\ 1 # 0
    BY <1>2
  <2> QED
    BY <1>8, <2>1, <2>2, Zenon
<1> QED
  BY <1>4, <1>9, <1>10, <1>11

\* A first line that ends at its second item is one word.
LEMMA OneWord ==
    ASSUME NEW s \in Seq(Items), HasLine(s), s[1] # "nl", Len(s) >= 2 => s[2] = "nl"
    PROVE  Len(s) >= 2 /\ LineLen(s) = 1 /\ Line(s) = <<s[1]>>
<1>1. /\ LineLen(s) \in Nat /\ LineLen(s) < Len(s) /\ s[LineLen(s) + 1] = "nl"
      /\ \A i \in 1..LineLen(s) : s[i] # "nl"
      /\ Line(s) \in Seq(Items) /\ Len(Line(s)) = LineLen(s)
      /\ \A i \in 1..LineLen(s) : Line(s)[i] = s[i]
  BY LineOps
<1>2. Len(s) \in Nat
  OBVIOUS
<1> DEFINE l == LineLen(s)
           n == Len(s)
<1>3. l \in Nat /\ n \in Nat /\ l < n /\ s[l + 1] = "nl" /\ \A i \in 1..l : s[i] # "nl"
  BY <1>1, <1>2
<1> HIDE DEF l, n
<1>4. l # 0
  <2>1. 0 + 1 = 1
    OBVIOUS
  <2> QED
    BY <1>3, <2>1
<1>5. n >= 2
  BY <1>3, <1>4
<1>6. ~(l >= 2)
  <2>1. l >= 2 => 2 \in 1..l
    BY <1>3
  <2> QED
    BY <1>3, <1>5, <2>1 DEF n
<1>7. l = 1
  BY <1>3, <1>4, <1>6
<1>8. Line(s)[1] = s[1] /\ Len(Line(s)) = 1
  <2>1. 1 \in 1..1
    OBVIOUS
  <2> QED
    BY <1>1, <1>7, <2>1 DEF l
<1>9. Line(s) = <<s[1]>>
  <2>1. \A x \in Seq(Items) : Len(x) = 1 => x = <<x[1]>>
    OBVIOUS
  <2> QED
    BY <1>1, <1>8, <2>1
<1> QED
  BY <1>5, <1>7, <1>9 DEF l, n

-----------------------------------------------------------------------------
(* The dialogue of irccdctl.                                               *)

LEMMA EndTypes ==
    ASSUME Typed, NEW d \in Ctl
    PROVE  /\ d \in Conns /\ client[d] \in ClientRec /\ peer[d] \in PeerRec
           /\ client[d].in \in Seq(Items) /\ down[d] \in Seq(Items) /\ up[d] \in Seq(Items)
           /\ peer[d].in \in Seq(Items) /\ peer[d].out \in Seq(Items)
           /\ client[d].in \o down[d] \in Seq(Items)
BY JoinOps DEF Typed, Conns, ClientRec, PeerRec

LEMMA AsideTalks ==
    ASSUME NEW d \in Ctl, Talks(d), Link(d)' = Link(d), result'[d] = result[d]
    PROVE  Talks(d)'
BY DEF Talks, Off, Greeted, Replied, Listing, Link, Stream, Asking

\* The daemon's side of the connection is gone.
LEMMA CutTalks ==
    ASSUME Typed, NEW d \in Ctl, Owned(d), Talks(d), peer'[d] = NoPeer,
           fd'[d] = "backlog" => fd[d] = "backlog",
           up'[d] = up[d], down'[d] = down[d], client'[d] = client[d], result'[d] = result[d]
    PROVE  Talks(d)'
<1> DEFINE a == client[d].in \o down[d]
<1>1. /\ a \in Seq(Items) /\ peer[d].out \in Seq(Items) /\ peer[d].in \in Seq(Items)
      /\ up[d] \in Seq(Items)
  BY EndTypes
<1>2. Stream(d) = a \o peer[d].out /\ Stream(d)' = a
  <2>1. Stream(d)' = a \o <<>>
    BY NewPeers DEF Stream
  <2>2. a \o <<>> = a
    BY <1>1, JoinOps
  <2> QED
    BY <2>1, <2>2 DEF Stream
<1>3. Asking(d)' = up[d] /\ (Asking(d) = <<>> => up[d] = <<>>)
  <2>1. Asking(d)' = <<>> \o up[d]
    BY NewPeers DEF Asking
  <2>2. <<>> \o up[d] = up[d]
    BY <1>1, JoinOps
  <2>3. Asking(d) = <<>> => up[d] = <<>>
    BY <1>1, JoinOps DEF Asking
  <2> QED
    BY <2>1, <2>2, <2>3
<1> HIDE DEF a
<1>4. peer'[d].co = "dead" /\ ~peer'[d].watch
  BY NewPeers
<1>5. CASE client[d].pc = "off"
  BY <1>3, <1>4, <1>5 DEF Talks, Off
<1>6. CASE client[d].pc = "hello"
  <2>1. Greeting(Stream(d)')
    BY <1>1, <1>2, <1>6, Began DEF Talks, Greeted
  <2>2. fd'[d] = "backlog" => Stream(d)' = <<>>
    <3>1. fd[d] = "backlog" => a \o peer[d].out = <<>>
      BY <1>2, <1>6 DEF Talks, Greeted
    <3> QED
      BY <1>1, <1>2, <3>1, JoinOps
  <2>3. Asking(d)' = <<>>
    BY <1>3, <1>6 DEF Talks, Greeted
  <2> QED
    BY <1>4, <1>6, <2>1, <2>2, <2>3 DEF Talks, Greeted
<1>7. CASE client[d].pc = "reply"
  <2>1. Told(Stream(d)', client[d].req, result[d])
    BY <1>1, <1>2, <1>7, Began DEF Talks, Replied
  <2> QED
    BY <1>4, <1>7, <2>1 DEF Talks, Replied
<1>8. CASE client[d].pc = "items"
  BY <1>4, <1>8 DEF Talks, Listing
<1> QED
  BY <1>5, <1>6, <1>7, <1>8 DEF Talks

\* Nothing changes for d but that the zombies are freed, it among them or not.
LEMMA ReapTalks ==
    ASSUME Typed, NEW d \in Ctl, Owned(d), Talks(d), NEW list, NEW all, NEW fds,
           Reap(list, all, fds), all[d] = peer[d], fds[d] = fd[d],
           UNCHANGED <<up, down, client, result>>
    PROVE  Talks(d)'
<1>1. d \in Conns
  BY DEF Conns
<1>2. CASE d \in list /\ all[d].ev = {}
  <2>1. peer'[d] = NoPeer /\ fd'[d] \in {"leaked", fd[d]}
    BY <1>1, <1>2 DEF Reap, Zombie
  <2> QED
    BY <2>1, CutTalks
<1>3. CASE ~(d \in list /\ all[d].ev = {})
  <2>1. peer'[d] = peer[d] /\ fd'[d] = fd[d]
    BY <1>1, <1>3 DEF Reap, Zombie
  <2> QED
    BY <2>1, AsideTalks DEF Link
<1> QED
  BY <1>2, <1>3

LEMMA EntryTalks ==
    ASSUME Typed, NEW c \in Conns, transport_entry(c), NEW d \in Ctl, Owned(d), Talks(d)
    PROVE  Talks(d)'
<1>0. d \in Conns
  BY DEF Conns
<1>1. UNCHANGED <<up, down, client, result>> /\ fd[c] = "backlog"
  BY DEF transport_entry
<1>2. CASE Reap(peers, peer, fd)
  BY <1>1, <1>2, ReapTalks
<1>3. CASE Reap(peers \cup {c}, [peer EXCEPT ![c] = peer_new], [fd EXCEPT ![c] = "open"])
  <2> DEFINE all == [peer EXCEPT ![c] = peer_new]
             fds == [fd EXCEPT ![c] = "open"]
             list == peers \cup {c}
  <2>1. CASE d # c
    <3>1. all[d] = peer[d] /\ fds[d] = fd[d]
      BY <1>0, <2>1 DEF Typed
    <3> HIDE DEF all, fds, list
    <3>2. Reap(list, all, fds)
      BY <1>3 DEF all, fds, list
    <3> QED
      BY <1>1, <3>1, <3>2, ReapTalks
  <2>2. CASE d = c
    <3>1. peer'[d] = peer_new /\ fd'[d] = "open"
      BY <1>0, <1>3, <2>2, NewPeers DEF Reap, Zombie, Typed
    <3>2. client[d].pc \notin {"off", "reply", "items"}
      BY <1>1, <2>2 DEF Owned, Talks, Replied, Listing
    <3>3. CASE client[d].pc = "hello"
      <4> DEFINE a == client[d].in \o down[d]
                 h == <<"hello", "nl">>
      <4>1. a \o peer[d].out = <<>> /\ Asking(d) = <<>>
        BY <1>1, <2>2, <3>3 DEF Talks, Greeted, Stream
      <4>2. a \in Seq(Items) /\ h \in Seq(Items) /\ peer[d].out \in Seq(Items)
            /\ peer[d].in \in Seq(Items) /\ up[d] \in Seq(Items)
        BY EndTypes DEF Items
      <4>3. Stream(d)' = a \o h
        BY <1>1, <3>1, NewPeers DEF Stream
      <4>4. Asking(d)' = <<>> \o up[d]
        BY <1>1, <3>1, NewPeers DEF Asking
      <4> HIDE DEF a, h
      <4>5. a = <<>> /\ <<>> \o h = h /\ up[d] = <<>> /\ <<>> \o up[d] = up[d]
        BY <4>1, <4>2, JoinOps DEF Asking
      <4>6. Stream(d)' = h /\ Asking(d)' = <<>>
        BY <4>3, <4>4, <4>5
      <4>7. Greeting(h) /\ Len(h) = 2
        BY DEF Greeting, h
      <4> QED
        BY <1>1, <3>1, <3>3, <4>6, <4>7, NewPeers DEF Talks, Greeted
    <3> QED
      BY <1>1, <3>2, <3>3 DEF Talks
  <2> QED
    BY <2>1, <2>2
<1> QED
  BY <1>2, <1>3 DEF transport_entry

\* A line of irccdctl is there only when its request is the whole of it.
LEMMA LineIsRequest ==
    ASSUME Typed, NEW d \in Ctl, Owned(d), Talks(d), HasLine(peer[d].in)
    PROVE  /\ peer[d].co # "dead" /\ client[d].pc \notin {"off", "hello", "items"}
           /\ client[d].pc = "reply" =>
                 /\ client[d].req \in CtlRequests /\ fd[d] # "backlog"
                 /\ peer[d].in[1] = client[d].req /\ up[d] = <<>> /\ Stream(d) = <<>>
                 /\ AfterLine(peer[d].in) = <<>> /\ Received(d) # <<>>
<1>1. ~HasLine(<<>>)
  BY DEF HasLine
<1>2. peer[d].in \in Seq(Items) /\ up[d] \in Seq(Items)
  BY EndTypes
<1>3. peer[d].co # "dead" /\ Asking(d) # <<>>
  BY <1>1, <1>2, JoinOps DEF Owned, Asking
<1>4. client[d].pc \notin {"off", "hello", "items"}
  BY <1>3 DEF Talks, Off, Greeted, Listing
<1>5. CASE client[d].pc = "reply"
  <2>1. /\ client[d].req \in CtlRequests /\ fd[d] # "backlog"
        /\ Asks(Asking(d), client[d].req) /\ Stream(d) = <<>>
    BY <1>3, <1>5 DEF Talks, Replied
  <2>2. Asks(peer[d].in \o up[d], client[d].req)
    BY <2>1 DEF Asking
  <2> QED
    BY <1>2, <1>3, <1>4, <2>1, <2>2, OneRequest DEF Received
<1> QED
  BY <1>3, <1>4, <1>5

LEMMA AnsweredTalks ==
    ASSUME Typed, NEW d \in Ctl, Owned(d), Talks(d), Answered(d)
    PROVE  Talks(d)'
<1>0. d \in Conns /\ peer[d].out \in Seq(Items) /\ client[d].in \o down[d] \in Seq(Items)
  BY EndTypes
<1>1. PICK q \in PeerRec, how \in {"ok", "partly", "no"} :
        /\ HasLine(peer[d].in)
        /\ peer' = [peer EXCEPT ![d] = q]
        /\ q.co = peer[d].co
        /\ q.in = AfterLine(peer[d].in)
        /\ peer[d].co # "dead" /\ peer[d].out = <<>> =>
              Len(q.out) >= 2 /\ Told(q.out, peer[d].in[1], how)
        /\ result' = IF d \in Ctl /\ ~Gone(d) THEN [result EXCEPT ![d] = how] ELSE result
        /\ UNCHANGED <<daemon, hook, peers, fd, up, down, client, events, filled>>
  BY DEF Answered
<1>2. client[d].pc \notin {"off", "hello", "items"} /\ peer[d].co # "dead"
  BY <1>1, LineIsRequest
<1>3. CASE client[d].pc = "reply"
  <2>1. /\ client[d].req \in CtlRequests /\ fd[d] # "backlog"
        /\ peer[d].in[1] = client[d].req /\ up[d] = <<>> /\ Stream(d) = <<>>
        /\ AfterLine(peer[d].in) = <<>>
    BY <1>1, <1>3, LineIsRequest
  <2>2. client[d].in \o down[d] = <<>> /\ peer[d].out = <<>>
    BY <1>0, <2>1, JoinOps DEF Stream
  <2>3. peer'[d] = q /\ result'[d] = how
    BY <1>0, <1>1, <1>3 DEF Typed, Gone, Ended
  <2>4. q.out \in Seq(Items)
    BY DEF PeerRec
  <2>5. Stream(d)' = q.out
    <3>1. Stream(d)' = <<>> \o q.out
      BY <1>1, <2>2, <2>3 DEF Stream
    <3> QED
      BY <2>4, <3>1, JoinOps
  <2>6. Asking(d)' = <<>>
    <3>1. Asking(d)' = <<>> \o <<>>
      BY <1>1, <2>1, <2>3 DEF Asking
    <3>2. <<>> \in Seq(Items)
      OBVIOUS
    <3> QED
      BY <3>1, <3>2, JoinOps
  <2>7. Len(q.out) >= 2 /\ Told(q.out, client[d].req, how)
    BY <1>1, <1>2, <2>1, <2>2
  <2> QED
    BY <1>1, <1>3, <2>1, <2>3, <2>5, <2>6, <2>7 DEF Talks, Replied
<1> QED
  BY <1>1, <1>2, <1>3 DEF Talks

LEMMA NotSkipped ==
    ASSUME Typed, NEW d \in Ctl, Owned(d), Talks(d), Skipped(d)
    PROVE  client[d].pc \notin {"off", "hello", "items", "reply"}
BY LineIsRequest DEF Skipped

LEMMA BroadcastTalks ==
    ASSUME Typed, NEW d \in Ctl, Owned(d), Talks(d), peer' = transport_broadcast(peer),
           UNCHANGED <<fd, up, down, client, result>>
    PROVE  Talks(d)'
<1> DEFINE q == peer_push(peer[d], <<"event">>)
           a == client[d].in \o down[d]
<1>0. /\ d \in Conns /\ peer[d] \in PeerRec /\ peer[d].out \in Seq(Items) /\ a \in Seq(Items)
      /\ Len(peer[d].in) <= InCap /\ Len(peer[d].out) <= OutCap /\ <<"event">> \in Texts
  BY EndTypes DEF Typed, Texts
<1>1. /\ q.co = peer[d].co /\ q.in = peer[d].in /\ q.watch = peer[d].watch
      /\ \E t \in Seq(Items) : q.out = peer[d].out \o t
      /\ peer[d].co = "dead" => q.out = peer[d].out
  BY <1>0, PushText
<1>2. peer'[d] = peer[d] \/ (peer[d].watch /\ peer'[d] = q)
  BY <1>0 DEF transport_broadcast
<1> HIDE DEF q, a
<1>3. CASE peer'[d] = peer[d]
  BY <1>3, AsideTalks DEF Link
<1>4. CASE peer[d].watch /\ peer'[d] = q
  <2>1. client[d].pc \notin {"off", "hello"}
    BY <1>4 DEF Talks, Off, Greeted
  <2>2. Asking(d)' = Asking(d) /\ peer'[d].co = peer[d].co
    BY <1>1, <1>4 DEF Asking
  <2>3. CASE client[d].pc = "reply"
    <3>1. PICK t \in Seq(Items) : q.out = peer[d].out \o t
      BY <1>1
    <3>2. /\ Told(Stream(d), client[d].req, result[d])
          /\ client[d].req \in CtlRequests /\ fd[d] # "backlog"
          /\ peer[d].co # "dead" => Asking(d) = <<>> /\ Len(Stream(d)) >= 2
      BY <1>4, <2>3 DEF Talks, Replied
    <3>3. Stream(d) \in Seq(Items) /\ Stream(d)' = Stream(d) \o t
      <4>1. Stream(d) = a \o peer[d].out /\ Stream(d)' = a \o (peer[d].out \o t)
        BY <1>4, <3>1 DEF Stream, a
      <4>2. (a \o peer[d].out) \o t = a \o (peer[d].out \o t)
        <5> DEFINE o == peer[d].out
        <5>1. o \in Seq(Items) /\ a \in Seq(Items)
          BY <1>0
        <5> HIDE DEF o
        <5>2. (a \o o) \o t = a \o (o \o t)
          BY <5>1, ConcatAssociative
        <5> QED
          BY <5>2 DEF o
      <4>3. a \o peer[d].out \in Seq(Items)
        BY <1>0, JoinOps
      <4> QED
        BY <4>1, <4>2, <4>3
    <3>4. CASE peer[d].co # "dead"
      <4>1. Told(Stream(d)', client[d].req, result[d]) /\ Len(Stream(d)') >= 2
        BY <3>2, <3>3, <3>4, Began
      <4> QED
        BY <2>2, <2>3, <3>2, <3>4, <4>1 DEF Talks, Replied
    <3>5. CASE peer[d].co = "dead"
      <4>1. Stream(d)' = Stream(d)
        BY <1>1, <1>4, <3>5 DEF Stream
      <4> QED
        BY <2>2, <2>3, <3>2, <3>5, <4>1 DEF Talks, Replied
    <3> QED
      BY <3>4, <3>5
  <2>4. CASE client[d].pc = "items"
    BY <2>2, <2>4 DEF Talks, Listing
  <2> QED
    BY <2>1, <2>3, <2>4 DEF Talks
<1> QED
  BY <1>2, <1>3, <1>4

LEMMA MovedTalks ==
    ASSUME Typed, NEW d \in Ctl, Owned(d), Talks(d), Moved(d), peer[d].co # "dead", UNCHANGED <<client, result>>
    PROVE  Talks(d)'
<1>0. /\ d \in Conns /\ peer[d].out \in Seq(Items) /\ peer[d].in \in Seq(Items)
      /\ up[d] \in Seq(Items) /\ down[d] \in Seq(Items) /\ client[d].in \in Seq(Items)
  BY EndTypes
<1>1. PICK q \in PeerRec, n \in Nat, m \in Nat :
        /\ n <= Len(up[d]) /\ m <= Len(peer[d].out)
        /\ q.in = peer[d].in \o SubSeq(up[d], 1, n)
        /\ q.out = SubSeq(peer[d].out, m + 1, Len(peer[d].out))
        /\ q.co = IF q.out = <<>> THEN "loop" ELSE peer[d].co
        /\ q.watch = peer[d].watch
        /\ peer' = [peer EXCEPT ![d] = q]
        /\ up' = [up EXCEPT ![d] = SubSeq(up[d], n + 1, Len(up[d]))]
        /\ down' = [down EXCEPT ![d] = @ \o SubSeq(peer[d].out, 1, m)]
        /\ UNCHANGED fd
  BY DEF Moved
<1> DEFINE i == client[d].in
           w == down[d]
           o == peer[d].out
           a == SubSeq(o, 1, m)
           b == SubSeq(o, m + 1, Len(o))
<1>2. peer'[d] = q /\ up'[d] = SubSeq(up[d], n + 1, Len(up[d])) /\ down'[d] = w \o a
  BY <1>0, <1>1 DEF Typed
<1>3. Asking(d)' = Asking(d)
  <2>1. Asking(d)' = (peer[d].in \o SubSeq(up[d], 1, n)) \o SubSeq(up[d], n + 1, Len(up[d]))
    BY <1>1, <1>2 DEF Asking
  <2> QED
    BY <1>0, <1>1, <2>1, Rejoined, ZenonT(40) DEF Asking
<1>4. Stream(d) = (i \o w) \o o /\ Stream(d)' = (i \o (w \o a)) \o b
  BY <1>1, <1>2 DEF Stream
<1>5. a \in Seq(Items) /\ o \in Seq(Items) /\ m <= Len(o)
  BY <1>0, <1>1, Prefix
<1>6. Stream(d)' = Stream(d)
  <2> HIDE DEF a, i, w, o
  <2>1. i \in Seq(Items) /\ w \in Seq(Items) /\ i \o w \in Seq(Items)
    BY <1>0, JoinOps DEF i, w
  <2>2. i \o (w \o a) = (i \o w) \o a
    BY <1>5, <2>1, Associative, SMTT(30)
  <2>3. ((i \o w) \o SubSeq(o, 1, m)) \o SubSeq(o, m + 1, Len(o)) = (i \o w) \o o
    BY <1>5, <2>1, Rejoined
  <2>4. ((i \o w) \o a) \o b = (i \o w) \o o
    BY <2>3 DEF a
  <2> QED
    BY <1>4, <2>2, <2>4
<1>7. peer'[d].co # "dead" /\ peer'[d].watch = peer[d].watch
  BY <1>1, <1>2
<1>8. CASE client[d].pc = "hello"
  <2>1. peer'[d].co = "loop" => peer'[d].out = <<>>
    <3>1. CASE q.out = <<>>
      BY <1>2, <3>1
    <3>2. CASE q.out # <<>>
      <4>1. q.co = peer[d].co
        BY <1>1, <3>2
      <4>2. peer[d].co = "loop" => o = <<>>
        BY <1>8 DEF Talks, Greeted
      <4>3. o = <<>> => b = <<>>
        BY <1>1
      <4> QED
        BY <1>1, <1>2, <4>1, <4>2, <4>3
    <3> QED
      BY <3>1, <3>2
  <2> QED
    BY <1>1, <1>3, <1>6, <1>7, <1>8, <2>1 DEF Talks, Greeted
<1>9. CASE client[d].pc = "off"
  BY <1>0, <1>9 DEF Owned
<1>10. CASE client[d].pc \in {"reply", "items"}
  BY <1>1, <1>3, <1>6, <1>7, <1>10 DEF Talks, Replied, Listing
<1> QED
  BY <1>8, <1>9, <1>10 DEF Talks

\* What irccdctl reads of an answer, once there is a line.
LEMMA AnswerRead ==
    ASSUME Typed, NEW d \in Ctl, Talks(d), client[d].pc = "reply", HasLine(client[d].in)
    PROVE  /\ Line(client[d].in) = <<client[d].in[1]>> /\ Stream(d) # <<>>
           /\ \/ client[d].in[1] = "OK" /\ (client[d].req \notin Unheeded => result[d] = "ok")
              \/ client[d].in[1] = "error" /\ (client[d].req # "edit" => result[d] = "no")
<1> DEFINE i == client[d].in
<1>1. /\ i \in Seq(Items) /\ down[d] \in Seq(Items) /\ peer[d].out \in Seq(Items)
      /\ i \o down[d] \in Seq(Items)
  BY EndTypes
<1>2. Told(Stream(d), client[d].req, result[d])
  BY DEF Talks, Replied
<1>3. Told(i, client[d].req, result[d])
  <2>1. Told((i \o down[d]) \o peer[d].out, client[d].req, result[d])
    BY <1>2 DEF Stream
  <2> HIDE DEF i
  <2>2. Told(i \o down[d], client[d].req, result[d])
    BY <1>1, <2>1, Began
  <2> QED
    BY <1>1, <2>2, Began
<1> HIDE DEF i
<1>4. Len(i) \in Nat /\ LineLen(i) \in Nat /\ LineLen(i) < Len(i)
  BY <1>1, LineOps DEF i
<1>5. Len(i) >= 1
  BY <1>4
<1>6. i[1] # "nl" /\ (Len(i) >= 2 => i[2] = "nl")
  BY <1>3, <1>5 DEF Told
<1>7. Line(i) = <<i[1]>>
  BY <1>1, <1>6, OneWord DEF i
<1>8. Stream(d) # <<>>
  <2>1. i # <<>>
    BY <1>5
  <2>2. Stream(d) = (i \o down[d]) \o peer[d].out
    BY DEF Stream, i
  <2>3. (i \o down[d]) \o peer[d].out = <<>> => i \o down[d] = <<>>
    BY <1>1, JoinOps
  <2>4. i \o down[d] = <<>> => i = <<>>
    BY <1>1, JoinOps
  <2> QED
    BY <2>1, <2>2, <2>3, <2>4
<1> QED
  BY <1>3, <1>5, <1>7, <1>8 DEF Told, i

\* What irccdctl reads first is the hello, all of it.
LEMMA HelloRead ==
    ASSUME Typed, NEW d \in Ctl, Talks(d), client[d].pc = "hello", HasLine(client[d].in)
    PROVE  /\ AfterLine(client[d].in) = <<>> /\ down[d] = <<>> /\ peer[d].out = <<>>
           /\ Stream(d) # <<>>
<1> DEFINE i == client[d].in
           t == down[d] \o peer[d].out
<1>1. /\ i \in Seq(Items) /\ down[d] \in Seq(Items) /\ peer[d].out \in Seq(Items)
      /\ t \in Seq(Items)
  BY EndTypes, JoinOps
<1>2. Stream(d) = i \o t
  <2> DEFINE w == down[d]
             o == peer[d].out
  <2>1. i \in Seq(Items) /\ w \in Seq(Items) /\ o \in Seq(Items)
    BY <1>1
  <2>2. Stream(d) = (i \o w) \o o /\ t = w \o o
    BY DEF Stream
  <2> HIDE DEF i, w, o, t
  <2> QED
    BY <2>1, <2>2, ConcatAssociative, SMTT(30)
<1>3. Greeting(i \o t)
  BY <1>2 DEF Talks, Greeted
<1> HIDE DEF i, t
<1>4. Greeting(i)
  BY <1>1, <1>3, Began
<1>5. Len(i) \in Nat /\ LineLen(i) \in Nat /\ LineLen(i) < Len(i)
  BY <1>1, LineOps DEF i
<1>6. i[1] # "nl" /\ (Len(i) >= 2 => i[2] = "nl")
  <2>1. Len(i) >= 1
    BY <1>5
  <2> QED
    BY <1>4, <2>1 DEF Greeting
<1>7. Len(i) >= 2 /\ LineLen(i) = 1
  BY <1>1, <1>6, OneWord DEF i
<1>8. Len(i \o t) = Len(i) + Len(t) /\ Len(t) \in Nat
  BY <1>1, JoinOps
<1>9. Len(i) = 2 /\ Len(t) = 0
  <2>1. Len(i) + Len(t) <= 2
    BY <1>3, <1>8 DEF Greeting
  <2>2. \A m, n \in Nat : m >= 2 /\ m + n <= 2 => m = 2 /\ n = 0
    OBVIOUS
  <2> QED
    BY <1>5, <1>7, <1>8, <2>1, <2>2
<1>10. AfterLine(i) \in Seq(Items) /\ Len(AfterLine(i)) = 0
  <2>1. AfterLine(i) \in Seq(Items) /\ Len(AfterLine(i)) = Len(i) - LineLen(i) - 1
    BY <1>1, LineOps DEF i
  <2> QED
    BY <1>7, <1>9, <2>1
<1>11. \A x \in Seq(Items) : Len(x) = 0 <=> x = <<>>
  BY EmptySeq
<1>12. AfterLine(i) = <<>> /\ t = <<>>
  BY <1>1, <1>9, <1>10, <1>11
<1>13. down[d] = <<>> /\ peer[d].out = <<>>
  BY <1>1, <1>12, JoinOps DEF t
<1>14. Stream(d) # <<>>
  <2>1. i # <<>>
    BY <1>9
  <2> QED
    BY <1>1, <1>2, <2>1, JoinOps
<1> QED
  BY <1>12, <1>13, <1>14 DEF i

LEMMA RequestTalks ==
    ASSUME Typed, NEW d \in Ctl, Talks(d), ctl_request(d), ~Ends(d, "died")
    PROVE  Talks(d)'
<1>0. /\ d \in Conns /\ client[d] \in ClientRec /\ up[d] \in Seq(Items) /\ peer[d].in \in Seq(Items)
  BY EndTypes
<1>1. HasLine(client[d].in) /\ client[d].pc = "hello"
  BY DEF ctl_request
<1>2. PICK k \in CtlRequests :
        /\ up' = [up EXCEPT ![d] = @ \o <<k, "nl">>]
        /\ client' = [client EXCEPT ![d].in = AfterLine(@), ![d].pc = "reply", ![d].req = k]
        /\ UNCHANGED <<daemonVars, down, events, result, filled>>
  BY DEF ctl_request
<1>3. /\ AfterLine(client[d].in) = <<>> /\ down[d] = <<>> /\ peer[d].out = <<>>
      /\ Stream(d) # <<>>
  BY <1>1, HelloRead
<1>4. fd[d] # "backlog" /\ ~peer[d].watch /\ Asking(d) = <<>>
  BY <1>1, <1>3 DEF Talks, Greeted
<1>5. peer[d].in = <<>> /\ up[d] = <<>>
  BY <1>0, <1>4, JoinOps DEF Asking
<1>6. client'[d].in = <<>> /\ client'[d].pc = "reply" /\ client'[d].req = k
  BY <1>0, <1>2, <1>3 DEF Typed, ClientRec
<1>7. peer'[d] = peer[d] /\ down'[d] = down[d] /\ fd'[d] = fd[d] /\ up'[d] = <<>> \o <<k, "nl">>
  BY <1>0, <1>2, <1>5 DEF daemonVars, Typed
<1>8. <<k, "nl">> \in Seq(Items) /\ <<>> \in Seq(Items)
  BY DEF Items
<1>9. Asking(d)' = <<k, "nl">>
  <2>1. Asking(d)' = <<>> \o (<<>> \o <<k, "nl">>)
    BY <1>5, <1>7 DEF Asking
  <2>2. <<>> \o <<k, "nl">> = <<k, "nl">>
    BY <1>8, JoinOps
  <2> QED
    BY <2>1, <2>2
<1>10. Stream(d)' = <<>>
  <2>1. Stream(d)' = (<<>> \o <<>>) \o <<>>
    BY <1>3, <1>6, <1>7 DEF Stream
  <2>2. <<>> \o <<>> = <<>>
    BY <1>8, JoinOps
  <2> QED
    BY <2>1, <2>2
<1>11. Told(<<>>, k, result'[d]) /\ Asks(<<k, "nl">>, k)
  BY DEF Told, Asks
<1> QED
  BY <1>4, <1>6, <1>7, <1>9, <1>10, <1>11 DEF Talks, Replied

LEMMA PolledTalks ==
    ASSUME Typed, NEW d \in Ctl, Talks(d), client[d].pc # "off", NEW n \in Nat, Polled(d, n)
    PROVE  Talks(d)'
<1>0. /\ d \in Conns /\ client[d] \in ClientRec /\ client[d].in \in Seq(Items)
      /\ down[d] \in Seq(Items) /\ n <= Len(down[d])
  BY EndTypes DEF Polled
<1>1. /\ client'[d].in = client[d].in \o SubSeq(down[d], 1, n)
      /\ client'[d].pc = client[d].pc /\ client'[d].req = client[d].req
      /\ down'[d] = SubSeq(down[d], n + 1, Len(down[d]))
      /\ up'[d] = up[d] /\ peer'[d] = peer[d] /\ fd'[d] = fd[d] /\ result'[d] = result[d]
  BY <1>0 DEF Polled, daemonVars, Typed, ClientRec
<1>2. client'[d].in \o down'[d] = client[d].in \o down[d]
  BY <1>0, <1>1, Rejoined
<1>3. Stream(d)' = Stream(d) /\ Asking(d)' = Asking(d)
  BY <1>1, <1>2 DEF Stream, Asking
<1> QED
  BY <1>1, <1>3 DEF Talks, Greeted, Replied, Listing

LEMMA ActsTalks ==
    ASSUME Typed, NEW d \in Ctl, Owned(d), Talks(d), Acts(d)
    PROVE  Talks(d)'
<1>0. d \in Conns /\ client[d] \in ClientRec /\ d \notin Others
  BY EndTypes, PeerAssumption
<1>1. ASSUME NEW how \in Ended, Ends(d, how) PROVE Talks(d)'
  BY <1>0, <1>1 DEF Ends, Talks, Ended, Typed, ClientRec
<1>2. CASE dial(d)
  <2>1. CASE client' = [client EXCEPT ![d].pc = "died"]
    BY <1>0, <2>1 DEF Typed, ClientRec, Talks
  <2>2. CASE connect(d) /\ client' = [client EXCEPT ![d].pc = "hello"]
    <3>1. /\ client[d].pc = "off" /\ fd'[d] = "backlog" /\ client'[d].pc = "hello"
          /\ client'[d].in = client[d].in /\ peer' = peer /\ up' = up /\ down' = down
      BY <1>0, <2>2 DEF connect, Typed, ClientRec
    <3>2. Asking(d) = <<>> /\ client[d].in = <<>> /\ down[d] = <<>> /\ ~peer[d].watch
      BY <3>1 DEF Talks, Off
    <3>3. peer[d].co = "dead" /\ peer[d].out = <<>>
      BY <1>0, <3>1 DEF Owned
    <3>4. Stream(d)' = <<>>
      <4>1. Stream(d)' = (<<>> \o <<>>) \o <<>>
        BY <3>1, <3>2, <3>3 DEF Stream
      <4>2. <<>> \o <<>> = <<>>
        <5>1. <<>> \in Seq(Items)
          OBVIOUS
        <5> QED
          BY <5>1, JoinOps
      <4> QED
        BY <4>1, <4>2
    <3>5. Asking(d)' = Asking(d)
      BY <3>1 DEF Asking
    <3>6. Greeting(<<>>)
      BY DEF Greeting
    <3> QED
      BY <3>1, <3>2, <3>3, <3>4, <3>5, <3>6 DEF Talks, Greeted
  <2> QED
    BY <1>2, <2>1, <2>2 DEF dial
<1>3. CASE ctl_poll(d)
  <2>1. client[d].pc # "off"
    BY <1>3 DEF ctl_poll, Polling, Waiting
  <2> QED
    BY <1>1, <1>3, <2>1, PollOps, PolledTalks DEF Ended
<1>4. CASE ctl_timeout(d) \/ ctl_interrupted(d) \/ ctl_items(d)
  BY <1>1, <1>4 DEF ctl_timeout, ctl_interrupted, ctl_items, Ended
<1>5. CASE ctl_request(d)
  BY <1>1, <1>5, RequestTalks DEF Ended
<1>6. CASE ctl_response(d)
  <2>1. HasLine(client[d].in) /\ client[d].pc = "reply"
    BY <1>6 DEF ctl_response
  <2>2. CASE Ends(d, "refused") \/ Ends(d, "done")
    BY <1>1, <2>2 DEF Ended
  <2>3. CASE Consumed(d, "watch")
    BY <1>0, <2>3 DEF Consumed, Talks, Typed, ClientRec
  <2>4. CASE Line(client[d].in) = ok /\ client[d].req = "show" /\ Consumed(d, "items")
    <3>1. /\ client'[d].pc = "items" /\ client'[d].req = "show" /\ fd'[d] = fd[d]
          /\ result'[d] = result[d] /\ peer'[d] = peer[d] /\ up'[d] = up[d]
      BY <1>0, <2>4 DEF Consumed, daemonVars, Typed, ClientRec
    <3>2. client[d].in[1] = "OK" /\ Stream(d) # <<>> /\ result[d] = "ok"
      BY <2>1, <2>4, AnswerRead DEF ok, Unheeded
    <3>3. fd[d] # "backlog" /\ (peer[d].co # "dead" => Asking(d) = <<>>)
      BY <2>1, <3>2 DEF Talks, Replied
    <3> QED
      BY <3>1, <3>2, <3>3 DEF Talks, Listing, Asking
  <2> QED
    BY <1>6, <2>2, <2>3, <2>4 DEF ctl_response
<1>7. CASE ctl_event(d)
  BY <1>0, <1>7 DEF ctl_event, Consumed, Talks, Typed, ClientRec
<1> QED
  BY <1>0, <1>2, <1>3, <1>4, <1>5, <1>6, <1>7 DEF Acts, CtlRuns

LEMMA TalksStep ==
    ASSUME Typed, \A c \in Conns : Owned(c), \A c \in Ctl : Talks(c), [Next]_vars
    PROVE  \A d \in Ctl : Talks(d)'
<1> SUFFICES ASSUME NEW d \in Ctl
             PROVE  Talks(d)'
  OBVIOUS
<1>0. Owned(d) /\ Talks(d) /\ d \in Conns
  BY DEF Conns
<1>1. ASSUME NEW how, ProcessEnds(how) PROVE Talks(d)'
  <2>1. /\ peer'[d] = NoPeer /\ fd'[d] \in {"none", "closed"}
        /\ UNCHANGED <<up, down, client, result>>
    BY <1>0, <1>1 DEF ProcessEnds
  <2> QED
    BY <1>0, <2>1, CutTalks
<1>2. ASSUME NEW c \in Conns, peer_lines(c) PROVE Talks(d)'
  <2>1. Answered(c) \/ Skipped(c) \/ Elsewhere \/ ProcessEnds("crashed")
    BY <1>2, LinesOps
  <2>2. CASE Elsewhere
    BY <1>0, <2>2, AsideTalks DEF Elsewhere, Link
  <2>3. CASE Answered(c)
    <3>1. CASE d = c
      BY <1>0, <2>3, <3>1, AnsweredTalks
    <3>2. CASE d # c
      <4>1. peer'[d] = peer[d] /\ result'[d] = result[d] /\ UNCHANGED <<fd, up, down, client>>
        BY <1>0, <2>3, <3>2 DEF Answered, Typed
      <4> QED
        BY <1>0, <4>1, AsideTalks DEF Link
    <3> QED
      BY <3>1, <3>2
  <2>4. CASE Skipped(c)
    <3>1. CASE d = c
      <4>1. client[d].pc \notin {"off", "hello", "items", "reply"} /\ UNCHANGED client
        BY <1>0, <2>4, <3>1, NotSkipped DEF Skipped
      <4> QED
        BY <4>1 DEF Talks
    <3>2. CASE d # c
      <4>1. peer'[d] = peer[d] /\ result'[d] = result[d] /\ UNCHANGED <<fd, up, down, client>>
        BY <1>0, <2>4, <3>2 DEF Skipped, Typed
      <4> QED
        BY <1>0, <4>1, AsideTalks DEF Link
    <3> QED
      BY <3>1, <3>2
  <2> QED
    BY <1>1, <2>1, <2>2, <2>3, <2>4
<1>3. CASE irc_hook_invoke
  BY <1>0, <1>3, AsideTalks DEF irc_hook_invoke, Link
<1>4. CASE broadcaster
  <2>1. UNCHANGED <<fd, up, down, client, result>>
    BY <1>4 DEF broadcaster
  <2>2. CASE UNCHANGED peer
    BY <1>0, <2>1, <2>2, AsideTalks DEF Link
  <2>3. CASE peer' = transport_broadcast(peer)
    BY <1>0, <2>1, <2>3, BroadcastTalks
  <2> QED
    BY <1>4, <2>2, <2>3 DEF broadcaster
<1>5. CASE server_event
  BY <1>0, <1>5, AsideTalks DEF server_event, Link
<1>6. CASE transport_stop
  BY <1>1, <1>6 DEF transport_stop
<1>7. ASSUME NEW c \in Conns, transport_entry(c) PROVE Talks(d)'
  BY <1>0, <1>7, EntryTalks
<1>8. ASSUME NEW c \in Conns, peer_stream_entry(c) PROVE Talks(d)'
  <2>1. /\ PeerEnds(c) \/ Moved(c)
        /\ UNCHANGED <<client, result>> /\ peer[c].co # "dead"
    BY <1>8, TransferOps
  <2>2. CASE d = c /\ PeerEnds(c)
    <3>1. peer'[d] = NoPeer /\ fd'[d] = "closed" /\ UNCHANGED <<up, down>>
      BY <2>2 DEF PeerEnds, Typed
    <3> QED
      BY <1>0, <2>1, <3>1, CutTalks
  <2>3. CASE d = c /\ Moved(c)
    BY <1>0, <2>1, <2>3, MovedTalks
  <2>4. CASE d # c
    <3>1. peer'[d] = peer[d] /\ fd'[d] = fd[d] /\ up'[d] = up[d] /\ down'[d] = down[d]
      BY <1>0, <2>1, <2>4 DEF PeerEnds, Moved, Typed
    <3> QED
      BY <1>0, <2>1, <3>1, AsideTalks DEF Link
  <2> QED
    BY <2>1, <2>2, <2>3, <2>4
<1>9. ASSUME NEW c \in Conns, Acts(c) PROVE Talks(d)'
  <2>1. CASE d = c
    BY <1>0, <1>9, <2>1, ActsTalks
  <2>2. CASE d # c
    <3>1. /\ UNCHANGED peer /\ (fd' = fd \/ fd' = [fd EXCEPT ![c] = "backlog"])
          /\ client'[d] = client[d] /\ up'[d] = up[d] /\ down'[d] = down[d] /\ result'[d] = result[d]
      BY <1>0, <1>9, <2>2, ActsFrame
    <3>2. fd'[d] = fd[d]
      BY <1>0, <2>2, <3>1 DEF Typed
    <3> QED
      BY <1>0, <3>1, <3>2, AsideTalks DEF Link
  <2> QED
    BY <2>1, <2>2
<1>10. CASE UNCHANGED vars
  BY <1>0, <1>10, AsideTalks DEF vars, Link
<1> QED
  BY <1>2, <1>3, <1>4, <1>5, <1>6, <1>7, <1>8, <1>9, <1>10 DEF Next, Daemon, Acts, Conns

-----------------------------------------------------------------------------
(* The invariant, and what it gives.                                       *)

LEMMA InitPeer == Init => PeerInv
<1> SUFFICES ASSUME Init
             PROVE  PeerInv
  OBVIOUS
<1>1. <<>> \in Seq(Items) /\ Len(<<>>) = 0
  OBVIOUS
<1>2. NoPeer \in PeerRec
  BY <1>1 DEF NoPeer, PeerRec
<1>3. \A c \in Conns : /\ peer[c] = NoPeer /\ fd[c] = "none" /\ up[c] = <<>> /\ down[c] = <<>>
                       /\ client[c] = [pc |-> "off", req |-> "none", in |-> <<>>, sent |-> 0]
  BY DEF Init
<1>4. [pc |-> "off", req |-> "none", in |-> <<>>, sent |-> 0] \in ClientRec
  BY <1>1 DEF ClientRec
<1>5. /\ peer \in [Conns -> PeerRec] /\ client \in [Conns -> ClientRec]
      /\ up \in [Conns -> Seq(Items)] /\ down \in [Conns -> Seq(Items)]
  BY <1>1, <1>2, <1>4 DEF Init
<1>6. \A c \in Conns : Len(peer[c].in) <= InCap /\ Len(peer[c].out) <= OutCap /\ Len(down[c]) <= SockCap
  BY <1>1, <1>3, PeerAssumption DEF NoPeer
<1>7. Typed
  BY <1>5, <1>6 DEF Init, Typed
<1>8. \A c \in Conns : Owned(c)
  BY <1>3 DEF Owned, NoPeer
<1>9. \A c \in Ctl : Talks(c)
  <2> TAKE c \in Ctl
  <2>1. peer[c] = NoPeer /\ up[c] = <<>> /\ down[c] = <<>> /\ client[c].in = <<>> /\ client[c].pc = "off"
    BY <1>3 DEF Conns
  <2>2. Asking(c) = <<>>
    BY <1>1, <2>1, JoinOps DEF Asking, NoPeer
  <2> QED
    BY <2>1, <2>2 DEF Talks, Off, NoPeer
<1> QED
  BY <1>7, <1>8, <1>9 DEF PeerInv

LEMMA PeerInvariant == Spec => []PeerInv
<1>1. PeerInv /\ [Next]_vars => PeerInv'
  <2> SUFFICES ASSUME PeerInv, [Next]_vars
               PROVE  PeerInv'
    OBVIOUS
  <2>1. Typed /\ (\A c \in Conns : Owned(c)) /\ (\A c \in Ctl : Talks(c))
    BY DEF PeerInv
  <2>2. Typed'
    BY <2>1, TypedStep
  <2>3. \A d \in Conns : Owned(d)'
    BY <2>1, <2>2, OwnedStep
  <2>4. \A d \in Ctl : Talks(d)'
    BY <2>1, TalksStep
  <2> QED
    BY <2>2, <2>3, <2>4 DEF PeerInv
<1> QED
  BY <1>1, InitPeer, PTL DEF Spec

\* The buffers of a peer stay within in_cap and out_cap, and every field holds what
\* peer.c, transport.c and irccdctl put there.
THEOREM TypeAlwaysOK == Spec => []TypeOK
<1>1. PeerInv => TypeOK
  BY DEF PeerInv, Typed, TypeOK, PeerRec, ClientRec
<1> QED
  BY <1>1, PeerInvariant, PTL

\* transport_entry, peer_entry and peer_free together lose no descriptor: each open
\* one belongs to a peer of the list with a coroutine, and the only peers freed
\* with their socket open are those whose input buffer was full.
THEOREM DescriptorsAlwaysOwned == Spec => []DescriptorsOwned
<1>1. PeerInv => DescriptorsOwned
  BY DEF PeerInv, Owned, DescriptorsOwned
<1> QED
  BY <1>1, PeerInvariant, PTL

\* Whatever the daemon broadcasts and whoever else asks, check() of irccdctl reads the
\* hello, and ok() reads the answer to the request that was sent.
THEOREM AnswerAlwaysFirst == Spec => []AnswerFirst
<1>1. PeerInv => AnswerFirst
  <2> SUFFICES ASSUME PeerInv, NEW c \in Ctl
               PROVE  LET s == client[c].in \o down[c] \o peer[c].out IN
                         /\ client[c].pc = "hello" /\ s # <<>> => s[1] = "hello"
                         /\ client[c].pc = "reply" /\ s # <<>> => s[1] \in {"OK", "error"}
    BY DEF AnswerFirst
  <2>1. Typed /\ Talks(c)
    BY DEF PeerInv
  <2>2. Stream(c) \in Seq(Items)
    BY <2>1, EndTypes, JoinOps DEF Stream
  <2>3. Stream(c) # <<>> => Len(Stream(c)) >= 1
    BY <2>2, EmptySeq
  <2>4. client[c].pc = "hello" /\ Stream(c) # <<>> => Stream(c)[1] = "hello"
    BY <2>1, <2>3 DEF Talks, Greeted, Greeting
  <2>5. client[c].pc = "reply" /\ Stream(c) # <<>> => Stream(c)[1] \in {"OK", "error"}
    BY <2>1, <2>3 DEF Talks, Replied, Told
  <2> QED
    BY <2>4, <2>5 DEF Stream
<1> QED
  BY <1>1, PeerInvariant, PTL

\* How irccdctl ends, and what it knows then.
LEMMA Verdict ==
    ASSUME Typed, NEW c \in Ctl, Talks(c), Acts(c), client'[c].pc \in {"done", "refused"}, ~Gone(c)
    PROVE  /\ client'[c].pc = "done" /\ client[c].req \notin Unheeded => result[c] = "ok"
           /\ client'[c].pc = "refused" /\ client[c].req # "edit" => result[c] = "no"
<1>0. c \in Conns /\ c \notin Others /\ client[c] \in ClientRec
  BY EndTypes, PeerAssumption
<1>1. ASSUME NEW how, Ends(c, how) PROVE client'[c].pc = how
  BY <1>0, <1>1 DEF Ends, Typed, ClientRec
<1>2. ASSUME NEW pc, Consumed(c, pc) PROVE client'[c].pc = pc
  BY <1>0, <1>2 DEF Consumed, Typed, ClientRec
<1>3. ASSUME dial(c) PROVE FALSE
  <2>1. client'[c].pc \in {"hello", "died"}
    BY <1>0, <1>3 DEF dial, Typed, ClientRec
  <2> QED
    BY <2>1
<1>4. ASSUME ctl_poll(c) PROVE FALSE
  <2>1. ASSUME NEW n \in Nat, Polled(c, n) PROVE client'[c].pc = client[c].pc
    BY <1>0, <2>1 DEF Polled, Typed, ClientRec
  <2>2. client'[c].pc \in {"died", client[c].pc}
    BY <1>0, <1>1, <1>4, <2>1, PollOps
  <2> QED
    BY <2>2 DEF Gone, Ended
<1>5. ASSUME ctl_timeout(c) \/ ctl_interrupted(c) \/ ctl_event(c) PROVE FALSE
  BY <1>1, <1>2, <1>5 DEF ctl_timeout, ctl_interrupted, ctl_event
<1>6. ASSUME ctl_request(c) PROVE FALSE
  <2>1. client'[c].pc \in {"died", "reply"}
    <3>1. CASE Ends(c, "died")
      BY <1>1, <3>1
    <3>2. CASE \E k \in CtlRequests :
                 client' = [client EXCEPT ![c].in = AfterLine(@), ![c].pc = "reply", ![c].req = k]
      BY <1>0, <3>2 DEF Typed, ClientRec
    <3> QED
      BY <1>6, <3>1, <3>2 DEF ctl_request
  <2> QED
    BY <2>1
<1>7. CASE ctl_items(c)
  <2>1. client'[c].pc = "done" /\ client[c].pc = "items"
    BY <1>1, <1>7 DEF ctl_items
  <2> QED
    BY <2>1 DEF Talks, Listing
<1>8. CASE ctl_response(c)
  <2>1. /\ Line(client[c].in) = <<client[c].in[1]>>
        /\ \/ client[c].in[1] = "OK" /\ (client[c].req \notin Unheeded => result[c] = "ok")
           \/ client[c].in[1] = "error" /\ (client[c].req # "edit" => result[c] = "no")
    BY <1>8, AnswerRead DEF ctl_response
  <2>2. client'[c].pc = "done" => Line(client[c].in) = ok
    BY <1>1, <1>8 DEF ctl_response
  <2>3. client'[c].pc = "refused" => Line(client[c].in) # ok
    BY <1>1, <1>2, <1>8 DEF ctl_response
  <2>4. Line(client[c].in) = ok <=> client[c].in[1] = "OK"
    BY <2>1 DEF ok
  <2> QED
    BY <2>1, <2>2, <2>3, <2>4
<1> QED
  BY <1>0, <1>3, <1>4, <1>5, <1>6, <1>7, <1>8 DEF Acts, CtlRuns

\* Only irccdctl itself ends a run of irccdctl.
LEMMA OthersKeepClient ==
    ASSUME Typed, [Next]_vars, NEW c \in Conns, ~Acts(c)
    PROVE  client'[c] = client[c]
<1>1. ASSUME NEW d \in Conns, peer_lines(d) PROVE client' = client
  BY <1>1, LinesOps DEF Answered, Skipped, Elsewhere, ProcessEnds
<1>2. CASE irc_hook_invoke \/ broadcaster \/ server_event \/ transport_stop \/ UNCHANGED vars
  BY <1>2 DEF irc_hook_invoke, broadcaster, server_event, transport_stop, ProcessEnds, vars
<1>3. ASSUME NEW d \in Conns, transport_entry(d) \/ peer_stream_entry(d) PROVE client' = client
  BY <1>3 DEF transport_entry, peer_stream_entry
<1>4. ASSUME NEW d \in Conns, Acts(d) PROVE client'[c] = client[c]
  BY <1>4, ActsFrame
<1> QED
  BY <1>1, <1>2, <1>3, <1>4 DEF Next, Daemon, Acts, Conns

\* What irccdctl tells its user is how the daemon ended the command, with the three
\* exceptions that peer.c makes.
THEOREM CtlAlwaysTruthful == Spec => CtlTruthful
<1> DEFINE Honest(c) ==
             ~Gone(c) =>
               /\ client'[c].pc = "done" /\ client[c].req \notin Unheeded => result[c] = "ok"
               /\ client'[c].pc = "refused" /\ client[c].req # "edit" => result[c] = "no"
<1>1. ASSUME PeerInv, [Next]_vars, NEW c \in Ctl PROVE Honest(c)
  <2>0. Typed /\ Talks(c) /\ c \in Conns
    BY <1>1 DEF PeerInv, Conns
  <2>1. CASE Acts(c)
    BY <2>0, <2>1, Verdict
  <2>2. CASE ~Acts(c)
    <3>1. client'[c] = client[c]
      BY <1>1, <2>0, <2>2, OthersKeepClient
    <3> QED
      BY <3>1 DEF Gone, Ended
  <2> QED
    BY <2>1, <2>2
<1>2. PeerInv /\ [Next]_vars => [\A c \in Ctl : Honest(c)]_vars
  BY <1>1
<1> QED
  BY <1>2, PeerInvariant, PTL DEF Spec, CtlTruthful

=============================================================================
