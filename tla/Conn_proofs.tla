----------------------------- MODULE Conn_proofs -----------------------------
(***************************************************************************)
(* Proofs about Conn, for every number of endpoints, every length of the   *)
(* handshake and every capacity of the buffers.                            *)
(***************************************************************************)
EXTENDS Conn, SequenceTheorems, TLAPS

-----------------------------------------------------------------------------
(* What the helpers return.                                                *)

\* Stopping, restarting or initialising an ev_io watcher yields a watcher.
LEMMA WatchOps ==
    ASSUME NEW w \in Watch, NEW ev \in SUBSET {"R", "W"}
    PROVE  /\ nce_io_stop(w) \in Watch
           /\ nce_io_reset(w, ev) \in Watch
           /\ ev_init(w) \in Watch
BY DEF Watch, nce_io_stop, nce_io_reset, ev_init

\* Rearming, feeding, setting or stopping an ev_timer watcher yields a watcher.
LEMMA TimerOps ==
    ASSUME NEW t \in Timer
    PROVE  /\ nce_timer_again(t) \in Timer
           /\ nce_timer_feed(t) \in Timer
           /\ ReconnectTimer(t) \in Timer
           /\ nce_timer_stop(t) \in Timer
           /\ nce_timer_feed(nce_timer_again(t)) \in Timer
BY DEF Timer, nce_timer_again, nce_timer_feed, ReconnectTimer, nce_timer_stop

\* conn_recv leaves a sequence of lines in the input buffer.
LEMMA InAfterType ==
    ASSUME NEW b \in Seq(Line), NEW o
    PROVE  InAfter(b, o) \in Seq(Line)
<1> DEFINE l == [from |-> {"cur"}, end |-> o # "part",
                 kind |-> IF o = "bad" THEN "bad" ELSE "irc"]
<1>1. l \in Line
  BY DEF Line
<1>2. CASE o \notin Chunks
  BY <1>2 DEF InAfter
<1>3. CASE o \in Chunks /\ Partial(b)
  <2>1. Len(b) \in 1..Len(b) /\ Last(b) \in Line
    BY <1>3 DEF Partial, Last
  <2>2. [l EXCEPT !.from = {"cur"} \cup Last(b).from] \in Line
    BY <1>1, <2>1 DEF Line
  <2> QED
    BY <1>3, <2>1, <2>2 DEF InAfter
<1>4. CASE o \in Chunks /\ ~Partial(b)
  BY <1>1, <1>4 DEF InAfter
<1> QED
  BY <1>2, <1>3, <1>4

\* The handshake never overruns the output buffer.
LEMMA HandshakeFits ==
    ASSUME NEW b \in Seq(Output), Len(b) <= OutCap
    PROVE  PushHandshake(b) \in Seq(Output) /\ Len(PushHandshake(b)) <= OutCap
<1> DEFINE room == OutCap - Len(b)
           n == IF room < NHandshake THEN room ELSE NHandshake
           h == [i \in 1..n |-> [from |-> "cur", kind |-> "hs"]]
<1>1. n \in Nat /\ Len(b) \in Nat /\ Len(b) + n <= OutCap
  BY ConnAssumption
<1>2. h \in Seq(Output) /\ Len(h) = n
  <2>1. \A i \in 1..n : [from |-> "cur", kind |-> "hs"] \in Output
    BY DEF Output
  <2>2. h \in [1..n -> Output]
    BY <2>1
  <2>3. h \in Seq(Output)
    BY <1>1, <2>2, SeqDef
  <2> QED
    BY <1>1, <2>2, <2>3, LenProperties
<1>3. PushHandshake(b) = b \o h
  BY DEF PushHandshake
<1>. HIDE DEF h
<1> QED
  BY <1>1, <1>2, <1>3, ConcatProperties

\* Sending a prefix of the output leaves a shorter output.
LEMMA SentType ==
    ASSUME NEW b \in Seq(Output), NEW n \in 0..Len(b)
    PROVE  /\ SubSeq(b, n + 1, Len(b)) \in Seq(Output)
           /\ Len(SubSeq(b, n + 1, Len(b))) = Len(b) - n
<1>1. Len(b) \in Nat /\ \A i \in n+1..Len(b) : b[i] \in Output
  BY LenProperties
<1> QED
  BY <1>1, SubSeqProperties

\* Ageing the lines of a buffer keeps it a sequence of lines of the same length.
LEMMA OldLines ==
    ASSUME NEW b \in Seq(Line)
    PROVE  /\ [i \in DOMAIN b |-> OldLine(b[i])] \in Seq(Line)
           /\ Len([i \in DOMAIN b |-> OldLine(b[i])]) = Len(b)
<1> DEFINE a == [i \in DOMAIN b |-> OldLine(b[i])]
<1>1. \A i \in 1..Len(b) : OldLine(b[i]) \in Line
  <2>1. \A l \in Line : OldLine(l) \in Line
    BY DEF OldLine, Line
  <2> QED
    BY <2>1, LenProperties
<1>2. Len(b) \in Nat /\ DOMAIN b = 1..Len(b)
  BY LenProperties
<1>3. a \in [1..Len(b) -> Line]
  BY <1>1, <1>2
<1>4. a \in Seq(Line)
  BY <1>2, <1>3, SeqDef
<1> QED
  BY <1>2, <1>3, <1>4, LenProperties

\* Ageing the output keeps it a sequence of output lines of the same length.
LEMMA OldOutputs ==
    ASSUME NEW b \in Seq(Output)
    PROVE  /\ [i \in DOMAIN b |-> OldOutput(b[i])] \in Seq(Output)
           /\ Len([i \in DOMAIN b |-> OldOutput(b[i])]) = Len(b)
<1> DEFINE a == [i \in DOMAIN b |-> OldOutput(b[i])]
<1>1. \A i \in 1..Len(b) : OldOutput(b[i]) \in Output
  <2>1. \A o \in Output : OldOutput(o) \in Output
    BY DEF OldOutput, Output
  <2> QED
    BY <2>1, LenProperties
<1>2. Len(b) \in Nat /\ DOMAIN b = 1..Len(b)
  BY LenProperties
<1>3. a \in [1..Len(b) -> Output]
  BY <1>1, <1>2
<1>4. a \in Seq(Output)
  BY <1>2, <1>3, SeqDef
<1> QED
  BY <1>2, <1>3, <1>4, LenProperties

-----------------------------------------------------------------------------
(* Type correctness.                                                       *)

\* Every action of Conn preserves the type invariant.
LEMMA TypeStep == TypeOK /\ [Next]_vars => TypeOK'
<1> SUFFICES ASSUME TypeOK, [Next]_vars
             PROVE  TypeOK'
  OBVIOUS
<1> USE ConnAssumption
<1>a. /\ watch \in Watch /\ tm \in Timer
      /\ inbuf \in Seq(Line) /\ outbuf \in Seq(Output) /\ stored \in Seq(Line)
      /\ Len(outbuf) <= OutCap /\ Len(stored) <= 1
  BY DEF TypeOK
<1>b. /\ \A t \in Timer : nce_timer_again(t) \in Timer /\ nce_timer_feed(t) \in Timer
                          /\ ReconnectTimer(t) \in Timer /\ nce_timer_stop(t) \in Timer
      /\ \A w \in Watch : nce_io_stop(w) \in Watch /\ ev_init(w) \in Watch
      /\ \A w \in Watch, ev \in SUBSET {"R", "W"} : nce_io_reset(w, ev) \in Watch
  BY TimerOps, WatchOps
<1>c. PushHandshake(outbuf) \in Seq(Output) /\ Len(PushHandshake(outbuf)) <= OutCap
  BY <1>a, HandshakeFits
<1>d. ASSUME NEW w \in Watch, EnterIdent(w)
      PROVE  /\ state' \in States /\ io' \in IoPoints /\ tm' \in Timer
             /\ outbuf' \in Seq(Output) /\ Len(outbuf') <= OutCap /\ watch' \in Watch
  BY <1>a, <1>b, <1>c, <1>d DEF EnterIdent, States, IoPoints
<1>e. ASSUME NEW w \in Watch, NextEndpoint(w)
      PROVE  ai' \in 0..NEndpoints /\ io' \in IoPoints /\ tm' \in Timer /\ watch' \in Watch
  BY <1>a, <1>b, <1>e DEF NextEndpoint, conn_reschedule, TypeOK, IoPoints
<1>f. ASSUME NEW o \in RecvOutcomes, NEW n \in 0..Len(outbuf), conn_wait(o, n)
      PROVE  /\ inbuf' \in Seq(Line) /\ outbuf' \in Seq(Output)
             /\ Len(outbuf') <= OutCap /\ watch' \in Watch
  BY <1>a, <1>b, <1>f, InAfterType, SentType, LenProperties DEF conn_wait, EventsAfter
<1>g. ASSUME NEW t \in Timer, conn_reschedule(t)
      PROVE  watch' \in Watch /\ tm' \in Timer /\ io' \in IoPoints
  BY <1>a, <1>b, <1>g DEF conn_reschedule, IoPoints
<1>1. CASE conn_resolve
  <2>1. nce_timer_again(tm) \in Timer
    BY <1>a, <1>b
  <2>2. CASE conn_reschedule(nce_timer_again(tm)) /\ UNCHANGED <<state, ai, rc>>
    BY <2>1, <2>2, <1>1, <1>a, <1>g DEF conn_resolve, TypeOK, bufVars, envVars
  <2>3. CASE /\ state' = "CONNECT" /\ ai' = 1 /\ rc' = FALSE
             /\ io' = "connect" /\ tm' = nce_timer_again(tm) /\ UNCHANGED watch
    <3>1. 1 \in 0..NEndpoints
      OBVIOUS
    <3> QED
      BY <2>1, <2>3, <3>1, <1>1, ZenonT(40)
         DEF conn_resolve, TypeOK, States, IoPoints, bufVars, envVars
  <2> QED
    BY <1>1, <2>2, <2>3 DEF conn_resolve
<1>2. CASE conn_connect
  <2>1. CASE ConnectFails
    BY <2>1, <1>2, <1>a, <1>e DEF conn_connect, ConnectFails, TypeOK
  <2>2. ASSUME NEW sameFd \in BOOLEAN, ConnectInProgress(sameFd)
        PROVE  TypeOK'
    BY <2>2, <1>2, <1>a, <1>b
       DEF conn_connect, ConnectInProgress, conn_socket, TypeOK, IoPoints, Faults
  <2>3. ASSUME NEW sameFd \in BOOLEAN, ConnectSucceeds(sameFd)
        PROVE  TypeOK'
    BY <2>3, <1>2, <1>a, <1>d, <1>e
       DEF conn_connect, ConnectSucceeds, conn_socket, TypeOK, Faults
  <2> QED
    BY <1>2, <2>1, <2>2, <2>3 DEF conn_connect
<1>3. CASE conn_dial
  BY <1>3, <1>a, <1>b, <1>d, <1>e DEF conn_dial, IoTurn, TypeOK, Turns, envVars
<1>4. CASE conn_ident
  <2>1. CASE conn_recv("fail") /\ conn_reschedule(tm) /\ UNCHANGED <<state, inbuf, outbuf>>
    BY <2>1, <1>4, <1>a, <1>g DEF conn_ident, IoTurn, TypeOK, Turns, envVars
  <2>2. ASSUME NEW o \in RecvOutcomes, NEW n \in 0..Len(outbuf), conn_wait(o, n),
               \/ outbuf' = <<>> /\ state' = "READY" /\ io' = "ready"
                  /\ tm' = nce_timer_again(tm)
               \/ outbuf' # <<>> /\ UNCHANGED <<state, io, tm>>
        PROVE  TypeOK'
    BY <2>2, <1>4, <1>a, <1>b, <1>f
       DEF conn_ident, IoTurn, TypeOK, Turns, envVars, States, IoPoints
  <2> QED
    BY <1>4, <2>1, <2>2 DEF conn_ident
<1>5. CASE conn_ready
  <2>1. LostInput \in Seq(Line)
    BY DEF LostInput, Line
  <2> QED
    BY <2>1, <1>5, <1>a, <1>b, <1>f, <1>g, ZenonT(40) DEF conn_ready, IoTurn, TypeOK, Turns, envVars
<1>6. CASE WaitSpins
  BY <1>6, <1>a, InAfterType DEF WaitSpins, IoTurn, TypeOK, Turns, Faults
<1>7. CASE IoYields \/ TimerYields \/ PollEnds
  BY <1>7 DEF IoYields, TimerYields, PollEnds, IoTurn, TimerTurn, TypeOK, Turns,
              bufVars, envVars
<1>8. CASE conn_timer_resurrect
  BY <1>8, <1>a, <1>b DEF conn_timer_resurrect, TimerTurn, TypeOK, Turns, IoPoints, bufVars
<1>9. CASE conn_io_spawn
  BY <1>9, <1>a, <1>b, OldLines, OldOutputs
     DEF conn_io_spawn, TimerTurn, TypeOK, Turns, States, IoPoints, envVars
<1>10. CASE irc_server_consumer_entry
  BY <1>10, <1>a DEF irc_server_consumer_entry, ConsumerTurn, TypeOK, Turns, Faults
<1>11. CASE conn_producer_entry
  <2>1. ASSUME inbuf # <<>>
        PROVE  conn_next(inbuf[1]) \in Line /\ Tail(inbuf) \in Seq(Line)
    <3>1. \A l \in Line : conn_next(l) \in Line
      BY DEF conn_next, Line
    <3>2. inbuf[1] \in Line /\ Tail(inbuf) \in Seq(Line)
      BY <1>a, <2>1
    <3> QED
      BY <3>1, <3>2
  <2>2. inbuf' \in Seq(Line) /\ stored' \in Seq(Line) /\ Len(stored') <= 1
    <3>1. CASE /\ inbuf # <<>> /\ inbuf' = Tail(inbuf)
               /\ stored' = <<conn_next(inbuf[1])>>
      BY <2>1, <3>1
    <3>2. CASE UNCHANGED <<stored, inbuf>>
      BY <3>2, <1>a
    <3> QED
      BY <1>11, <3>1, <3>2 DEF conn_producer_entry, HasLine
  <2>3. turn' \in Turns
    BY <1>11 DEF conn_producer_entry, ProducerTurn, Turns
  <2>4. UNCHANGED <<alive, state, ai, rc, fd, outbuf, io, tco, watch, tm, owed, peer, proc,
                    dangling>>
    BY <1>11 DEF conn_producer_entry, envVars
  <2> QED
    BY <2>2, <2>3, <2>4 DEF TypeOK
<1>12. CASE irc__conn_push
  <2>1. Push(outbuf, "app") \in Seq(Output) /\ Len(Push(outbuf, "app")) <= OutCap
    <3>1. [from |-> "cur", kind |-> "app"] \in Output
      BY DEF Output
    <3> QED
      BY <3>1, <1>a, LenProperties, AppendProperties DEF Push
  <2> QED
    BY <2>1, <1>12, <1>a, <1>b DEF irc__conn_push, TypeOK, Faults
<1>13. CASE irc_server_connect
  <2>1. watch' \in Watch /\ tm' \in Timer
    BY <1>13 DEF irc_server_connect, Watch, Timer
  <2>2. /\ inbuf' \in Seq(Line) /\ outbuf' \in Seq(Output) /\ stored' \in Seq(Line)
        /\ Len(outbuf') <= OutCap /\ Len(stored') <= 1
    BY <1>13 DEF irc_server_connect
  <2>3. alive' \in BOOLEAN /\ rc' \in BOOLEAN /\ owed' \in BOOLEAN
    BY <1>13 DEF irc_server_connect
  <2>4. /\ ai' \in 0..NEndpoints
        /\ state' \in States /\ fd' \in {"zero", "none", "sock"} /\ io' \in IoPoints
        /\ tco' \in {"none", "watch", "delay"} /\ peer' \in {"none", "syn", "up", "refused", "closed"}
        /\ UNCHANGED <<turn, proc, dangling>>
    BY <1>13 DEF irc_server_connect, States, IoPoints
  <2> QED
    BY <2>1, <2>2, <2>3, <2>4 DEF TypeOK
<1>14. CASE irc_server_disconnect
  <2>1. /\ inbuf' \in Seq(Line) /\ outbuf' \in Seq(Output) /\ stored' \in Seq(Line)
        /\ Len(outbuf') <= OutCap /\ Len(stored') <= 1
    BY <1>14 DEF irc_server_disconnect
  <2>2. alive' \in BOOLEAN /\ owed' \in BOOLEAN /\ dangling' \in BOOLEAN
    BY <1>14 DEF irc_server_disconnect
  <2>3. /\ ai' \in 0..NEndpoints
        /\ fd' \in {"zero", "none", "sock"} /\ io' \in IoPoints
        /\ tco' \in {"none", "watch", "delay"} /\ peer' \in {"none", "syn", "up", "refused", "closed"}
        /\ UNCHANGED <<state, rc, watch, tm, turn, proc>>
    BY <1>14 DEF irc_server_disconnect, IoPoints
  <2> QED
    BY <2>1, <2>2, <2>3 DEF TypeOK
<1>15. CASE PeerMoves
  BY <1>15 DEF PeerMoves, TypeOK, bufVars
<1>16. CASE IoEvent
  <2>1. \A ev \in SUBSET watch.events : [watch EXCEPT !.revents = ev] \in Watch
    BY <1>a DEF Watch
  <2> QED
    BY <1>16, <2>1, ZenonT(40) DEF IoEvent, TypeOK, bufVars, envVars
<1>17. CASE WatchdogFires \/ DelayElapses
  <2>1. [tm EXCEPT !.fired = TRUE, !.active = tm.repeat] \in Timer
    BY <1>a DEF Timer
  <2> QED
    BY <1>17, <2>1 DEF WatchdogFires, DelayElapses, TimerFires, TypeOK, bufVars, envVars
<1>18. CASE FreedWatcherUsed
  BY <1>18 DEF FreedWatcherUsed, TypeOK, bufVars, Faults
<1>19. CASE Stopped \/ UNCHANGED vars
  BY <1>19 DEF Stopped, vars, TypeOK
<1> QED
  BY <1>1, <1>2, <1>3, <1>4, <1>5, <1>6, <1>7, <1>8, <1>9, <1>10, <1>11, <1>12, <1>13,
     <1>14, <1>15, <1>16, <1>17, <1>18, <1>19
     DEF Next, IoCoroutine, TimerCoroutine, Users, Environment

\* conn's fields, buffers and watchers keep their types and the buffers their
\* capacities, for every instance.
THEOREM TypeCorrect == Spec => []TypeOK
<1>1. Init => TypeOK
  <2> SUFFICES ASSUME Init PROVE TypeOK
    OBVIOUS
  <2>1. watch \in Watch /\ tm \in Timer
    BY DEF Init, Watch, Timer
  <2>2. /\ inbuf \in Seq(Line) /\ outbuf \in Seq(Output) /\ stored \in Seq(Line)
        /\ Len(outbuf) <= OutCap /\ Len(stored) <= 1
    BY ConnAssumption DEF Init
  <2>3. alive \in BOOLEAN /\ rc \in BOOLEAN /\ owed \in BOOLEAN /\ dangling \in BOOLEAN
    BY DEF Init
  <2>4. /\ state \in States /\ ai \in 0..NEndpoints /\ fd \in {"zero", "none", "sock"}
        /\ io \in IoPoints /\ tco \in {"none", "watch", "delay"}
        /\ peer \in {"none", "syn", "up", "refused", "closed"}
        /\ turn \in Turns /\ proc \in {"run"} \cup Faults
    BY ConnAssumption DEF Init, States, IoPoints, Turns
  <2> QED
    BY <2>1, <2>2, <2>3, <2>4 DEF TypeOK
<1>2. TypeOK /\ [Next]_vars => TypeOK'
  BY TypeStep
<1> QED
  BY <1>1, <1>2, PTL DEF Spec

-----------------------------------------------------------------------------
(* The io_fd coroutine is never stuck for want of an event.                *)

\* What the watcher operations leave in the fields the invariants speak of.
LEMMA WatchFields ==
    ASSUME NEW w \in Watch, NEW ev \in SUBSET {"R", "W"}, NEW t \in Timer
    PROVE  /\ nce_io_reset(w, ev).active /\ nce_io_reset(w, ev).events = ev
           /\ nce_timer_feed(t).fired
           /\ ReconnectTimer(t).active
BY DEF Watch, Timer, nce_io_reset, nce_timer_feed, ReconnectTimer

Waits == NoLostWakeup /\ ReaperArmed

\* Every action preserves both invariants together; each needs the other's
\* types only, so they form one inductive invariant.
LEMMA WaitsStep == TypeOK /\ Waits /\ [Next]_vars => Waits'
<1> SUFFICES ASSUME TypeOK, Waits, [Next]_vars
             PROVE  Waits'
  OBVIOUS
<1>a. watch \in Watch /\ tm \in Timer /\ nce_timer_again(tm) \in Timer
      /\ nce_io_stop(watch) \in Watch
  BY TimerOps, WatchOps DEF TypeOK
<1>b. ASSUME NEW w \in Watch, EnterIdent(w)
      PROVE  io' = "ident" /\ watch'.active /\ "R" \in watch'.events
  BY <1>b, WatchFields, <1>a DEF EnterIdent
<1>c. ASSUME NEW t \in Timer, conn_reschedule(t)
      PROVE  io' = "idle" /\ tm'.fired
  BY <1>c, <1>a, WatchFields DEF conn_reschedule
<1>d. ASSUME NEW w \in Watch, NextEndpoint(w)
      PROVE  io' = "connect" \/ (io' = "idle" /\ tm'.fired)
  BY <1>a, <1>c, <1>d DEF NextEndpoint
<1>e. ASSUME NEW o, NEW n, conn_wait(o, n)
      PROVE  watch'.active /\ "R" \in watch'.events
  <2>1. EventsAfter(n) \in SUBSET {"R", "W"} /\ "R" \in EventsAfter(n)
    BY DEF EventsAfter
  <2> QED
    BY <1>a, <1>e, <2>1, WatchFields DEF conn_wait
<1>1. CASE conn_resolve
  BY <1>1, <1>a, <1>c DEF conn_resolve, Running, Waits, NoLostWakeup, ReaperArmed
<1>2. CASE conn_connect
  <2>1. CASE ConnectFails
    BY <2>1, <1>2, <1>a, <1>d
       DEF conn_connect, ConnectFails, Running, Waits, NoLostWakeup, ReaperArmed
  <2>2. ASSUME NEW sameFd \in BOOLEAN, ConnectInProgress(sameFd)
        PROVE  Waits'
    <3>1. watch'.active /\ "W" \in watch'.events
      BY <2>2, <1>a, WatchFields DEF ConnectInProgress
    <3> QED
      BY <2>2, <3>1, <1>2
         DEF conn_connect, ConnectInProgress, conn_socket, Running, Waits, NoLostWakeup,
             ReaperArmed
  <2>3. ASSUME NEW sameFd \in BOOLEAN, ConnectSucceeds(sameFd)
        PROVE  Waits'
    BY <2>3, <1>2, <1>a, <1>b, <1>d
       DEF conn_connect, ConnectSucceeds, conn_socket, Running, Waits, NoLostWakeup,
           ReaperArmed
  <2> QED
    BY <1>2, <2>1, <2>2, <2>3 DEF conn_connect
<1>3. CASE conn_dial
  BY <1>3, <1>a, <1>b, <1>d
     DEF conn_dial, IoTurn, Running, Waits, NoLostWakeup, ReaperArmed, envVars
<1>4. CASE conn_ident
  BY <1>4, <1>a, <1>c, <1>e
     DEF conn_ident, IoTurn, Running, Waits, NoLostWakeup, ReaperArmed
<1>5. CASE conn_ready
  BY <1>5, <1>a, <1>c, <1>e
     DEF conn_ready, IoTurn, Running, Waits, NoLostWakeup, ReaperArmed
<1>6. CASE WaitSpins \/ IoYields \/ TimerYields \/ PollEnds
  BY <1>6 DEF WaitSpins, IoYields, TimerYields, PollEnds, Waits, NoLostWakeup, ReaperArmed
<1>7. CASE conn_timer_resurrect
  BY <1>7, <1>a, WatchFields
     DEF conn_timer_resurrect, TimerTurn, Running, Waits, NoLostWakeup, ReaperArmed
<1>8. CASE conn_io_spawn
  BY <1>8 DEF conn_io_spawn, Waits, NoLostWakeup, ReaperArmed
<1>9. CASE irc_server_consumer_entry \/ conn_producer_entry
  BY <1>9 DEF irc_server_consumer_entry, conn_producer_entry, Waits, NoLostWakeup, ReaperArmed
<1>10. CASE irc__conn_push
  <2>1. {"R", "W"} \in SUBSET {"R", "W"}
    OBVIOUS
  <2> QED
    BY <1>10, <1>a, <2>1, WatchFields
       DEF irc__conn_push, Waits, NoLostWakeup, ReaperArmed
<1>11. CASE irc_server_connect
  BY <1>11 DEF irc_server_connect, Waits, NoLostWakeup, ReaperArmed
<1>12. CASE irc_server_disconnect
  BY <1>12 DEF irc_server_disconnect, Waits, NoLostWakeup, ReaperArmed
<1>13. CASE PeerMoves \/ FreedWatcherUsed
  BY <1>13 DEF PeerMoves, FreedWatcherUsed, Waits, NoLostWakeup, ReaperArmed
<1>14. CASE IoEvent
  <2>1. watch'.active = watch.active /\ watch'.events = watch.events
    BY <1>14, <1>a DEF IoEvent, Watch
  <2> QED
    BY <1>14, <2>1 DEF IoEvent, Waits, NoLostWakeup, ReaperArmed
<1>15. CASE WatchdogFires \/ DelayElapses
  <2>1. tm'.fired
    BY <1>15, <1>a DEF WatchdogFires, DelayElapses, TimerFires, Timer
  <2> QED
    BY <1>15, <2>1
       DEF WatchdogFires, DelayElapses, TimerFires, Waits, NoLostWakeup, ReaperArmed
<1>16. CASE Stopped \/ UNCHANGED vars
  BY <1>16 DEF Stopped, vars, Waits, NoLostWakeup, ReaperArmed
<1> QED
  BY <1>1, <1>2, <1>3, <1>4, <1>5, <1>6, <1>7, <1>8, <1>9, <1>10, <1>11, <1>12, <1>13,
     <1>14, <1>15, <1>16
     DEF Next, IoCoroutine, TimerCoroutine, Users, Environment

\* Both invariants hold from irc_server_new on.
LEMMA WaitsInvariant == Spec => []Waits
<1>1. Init => Waits
  BY DEF Init, Waits, NoLostWakeup, ReaperArmed
<1>2. TypeOK /\ Waits /\ [Next]_vars => Waits'
  BY WaitsStep
<1> QED
  BY <1>1, <1>2, TypeCorrect, PTL DEF Spec

\* No coroutine of a connection waits on an inactive watcher or a closed socket.
THEOREM WakeupsNotLost == Spec => []NoLostWakeup
<1>1. Waits => NoLostWakeup
  BY DEF Waits
<1> QED
  BY <1>1, WaitsInvariant, PTL

\* A connection that gave up, or is down, always has its timer pending or armed,
\* and never has two io_fd coroutines.
THEOREM ReaperAlwaysArmed == Spec => []ReaperArmed
<1>1. Waits => ReaperArmed
  BY DEF Waits
<1> QED
  BY <1>1, WaitsInvariant, PTL

-----------------------------------------------------------------------------
(* The connection implements Link.                                         *)

\* conn->state follows the point the io_fd coroutine is at, until it gives up.
IoState ==
    alive =>
        /\ io \in {"resolve", "connect", "dialing"} => state \in {"RESOLVE", "CONNECT"}
        /\ io \in {"ident", "ready"} => state \in {"IDENT", "READY"}

\* A step of the connection keeps IoState and is a step of Link, or a stutter.
LEMMA LinkStep ==
    IoState /\ ReaperArmed /\ [Next]_vars => IoState' /\ [Abstract!Next]_LinkOf
<1> SUFFICES ASSUME IoState, ReaperArmed, [Next]_vars
             PROVE  IoState' /\ [Abstract!Next]_LinkOf
  OBVIOUS
<1> USE DEF IoState, LinkOf, irc__conn_ready, Abstract!Next
<1>1. CASE conn_resolve
  BY <1>1 DEF conn_resolve, Running, conn_reschedule, envVars
<1>2. CASE conn_connect
  <2>1. CASE ConnectFails
    BY <2>1, <1>2 DEF conn_connect, ConnectFails, NextEndpoint, conn_reschedule, Running
  <2>2. ASSUME NEW sameFd \in BOOLEAN, ConnectInProgress(sameFd)
        PROVE  IoState' /\ [Abstract!Next]_LinkOf
    BY <2>2, <1>2
       DEF conn_connect, ConnectInProgress, conn_socket, Running, Abstract!Abort
  <2>3. ASSUME NEW sameFd \in BOOLEAN, ConnectSucceeds(sameFd)
        PROVE  IoState' /\ [Abstract!Next]_LinkOf
    BY <2>3, <1>2
       DEF conn_connect, ConnectSucceeds, conn_socket, EnterIdent, NextEndpoint,
           conn_reschedule, Running, Abstract!Abort, Abstract!Establish
  <2> QED
    BY <1>2, <2>1, <2>2, <2>3 DEF conn_connect
<1>3. CASE conn_dial
  BY <1>3 DEF conn_dial, IoTurn, Running, EnterIdent, NextEndpoint, conn_reschedule,
              envVars, Abstract!Establish
<1>4. CASE conn_ident
  BY <1>4 DEF conn_ident, IoTurn, Running, conn_reschedule, envVars, Abstract!Fail
<1>5. CASE conn_ready
  BY <1>5 DEF conn_ready, IoTurn, Running, conn_reschedule, envVars, Abstract!Fail
<1>6. CASE WaitSpins \/ FreedWatcherUsed \/ irc__conn_push \/ irc_server_consumer_entry
  <2>1. UNCHANGED <<alive, state, io>>
    BY <1>6 DEF WaitSpins, FreedWatcherUsed, irc__conn_push, irc_server_consumer_entry
  <2>2. proc' = proc \/ proc' # "run"
    BY <1>6 DEF WaitSpins, FreedWatcherUsed, irc__conn_push, irc_server_consumer_entry,
                ConsumerTurn, Running
  <2> QED
    BY <2>1, <2>2 DEF Abstract!Abort
<1>7. CASE IoYields \/ TimerYields \/ PollEnds \/ PeerMoves \/ IoEvent
  BY <1>7 DEF IoYields, TimerYields, PollEnds, PeerMoves, IoEvent, envVars
<1>8. CASE conn_producer_entry \/ WatchdogFires \/ DelayElapses
  BY <1>8 DEF conn_producer_entry, WatchdogFires, DelayElapses, TimerFires, envVars
<1>9. CASE conn_timer_resurrect
  BY <1>9 DEF conn_timer_resurrect, TimerTurn, Running, Abstract!Fail
<1>10. CASE conn_io_spawn
  BY <1>10 DEF conn_io_spawn, TimerTurn, Running, envVars, ReaperArmed,
               Abstract!Retry
<1>11. CASE irc_server_connect
  BY <1>11 DEF irc_server_connect, Abstract!Connect
<1>12. CASE irc_server_disconnect
  BY <1>12 DEF irc_server_disconnect, Running, Abstract!Disconnect
<1>13. CASE Stopped \/ UNCHANGED vars
  BY <1>13 DEF Stopped, vars
<1> QED
  BY <1>1, <1>2, <1>3, <1>4, <1>5, <1>6, <1>7, <1>8, <1>9, <1>10, <1>11, <1>12, <1>13
     DEF Next, IoCoroutine, TimerCoroutine, Users, Environment

\* conn.c, as modelled, implements what a server relies on: a connection is up
\* only after it was down, and after a failure it passes through the delay.
THEOREM ConnImplementsLink == Spec => ImplementsLink
<1>1. Init => IoState /\ Abstract!Init
  BY DEF Init, IoState, Abstract!Init, LinkOf
<1>2. IoState /\ ReaperArmed /\ [Next]_vars => IoState' /\ [Abstract!Next]_LinkOf
  BY LinkStep
<1> QED
  BY <1>1, <1>2, ReaperAlwaysArmed, PTL DEF Spec, ImplementsLink, Abstract!Spec

-----------------------------------------------------------------------------
(* The order of what is received.                                          *)

Lost(l) == l.kind = "lost"
Ours(b) == \A i \in 1..Len(b) : b[i].from = {"cur"}
InOrder(b) == \A i, j \in 1..Len(b) : i < j /\ "cur" \in b[i].from => b[j].from = {"cur"}

\* Of the pipe, the message that the producer stored and the lines behind it.
Sessions ==
    /\ InOrder(inbuf)
    /\ stored # <<>> /\ "cur" \in stored[1].from => Ours(inbuf)

\* A loss waits where it was put, alone in the input, until the pass is at the
\* producer; from then on it is the stored message, which the consumer takes in
\* the next pass at the latest.  The io_fd coroutine is gone or going until the
\* loss is stored, so that no other loss can be found.
LossPlace ==
    /\ turn = "producer" => stored = <<>>
    /\ \A i \in 1..Len(inbuf) : Lost(inbuf[i]) =>
          /\ inbuf = LostInput
          /\ stored # <<>> => ~Lost(stored[1])
          /\ \/ io = "idle" /\ turn = "timer"
             \/ io = "none" /\ turn \in {"consumer", "producer"}
    /\ stored # <<>> /\ Lost(stored[1]) =>
          \/ io = "none" /\ turn \in {"poll", "io", "timer"}
          \/ turn = "consumer"
    /\ owed <=> (stored # <<>> /\ Lost(stored[1])) \/ inbuf = LostInput

Received == Sessions /\ LossPlace

\* conn_recv adds at the end, and what it adds is of the present session.
LEMMA ReceivedOrder ==
    ASSUME NEW b \in Seq(Line), NEW o \in RecvOutcomes, InOrder(b)
    PROVE  /\ InOrder(InAfter(b, o))
           /\ Ours(b) => Ours(InAfter(b, o))
           /\ (\A i \in 1..Len(b) : ~Lost(b[i])) =>
                 /\ \A i \in 1..Len(InAfter(b, o)) : ~Lost(InAfter(b, o)[i])
                 /\ InAfter(b, o) # LostInput
<1> DEFINE kind == IF o = "bad" THEN "bad" ELSE "irc"
           l == [from |-> {"cur"}, end |-> o # "part", kind |-> kind]
           a == InAfter(b, o)
<1>0. Len(b) \in Nat /\ DOMAIN b = 1..Len(b) /\ kind # "lost"
  BY LenProperties
<1>1. CASE o \notin Chunks
  <2>1. a = b
    BY <1>1 DEF InAfter
  <2> QED
    BY <2>1 DEF LostInput, Lost
<1>2. CASE o \in Chunks /\ Partial(b)
  <2>1. Len(b) \in 1..Len(b)
    BY <1>0, <1>2 DEF Partial
  <2>2. a = [b EXCEPT ![Len(b)] = [l EXCEPT !.from = {"cur"} \cup Last(b).from]]
    BY <1>2 DEF InAfter
  <2>3. /\ [l EXCEPT !.from = {"cur"} \cup Last(b).from].from = {"cur"} \cup b[Len(b)].from
        /\ [l EXCEPT !.from = {"cur"} \cup Last(b).from].kind = kind
    BY DEF Last
  <2>4. /\ a \in Seq(Line) /\ DOMAIN a = DOMAIN b
        /\ \A i \in 1..Len(b) : i # Len(b) => a[i] = b[i]
        /\ a[Len(b)] = [l EXCEPT !.from = {"cur"} \cup Last(b).from]
    BY <1>0, <2>1, <2>2, InAfterType
  <2>5. Len(a) = Len(b)
    BY <1>0, <2>4, LenProperties
  <2>6. a[Len(b)].from = {"cur"} \cup b[Len(b)].from /\ ~Lost(a[Len(b)])
    BY <1>0, <2>3, <2>4 DEF Lost
  <2> HIDE DEF a, l, kind
  <2>7. \A i \in 1..Len(b) : i = Len(b) \/ (i < Len(b) /\ a[i] = b[i])
    BY <1>0, <2>4
  <2>8. InOrder(a)
    <3> SUFFICES ASSUME NEW i \in 1..Len(a), NEW j \in 1..Len(a), i < j, "cur" \in a[i].from
                 PROVE  a[j].from = {"cur"}
      BY DEF InOrder
    <3>a. i \in 1..Len(b) /\ j \in 1..Len(b)
      BY <2>5
    <3>b. Len(b) \in Nat
      BY <1>0
    <3>0. i \in 1..Len(b) /\ j \in 1..Len(b) /\ i # Len(b)
      BY <3>a, <3>b
    <3>1. a[i] = b[i] /\ i < j /\ i \in 1..Len(b) /\ j \in 1..Len(b)
      BY <2>7, <3>0
    <3>2. b[j].from = {"cur"}
      BY <3>1 DEF InOrder
    <3> QED
      BY <2>6, <2>7, <3>1, <3>2
  <2>9. Ours(b) => Ours(a)
    BY <2>1, <2>5, <2>6, <2>7 DEF Ours
  <2>10. (\A i \in 1..Len(b) : ~Lost(b[i])) => \A i \in 1..Len(a) : ~Lost(a[i])
    BY <2>5, <2>6, <2>7
  <2>11. (\A i \in 1..Len(a) : ~Lost(a[i])) => a # LostInput
    <3>1. LostInput[1].kind = "lost" /\ 1 \in 1..Len(LostInput)
      BY DEF LostInput
    <3> QED
      BY <3>1 DEF Lost
  <2> QED
    BY <2>8, <2>9, <2>10, <2>11 DEF a
<1>3. CASE o \in Chunks /\ ~Partial(b)
  <2>1. a = Append(b, l)
    BY <1>3 DEF InAfter
  <2>2. Len(a) = Len(b) + 1 /\ (\A i \in 1..Len(b) : a[i] = b[i]) /\ a[Len(b) + 1] = l
    BY <1>0, <2>1
  <2>3. a[Len(b) + 1].from = {"cur"} /\ ~Lost(a[Len(b) + 1])
    BY <1>0, <2>2 DEF Lost
  <2> HIDE DEF a, l, kind
  <2>4. \A i \in 1..Len(a) : i = Len(b) + 1 \/ (i \in 1..Len(b) /\ i < Len(b) + 1 /\ a[i] = b[i])
    BY <1>0, <2>2
  <2>5. InOrder(a)
    BY <1>0, <2>2, <2>3, <2>4 DEF InOrder
  <2>6. Ours(b) => Ours(a)
    BY <2>3, <2>4 DEF Ours
  <2>7. (\A i \in 1..Len(b) : ~Lost(b[i])) => \A i \in 1..Len(a) : ~Lost(a[i])
    BY <2>3, <2>4
  <2>8. (\A i \in 1..Len(a) : ~Lost(a[i])) => a # LostInput
    <3>1. LostInput[1].kind = "lost" /\ 1 \in 1..Len(LostInput)
      BY DEF LostInput
    <3> QED
      BY <3>1 DEF Lost
  <2> QED
    BY <2>5, <2>6, <2>7, <2>8 DEF a
<1> QED
  BY <1>1, <1>2, <1>3

\* Taking the first line of the input leaves the rest in order.
LEMMA TakenOrder ==
    ASSUME NEW b \in Seq(Line), b # <<>>, InOrder(b)
    PROVE  /\ Tail(b) \in Seq(Line) /\ Len(Tail(b)) = Len(b) - 1
           /\ \A i \in 1..Len(Tail(b)) : Tail(b)[i] = b[i + 1] /\ i + 1 \in 1..Len(b)
           /\ InOrder(Tail(b))
           /\ "cur" \in b[1].from => Ours(Tail(b))
<1>1. /\ Tail(b) \in Seq(Line) /\ Len(Tail(b)) = Len(b) - 1 /\ Len(b) \in Nat \ {0}
      /\ \A i \in 1..Len(Tail(b)) : Tail(b)[i] = b[i + 1] /\ i + 1 \in 1..Len(b)
  BY LenProperties
<1>2. InOrder(Tail(b))
  BY <1>1 DEF InOrder
<1>3. "cur" \in b[1].from => Ours(Tail(b))
  BY <1>1 DEF InOrder, Ours
<1> QED
  BY <1>1, <1>2, <1>3

\* Every action keeps the order of the input and the place of a loss.
LEMMA ReceivedStep == TypeOK /\ ReaperArmed /\ Received /\ [Next]_vars => Received'
<1> SUFFICES ASSUME TypeOK, ReaperArmed, Received, [Next]_vars
             PROVE  Received'
  OBVIOUS
<1>a. inbuf \in Seq(Line) /\ stored \in Seq(Line) /\ Len(stored) <= 1
  BY DEF TypeOK
<1>b. /\ InOrder(LostInput) /\ Ours(LostInput) /\ Len(LostInput) = 1 /\ LostInput # <<>>
      /\ LostInput[1] = [from |-> {"cur"}, end |-> TRUE, kind |-> "lost"]
  BY DEF InOrder, Ours, LostInput
<1>c. inbuf = LostInput <=> \E i \in 1..Len(inbuf) : Lost(inbuf[i])
  BY <1>b DEF Received, LossPlace, Lost
<1>d. ASSUME UNCHANGED <<inbuf, stored>>
      PROVE  Sessions'
  BY <1>d DEF Received, Sessions
<1>e. ASSUME NEW o \in RecvOutcomes, inbuf' = InAfter(inbuf, o), stored' = stored
      PROVE  Sessions'
  BY <1>a, <1>e, ReceivedOrder DEF Received, Sessions
<1>f. ASSUME turn = "io", io \notin {"idle", "none"}
      PROVE  /\ \A i \in 1..Len(inbuf) : ~Lost(inbuf[i])
             /\ inbuf # LostInput /\ ~owed
             /\ stored # <<>> => ~Lost(stored[1])
  BY <1>c, <1>f DEF Received, LossPlace, TypeOK
<1>g. ASSUME turn = "io", io \notin {"idle", "none"}, NEW o \in RecvOutcomes,
             inbuf' = InAfter(inbuf, o), UNCHANGED <<stored, owed>>, turn' = "timer"
      PROVE  LossPlace'
  <2>1. (\A i \in 1..Len(inbuf') : ~Lost(inbuf'[i])) /\ inbuf' # LostInput
    BY <1>a, <1>f, <1>g, ReceivedOrder DEF Received, Sessions
  <2> QED
    BY <1>f, <1>g, <2>1 DEF LossPlace
<1>h. ASSUME turn = "io", io \notin {"idle", "none"}, UNCHANGED <<inbuf, stored, owed>>,
             turn' = "timer"
      PROVE  LossPlace'
  BY <1>f, <1>h DEF LossPlace
<1>i. ASSUME io \in {"resolve", "connect"}, io' \notin {"none"}, UNCHANGED <<inbuf, stored, owed, turn>>
      PROVE  LossPlace'
  <2>1. \A i \in 1..Len(inbuf) : ~Lost(inbuf[i])
    BY <1>i DEF Received, LossPlace
  <2>2. stored # <<>> /\ Lost(stored[1]) => turn = "consumer"
    BY <1>i DEF Received, LossPlace
  <2> QED
    BY <1>i, <2>1, <2>2 DEF LossPlace, Received
<1>1. CASE conn_resolve
  BY <1>1, <1>d, <1>i DEF conn_resolve, conn_reschedule, bufVars, Received
<1>2. CASE conn_connect
  <2>1. io = "connect" /\ UNCHANGED <<inbuf, stored, owed, turn>>
    BY <1>2 DEF conn_connect
  <2>2. io' # "none"
    BY <1>2 DEF conn_connect, ConnectFails, ConnectInProgress, ConnectSucceeds, EnterIdent,
       NextEndpoint, conn_reschedule
  <2> QED
    BY <1>d, <1>i, <2>1, <2>2 DEF Received
<1>3. CASE conn_dial
  BY <1>3, <1>d, <1>h DEF conn_dial, IoTurn, Received
<1>4. CASE conn_ident
  <2>1. turn = "io" /\ turn' = "timer" /\ io = "ident" /\ UNCHANGED <<stored, owed>>
    BY <1>4 DEF conn_ident, IoTurn
  <2>2. (\E o \in RecvOutcomes : inbuf' = InAfter(inbuf, o)) \/ inbuf' = inbuf
    BY <1>4 DEF conn_ident, conn_wait
  <2> QED
    BY <1>d, <1>e, <1>g, <1>h, <2>1, <2>2 DEF Received
<1>5. CASE conn_ready
  <2>1. turn = "io" /\ turn' = "timer" /\ io = "ready" /\ UNCHANGED stored
    BY <1>5 DEF conn_ready, IoTurn
  <2>2. CASE owed' = owed /\ \E o \in RecvOutcomes : inbuf' = InAfter(inbuf, o)
    BY <1>e, <1>g, <2>1, <2>2 DEF Received
  <2>3. CASE inbuf' = LostInput /\ owed' = TRUE /\ io' = "idle"
    <3>1. Sessions'
      BY <1>b, <2>1, <2>3 DEF Sessions
    <3>2. stored' # <<>> => ~Lost(stored'[1])
      BY <1>f, <2>1
    <3>3. LossPlace'
      BY <2>1, <2>3, <3>2 DEF LossPlace
    <3> QED
      BY <3>1, <3>3 DEF Received
  <2> QED
    BY <1>5, <2>2, <2>3 DEF conn_ready, conn_wait, conn_reschedule
<1>6. CASE WaitSpins
  BY <1>6, <1>e, <1>g DEF WaitSpins, IoTurn, Received
<1>7. CASE IoYields
  <2>1. /\ turn = "io" /\ turn' = "timer" /\ UNCHANGED <<io, inbuf, stored, owed>>
    BY <1>7 DEF IoYields, IoTurn, bufVars
  <2>2. LossPlace'
    BY <2>1 DEF Received, LossPlace
  <2> QED
    BY <1>d, <2>1, <2>2 DEF Received
<1>8. CASE conn_timer_resurrect
  <2>1. turn = "timer" /\ turn' = "consumer" /\ io' = "none" /\ UNCHANGED <<inbuf, stored, owed>>
    BY <1>8 DEF conn_timer_resurrect, TimerTurn, bufVars
  <2>2. LossPlace'
    BY <2>1 DEF Received, LossPlace
  <2> QED
    BY <1>d, <2>1, <2>2 DEF Received
<1>9. CASE conn_io_spawn
  <2> DEFINE aged(b) == [i \in DOMAIN b |-> OldLine(b[i])]
  <2>1. /\ turn = "timer" /\ turn' = "consumer" /\ io = "none" /\ owed' = owed
        /\ inbuf' = aged(inbuf) /\ stored' = aged(stored)
    BY <1>9 DEF conn_io_spawn, TimerTurn, Running, ReaperArmed
  <2>2. \A i \in 1..Len(inbuf) : ~Lost(inbuf[i])
    BY <2>1 DEF Received, LossPlace
  <2>3. /\ Len(inbuf') = Len(inbuf) /\ Len(stored') = Len(stored)
        /\ inbuf' \in Seq(Line) /\ stored' \in Seq(Line)
    BY <1>a, <2>1, OldLines
  <2>4. \A l \in Line : OldLine(l).from = {"old"} /\ (Lost(OldLine(l)) <=> Lost(l))
    BY DEF Line, OldLine, Lost
  <2>5. \A i \in 1..Len(inbuf) : inbuf'[i].from = {"old"} /\ ~Lost(inbuf'[i])
    <3>1. \A i \in 1..Len(inbuf) : inbuf'[i] = OldLine(inbuf[i]) /\ inbuf[i] \in Line
      BY <1>a, <2>1, LenProperties
    <3> QED
      BY <2>2, <2>4, <3>1
  <2>6. stored # <<>> => stored'[1].from = {"old"} /\ (Lost(stored'[1]) <=> Lost(stored[1]))
    <3>1. stored # <<>> => stored'[1] = OldLine(stored[1]) /\ stored[1] \in Line
      BY <1>a, <2>1, LenProperties
    <3> QED
      BY <2>4, <3>1
  <2>7. stored' = <<>> <=> stored = <<>>
    BY <1>a, <2>3, EmptySeq
  <2>8. inbuf # LostInput /\ inbuf' # LostInput
    <3>1. inbuf # LostInput
      BY <1>c, <2>2
    <3>2. ASSUME inbuf' = LostInput PROVE FALSE
      <4>1. 1 \in 1..Len(inbuf) /\ Lost(inbuf'[1])
        BY <1>b, <2>3, <3>2 DEF Lost
      <4> QED
        BY <2>5, <4>1
    <3> QED
      BY <3>1, <3>2
  <2>9. Sessions'
    BY <2>3, <2>5, <2>6, <2>7 DEF Sessions, InOrder
  <2>10. LossPlace'
    BY <2>1, <2>3, <2>5, <2>6, <2>7, <2>8 DEF LossPlace, Received
  <2> QED
    BY <2>9, <2>10 DEF Received
<1>10. CASE TimerYields
  <2>1. /\ turn = "timer" /\ turn' = "consumer" /\ ~tm.fired /\ alive
        /\ UNCHANGED <<io, inbuf, stored, owed>>
    BY <1>10 DEF TimerYields, TimerTurn, Running, bufVars
  <2>2. io # "idle"
    BY <2>1 DEF ReaperArmed
  <2>3. LossPlace'
    BY <2>1, <2>2 DEF Received, LossPlace
  <2> QED
    BY <1>d, <2>1, <2>3 DEF Received
<1>11. CASE irc_server_consumer_entry
  <2>1. /\ turn = "consumer" /\ turn' = "producer" /\ stored' = <<>> /\ UNCHANGED <<inbuf, io>>
        /\ owed' = (owed /\ (stored = <<>> \/ stored[1].kind # "lost"))
    BY <1>11 DEF irc_server_consumer_entry, ConsumerTurn
  <2>2. Sessions'
    BY <2>1 DEF Received, Sessions
  <2>3. owed' <=> inbuf = LostInput
    BY <1>c, <2>1 DEF Received, LossPlace, Lost
  <2>4. LossPlace'
    BY <2>1, <2>3 DEF Received, LossPlace
  <2> QED
    BY <2>2, <2>4 DEF Received
<1>12. CASE conn_producer_entry
  <2>1. turn = "producer" /\ turn' = "poll" /\ stored = <<>> /\ UNCHANGED <<io, owed>>
    BY <1>12 DEF conn_producer_entry, ProducerTurn, Received, LossPlace
  <2>2. CASE UNCHANGED <<stored, inbuf>> /\ ~HasLine(inbuf)
    <3>1. inbuf # LostInput
      BY <1>b, <2>2 DEF HasLine
    <3>2. LossPlace'
      BY <1>c, <2>1, <2>2, <3>1 DEF Received, LossPlace
    <3> QED
      BY <1>d, <2>2, <3>2 DEF Received
  <2>3. CASE HasLine(inbuf) /\ stored' = <<conn_next(inbuf[1])>> /\ inbuf' = Tail(inbuf)
    <3>1. inbuf # <<>> /\ InOrder(inbuf)
      BY <2>3 DEF HasLine, Received, Sessions
    <3>2. inbuf[1] \in Line /\ 1 \in 1..Len(inbuf)
      BY <1>a, <3>1
    <3>3. /\ conn_next(inbuf[1]).from = inbuf[1].from
          /\ Lost(conn_next(inbuf[1])) <=> Lost(inbuf[1])
      BY <3>2 DEF conn_next, Lost, Line
    <3>4. stored' # <<>> /\ stored'[1] = conn_next(inbuf[1])
      BY <2>3
    <3>5. Sessions'
      BY <1>a, <2>3, <3>1, <3>3, <3>4, TakenOrder DEF Sessions
    <3>6. \A i \in 1..Len(inbuf') : ~Lost(inbuf'[i])
      <4>1. CASE inbuf = LostInput
        <5>1. Len(inbuf') = 0
          BY <1>a, <1>b, <2>3, <3>1, <4>1, TakenOrder
        <5> QED
          BY <5>1
      <4>2. CASE inbuf # LostInput
        BY <1>a, <1>c, <2>3, <3>1, <4>2, TakenOrder
      <4> QED
        BY <4>1, <4>2
    <3>7. inbuf' # LostInput
      BY <1>b, <3>6 DEF Lost
    <3>8. inbuf = LostInput <=> Lost(inbuf[1])
      BY <1>b, <1>c, <3>2 DEF Lost
    <3>9. io = "none" \/ inbuf # LostInput
      BY <1>c, <2>1 DEF Received, LossPlace
    <3>10. owed' <=> inbuf = LostInput
      BY <2>1 DEF Received, LossPlace
    <3>11. LossPlace'
      BY <2>1, <3>3, <3>4, <3>6, <3>7, <3>8, <3>9, <3>10 DEF LossPlace
    <3> QED
      BY <3>5, <3>11 DEF Received
  <2> QED
    BY <1>12, <2>1, <2>2, <2>3 DEF conn_producer_entry
<1>13. CASE UNCHANGED <<inbuf, stored, owed, io, turn>>
  <2>1. LossPlace'
    BY <1>13 DEF Received, LossPlace
  <2> QED
    BY <1>d, <1>13, <2>1 DEF Received
<1>14. CASE irc_server_connect \/ irc_server_disconnect
  <2>1. inbuf' = <<>> /\ stored' = <<>> /\ owed' = FALSE
    BY <1>14 DEF irc_server_connect, irc_server_disconnect
  <2>2. Len(inbuf') = 0 /\ inbuf' # LostInput
    BY <1>b, <2>1
  <2> QED
    BY <2>1, <2>2 DEF Received, Sessions, LossPlace, InOrder
<1>15. CASE PollEnds
  <2>1. turn = "poll" /\ turn' = "io" /\ UNCHANGED <<io, inbuf, stored, owed>>
    BY <1>15 DEF PollEnds, Polling, bufVars
  <2>2. LossPlace'
    BY <2>1 DEF Received, LossPlace
  <2> QED
    BY <1>d, <2>1, <2>2 DEF Received
<1>16. CASE irc__conn_push
  BY <1>13, <1>16 DEF irc__conn_push
<1>17. CASE PeerMoves \/ IoEvent \/ WatchdogFires \/ DelayElapses \/ FreedWatcherUsed
  BY <1>13, <1>17 DEF PeerMoves, IoEvent, WatchdogFires, DelayElapses, TimerFires,
     FreedWatcherUsed, bufVars
<1>18. CASE Stopped \/ UNCHANGED vars
  BY <1>13, <1>18 DEF Stopped, vars
<1> QED
  BY <1>1, <1>2, <1>3, <1>4, <1>5, <1>6, <1>7, <1>8, <1>9, <1>10, <1>11, <1>12, <1>14,
     <1>15, <1>16, <1>17, <1>18
     DEF Next, IoCoroutine, TimerCoroutine, Users, Environment

\* The order of the two parts of the pipe is the order of the pipe, and there
\* is one loss in it when one is owed.
LEMMA ReceivedPipe == TypeOK /\ Received => InputOrdered
<1> SUFFICES ASSUME TypeOK, Received PROVE InputOrdered
  OBVIOUS
<1>1. /\ stored \in Seq(Line) /\ inbuf \in Seq(Line) /\ Len(inbuf) \in Nat
      /\ Len(stored) \in {0, 1} /\ (Len(stored) = 0 <=> stored = <<>>)
  <2>1. stored \in Seq(Line) /\ inbuf \in Seq(Line) /\ Len(stored) <= 1
    BY DEF TypeOK
  <2>2. Len(stored) \in Nat /\ Len(inbuf) \in Nat
    BY <2>1, LenProperties
  <2>3. Len(stored) \in {0, 1}
    <3>1. \A n \in Nat : n <= 1 => n \in {0, 1}
      OBVIOUS
    <3> QED
      BY <2>1, <2>2, <3>1
  <2> QED
    BY <2>1, <2>2, <2>3, EmptySeq
<1>2. /\ Len(Pipe) = Len(stored) + Len(inbuf)
      /\ \A i \in 1..Len(Pipe) : \/ i <= Len(stored) /\ Pipe[i] = stored[i]
                                 \/ i > Len(stored) /\ Pipe[i] = inbuf[i - Len(stored)]
  BY <1>1, ConcatProperties DEF Pipe
<1> DEFINE losses == {i \in 1..Len(Pipe) : Pipe[i].kind = "lost"}
<1>3. \A i, j \in 1..Len(Pipe) : i < j /\ "cur" \in Pipe[i].from => Pipe[j].from = {"cur"}
  <2> SUFFICES ASSUME NEW i \in 1..Len(Pipe), NEW j \in 1..Len(Pipe), i < j, "cur" \in Pipe[i].from
               PROVE  Pipe[j].from = {"cur"}
    OBVIOUS
  <2>1. j > Len(stored) /\ j - Len(stored) \in 1..Len(inbuf) /\ Pipe[j] = inbuf[j - Len(stored)]
    BY <1>1, <1>2
  <2>2. CASE i <= Len(stored)
    <3>1. i = 1 /\ stored # <<>> /\ Pipe[i] = stored[1]
      BY <1>1, <1>2, <2>2, SMTT(30)
    <3> QED
      BY <2>1, <3>1 DEF Received, Sessions, Ours
  <2>3. CASE i > Len(stored)
    <3>1. i - Len(stored) \in 1..Len(inbuf) /\ Pipe[i] = inbuf[i - Len(stored)]
          /\ i - Len(stored) < j - Len(stored)
      BY <1>1, <1>2, <2>3
    <3> QED
      BY <2>1, <3>1 DEF Received, Sessions, InOrder
  <2> QED
    BY <1>1, <2>2, <2>3
<1>4. Len(LostInput) = 1 /\ LostInput[1].kind = "lost"
  BY DEF LostInput
<1>5. \A i \in losses : \/ i = 1 /\ Len(stored) = 1 /\ stored[1].kind = "lost"
                        \/ i = Len(stored) + 1 /\ inbuf = LostInput /\ (stored # <<>> => stored[1].kind # "lost")
  <2> SUFFICES ASSUME NEW i \in 1..Len(Pipe), Pipe[i].kind = "lost"
               PROVE  \/ i = 1 /\ Len(stored) = 1 /\ stored[1].kind = "lost"
                      \/ i = Len(stored) + 1 /\ inbuf = LostInput /\ (stored # <<>> => stored[1].kind # "lost")
    OBVIOUS
  <2>1. CASE i <= Len(stored)
    BY <1>1, <1>2, <2>1
  <2>2. CASE i > Len(stored)
    <3>1. i - Len(stored) \in 1..Len(inbuf) /\ Lost(inbuf[i - Len(stored)])
      BY <1>1, <1>2, <2>2 DEF Lost
    <3>2. inbuf = LostInput /\ (stored # <<>> => stored[1].kind # "lost")
      BY <3>1 DEF Received, LossPlace, Lost
    <3>a. Len(inbuf) = 1
      BY <1>4, <3>2
    <3>3. i - Len(stored) = 1
      BY <1>1, <3>1, <3>a
    <3> QED
      BY <1>1, <3>2, <3>3
  <2> QED
    BY <1>1, <2>1, <2>2
<1>6. owed => losses # {}
  <2>1. CASE stored # <<>> /\ Lost(stored[1])
    <3>1. 1 \in 1..Len(Pipe) /\ Pipe[1] = stored[1]
      BY <1>1, <1>2, <2>1
    <3> QED
      BY <2>1, <3>1 DEF Lost
  <2>2. CASE inbuf = LostInput
    <3>a. Len(inbuf) = 1
      BY <1>4, <2>2
    <3>b. Len(Pipe) = Len(stored) + 1 /\ Len(stored) + 1 \in 1..Len(Pipe)
      BY <1>1, <1>2, <3>a
    <3>1. Len(stored) + 1 \in 1..Len(Pipe) /\ Pipe[Len(stored) + 1] = inbuf[1]
      BY <1>1, <1>2, <3>b
    <3> QED
      BY <1>4, <2>2, <3>1
  <2> QED
    BY <2>1, <2>2 DEF Received, LossPlace
<1>7. losses # {} => owed
  <2>1. ASSUME NEW i \in losses PROVE owed
    BY <1>1, <1>5, <2>1 DEF Received, LossPlace, Lost
  <2> QED
    BY <2>1
<1>8. \A i, j \in losses : i = j
  BY <1>1, <1>5
<1> QED
  BY <1>3, <1>6, <1>7, <1>8 DEF InputOrdered

\* Messages reach the consumer in the order of the sessions they come from, and
\* the loss that conn_ready found exactly once, behind everything received
\* before it and never overwritten.
THEOREM InputAlwaysOrdered == Spec => []InputOrdered
<1>1. Init => Received
  <2> SUFFICES ASSUME Init PROVE Received
    OBVIOUS
  <2>1. inbuf = <<>> /\ stored = <<>> /\ owed = FALSE /\ turn = "poll"
    BY DEF Init
  <2>2. Len(inbuf) = 0 /\ inbuf # LostInput
    BY <2>1 DEF LostInput
  <2> QED
    BY <2>1, <2>2 DEF Received, Sessions, LossPlace, InOrder
<1>2. TypeOK /\ ReaperArmed /\ Received /\ [Next]_vars => Received'
  BY ReceivedStep
<1>3. TypeOK /\ Received => InputOrdered
  BY ReceivedPipe
<1> QED
  BY <1>1, <1>2, <1>3, TypeCorrect, ReaperAlwaysArmed, PTL DEF Spec

-----------------------------------------------------------------------------
(* The order of what is sent.                                              *)

OutOrder(b) ==
    \A i, j \in 1..Len(b) : i < j /\ b[i].from = "cur" =>
        b[j].from = "cur" /\ (b[i].kind = "app" => b[j].kind = "app")

Theirs(b) == \A i \in 1..Len(b) : b[i].from = "old"

\* Until the handshake there is nothing of the present session to send, which
\* is what makes the handshake come first.
Sent ==
    /\ OutOrder(outbuf)
    /\ io \in {"resolve", "connect", "dialing"} => state \in {"RESOLVE", "CONNECT"}
    /\ state \in {"RESOLVE", "CONNECT"} => Theirs(outbuf)

\* What is left after a part was sent is in order.
LEMMA SentOrder ==
    ASSUME NEW b \in Seq(Output), NEW n \in 0..Len(b), OutOrder(b)
    PROVE  LET c == SubSeq(b, n + 1, Len(b)) IN OutOrder(c) /\ (Theirs(b) => Theirs(c))
<1> DEFINE c == SubSeq(b, n + 1, Len(b))
<1>1. Len(b) \in Nat /\ \A i \in n+1..Len(b) : b[i] \in Output
  BY LenProperties
<1>2. Len(c) = Len(b) - n /\ \A i \in 1..Len(c) : c[i] = b[n + i]
  <2>1. /\ Len(SubSeq(b, n + 1, Len(b))) =
              IF n + 1 <= Len(b) THEN Len(b) - (n + 1) + 1 ELSE 0
        /\ \A i \in 1..(Len(b) - (n + 1) + 1) : SubSeq(b, n + 1, Len(b))[i] = b[(n + 1) + i - 1]
    BY <1>1, SubSeqProperties
  <2> QED
    BY <1>1, <2>1
<1>3. \A i \in 1..Len(c) : n + i \in 1..Len(b) /\ c[i] = b[n + i]
  BY <1>1, <1>2
<1> HIDE DEF c
<1>4. \A i, j \in 1..Len(c) : i < j => n + i < n + j
  BY <1>1, <1>2
<1>5. OutOrder(c)
  BY <1>3, <1>4, SMTT(30) DEF OutOrder
<1>6. Theirs(b) => Theirs(c)
  BY <1>3 DEF Theirs
<1> QED
  BY <1>5, <1>6 DEF c

\* The handshake goes behind the lines of earlier sessions.
LEMMA HandshakeOrder ==
    ASSUME NEW b \in Seq(Output), Len(b) <= OutCap, Theirs(b)
    PROVE  OutOrder(PushHandshake(b))
<1> DEFINE room == OutCap - Len(b)
           n == IF room < NHandshake THEN room ELSE NHandshake
           h == [i \in 1..n |-> [from |-> "cur", kind |-> "hs"]]
<1>1. n \in Nat /\ Len(b) \in Nat
  BY ConnAssumption
<1>2. h \in Seq(Output) /\ Len(h) = n /\ \A i \in 1..n : h[i] = [from |-> "cur", kind |-> "hs"]
  <2>1. \A i \in 1..n : [from |-> "cur", kind |-> "hs"] \in Output
    BY DEF Output
  <2>2. h \in [1..n -> Output]
    BY <2>1
  <2>3. h \in Seq(Output)
    BY <1>1, <2>2, SeqDef
  <2> QED
    BY <1>1, <2>2, <2>3, LenProperties
<1>3. PushHandshake(b) = b \o h
  BY DEF PushHandshake
<1> HIDE DEF h, n
<1>4. /\ Len(b \o h) = Len(b) + n
      /\ \A i \in 1..Len(b \o h) : \/ i <= Len(b) /\ (b \o h)[i] = b[i]
                                   \/ i > Len(b) /\ (b \o h)[i] = h[i - Len(b)] /\ i - Len(b) \in 1..n
  <2>1. Len(h) = n /\ h \in Seq(Output)
    BY <1>2
  <2>2. /\ Len(b \o h) = Len(b) + n
        /\ \A i \in 1..(Len(b) + n) : (b \o h)[i] = IF i <= Len(b) THEN b[i] ELSE h[i - Len(b)]
    BY <2>1, ConcatProperties
  <2>3. \A i \in 1..(Len(b) + n) : i <= Len(b) \/ (i > Len(b) /\ i - Len(b) \in 1..n)
    BY <1>1
  <2> QED
    BY <1>1, <2>2, <2>3
<1>5. \A i \in 1..Len(b \o h) : \/ i <= Len(b) /\ (b \o h)[i].from = "old"
                                \/ i > Len(b) /\ (b \o h)[i] = [from |-> "cur", kind |-> "hs"]
  BY <1>1, <1>2, <1>4 DEF Theirs
<1>6. OutOrder(b \o h)
  <2> SUFFICES ASSUME NEW i \in 1..Len(b \o h), NEW j \in 1..Len(b \o h), i < j,
                      (b \o h)[i].from = "cur"
               PROVE  /\ (b \o h)[j].from = "cur"
                      /\ (b \o h)[i].kind = "app" => (b \o h)[j].kind = "app"
    BY DEF OutOrder
  <2>1. i > Len(b) /\ (b \o h)[i] = [from |-> "cur", kind |-> "hs"]
    BY <1>5
  <2>2. ~(j <= Len(b))
    BY <1>1, <2>1
  <2>3. (b \o h)[j] = [from |-> "cur", kind |-> "hs"]
    BY <1>5, <2>2
  <2> QED
    BY <2>1, <2>3
<1> QED
  BY <1>3, <1>6

\* What a user pushes goes behind everything.
LEMMA PushOrder ==
    ASSUME NEW b \in Seq(Output), OutOrder(b)
    PROVE  OutOrder(Push(b, "app"))
<1> DEFINE l == [from |-> "cur", kind |-> "app"]
           c == Append(b, l)
<1>1. Len(b) \in Nat
  BY LenProperties
<1>2. Len(c) = Len(b) + 1 /\ (\A i \in 1..Len(b) : c[i] = b[i]) /\ c[Len(b) + 1] = l
  BY <1>1
<1>3. l.from = "cur" /\ l.kind = "app"
  OBVIOUS
<1> HIDE DEF l, c
<1>4. \A i \in 1..Len(c) : i = Len(b) + 1 \/ (i \in 1..Len(b) /\ i < Len(b) + 1 /\ c[i] = b[i])
  BY <1>1, <1>2
<1>5. OutOrder(c)
  BY <1>1, <1>2, <1>3, <1>4 DEF OutOrder
<1> QED
  BY <1>5 DEF Push, c, l

\* Every action keeps the order of the output.
LEMMA SentStep == TypeOK /\ Sent /\ [Next]_vars => Sent'
<1> SUFFICES ASSUME TypeOK, Sent, [Next]_vars
             PROVE  Sent'
  OBVIOUS
<1> USE DEF Sent
<1>a. outbuf \in Seq(Output) /\ Len(outbuf) <= OutCap
  BY DEF TypeOK
<1>b. ASSUME NEW w, EnterIdent(w), state \in {"RESOLVE", "CONNECT"}
      PROVE  Sent'
  BY <1>a, <1>b, HandshakeOrder DEF EnterIdent
<1>c. ASSUME UNCHANGED <<outbuf, state>>, io' \notin {"resolve", "connect", "dialing"} \/ io' = io
      PROVE  Sent'
  BY <1>c
<1>d. ASSUME NEW w, NextEndpoint(w), UNCHANGED <<outbuf, state>>, state \in {"RESOLVE", "CONNECT"}
      PROVE  Sent'
  BY <1>d DEF NextEndpoint, conn_reschedule
<1>e. ASSUME NEW o, NEW n \in 0..Len(outbuf), conn_wait(o, n)
      PROVE  OutOrder(outbuf') /\ (Theirs(outbuf) => Theirs(outbuf'))
  BY <1>a, <1>e, SentOrder DEF conn_wait
<1>1. CASE conn_resolve
  <2>1. io = "resolve" /\ outbuf' = outbuf /\ io' \in {"idle", "connect"}
    BY <1>1 DEF conn_resolve, conn_reschedule, bufVars
  <2>2. state' = state \/ state' = "CONNECT"
    BY <1>1 DEF conn_resolve
  <2> QED
    BY <2>1, <2>2
<1>2. CASE conn_connect
  <2>1. state \in {"RESOLVE", "CONNECT"}
    BY <1>2 DEF conn_connect
  <2>2. CASE ConnectFails
    BY <1>d, <2>1, <2>2 DEF ConnectFails
  <2>3. ASSUME NEW sameFd \in BOOLEAN, ConnectInProgress(sameFd)
        PROVE  Sent'
    BY <2>1, <2>3 DEF ConnectInProgress
  <2>4. ASSUME NEW sameFd \in BOOLEAN, ConnectSucceeds(sameFd)
        PROVE  Sent'
    BY <1>b, <1>d, <2>1, <2>4 DEF ConnectSucceeds
  <2> QED
    BY <1>2, <2>2, <2>3, <2>4 DEF conn_connect
<1>3. CASE conn_dial
  BY <1>3, <1>b, <1>d DEF conn_dial
<1>4. CASE conn_ident
  <2>1. CASE conn_reschedule(tm) /\ UNCHANGED <<state, inbuf, outbuf>>
    BY <1>c, <2>1 DEF conn_reschedule
  <2>2. ASSUME NEW o \in RecvOutcomes, NEW n \in 0..Len(outbuf), conn_wait(o, n),
               \/ outbuf' = <<>> /\ state' = "READY" /\ io' = "ready"
               \/ outbuf' # <<>> /\ UNCHANGED <<state, io>>
        PROVE  Sent'
    BY <1>e, <2>2
  <2> QED
    BY <1>4, <2>1, <2>2 DEF conn_ident
<1>5. CASE conn_ready
  <2>1. CASE conn_reschedule(tm) /\ UNCHANGED <<state, outbuf>>
    BY <1>c, <2>1 DEF conn_reschedule
  <2>2. ASSUME NEW o \in RecvOutcomes, NEW n \in 0..Len(outbuf), conn_wait(o, n),
               UNCHANGED <<state, io>>
        PROVE  Sent'
    BY <1>e, <2>2
  <2> QED
    BY <1>5, <2>1, <2>2 DEF conn_ready
<1>6. CASE WaitSpins \/ IoYields \/ TimerYields \/ PollEnds
  BY <1>6, <1>c DEF WaitSpins, IoYields, TimerYields, PollEnds, bufVars
<1>7. CASE conn_timer_resurrect
  BY <1>7, <1>c DEF conn_timer_resurrect, bufVars
<1>8. CASE conn_io_spawn
  <2>1. /\ outbuf' = [i \in DOMAIN outbuf |-> OldOutput(outbuf[i])]
        /\ state' = "RESOLVE"
    BY <1>8 DEF conn_io_spawn
  <2>2. \A o \in Output : OldOutput(o).from = "old"
    BY DEF Output, OldOutput
  <2>3. Len(outbuf') = Len(outbuf) /\ \A i \in 1..Len(outbuf) : outbuf'[i] = OldOutput(outbuf[i])
    BY <1>a, <2>1, OldOutputs, LenProperties
  <2>4. \A i \in 1..Len(outbuf') : outbuf'[i].from = "old"
    BY <1>a, <2>2, <2>3, LenProperties
  <2> QED
    BY <2>1, <2>4 DEF OutOrder, Theirs
<1>9. CASE irc_server_consumer_entry \/ conn_producer_entry
  BY <1>9, <1>c DEF irc_server_consumer_entry, conn_producer_entry
<1>10. CASE irc__conn_push
  <2>1. outbuf' = Push(outbuf, "app") /\ UNCHANGED <<state, io>> /\ state \in {"IDENT", "READY"}
    BY <1>10 DEF irc__conn_push, irc__conn_ready
  <2> QED
    BY <1>a, <2>1, PushOrder
<1>11. CASE irc_server_connect \/ irc_server_disconnect
  <2>1. outbuf' = <<>> /\ (io' = "none" \/ (io' = "resolve" /\ state' = "RESOLVE"))
    BY <1>11 DEF irc_server_connect, irc_server_disconnect
  <2>2. Len(outbuf') = 0
    BY <2>1
  <2> QED
    BY <2>1, <2>2 DEF OutOrder, Theirs
<1>12. CASE PeerMoves \/ IoEvent \/ WatchdogFires \/ DelayElapses \/ FreedWatcherUsed
  BY <1>12, <1>c DEF PeerMoves, IoEvent, WatchdogFires, DelayElapses, TimerFires,
     FreedWatcherUsed, bufVars
<1>13. CASE Stopped \/ UNCHANGED vars
  BY <1>13, <1>c DEF Stopped, vars
<1> QED
  BY <1>1, <1>2, <1>3, <1>4, <1>5, <1>6, <1>7, <1>8, <1>9, <1>10, <1>11, <1>12, <1>13
     DEF Next, IoCoroutine, TimerCoroutine, Users, Environment

\* The server sees the sessions one behind the other, each with its handshake
\* before anything that a user pushed (conn_ident, irc__conn_push), however
\* many lines of a lost session are left in the buffer.
THEOREM OutputAlwaysOrdered == Spec => []OutputOrdered
<1>1. Init => Sent
  <2> SUFFICES ASSUME Init PROVE Sent
    OBVIOUS
  <2>1. outbuf = <<>> /\ io = "none"
    BY DEF Init
  <2>2. Len(outbuf) = 0
    BY <2>1
  <2> QED
    BY <2>1, <2>2 DEF Sent, OutOrder, Theirs
<1>2. TypeOK /\ Sent /\ [Next]_vars => Sent'
  BY SentStep
<1>3. Sent => OutputOrdered
  BY DEF Sent, OutOrder, OutputOrdered
<1> QED
  BY <1>1, <1>2, <1>3, TypeCorrect, PTL DEF Spec
=============================================================================
