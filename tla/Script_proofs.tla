---------------------------- MODULE Script_proofs ----------------------------
(***************************************************************************)
(* Proofs about Script, for any number of objects and requests: who owns   *)
(* what outside of the heap.  Each theorem adds what it needs to the one   *)
(* before: HeapOK about the objects, then an invariant of the timers, one  *)
(* of the requests and one of the files.                                   *)
(***************************************************************************)
EXTENDS Script, FiniteSetTheorems, TLAPS

\* The objects that the script or the stash refers to are in the heap.
HeapOK ==
    /\ live \subseteq used
    /\ held \subseteq live

\* libev runs the timers that the script believes to run, and the script can
\* still name them, unless it abandoned one.
TimersOK ==
    /\ DOMAIN timer = used \cap Timers
    /\ started \subseteq Timers \cap used
    /\ timer \in [DOMAIN timer -> [type : {"Repeat", "Single"}, active : BOOLEAN]]
    /\ \A t \in DOMAIN timer : timer[t].active <=> t \in started
    /\ misused \in BOOLEAN
    /\ misused \/ started \subseteq held

Transfer == [fn : Funcs, events : SUBSET {"read", "write"}, active : BOOLEAN, fp : BOOLEAN,
             same : BOOLEAN]

\* Requests are numbered as they start.  The property of a function points to a
\* request that calls it, and goes away with the function; a request that runs
\* is the one its function points to, unless the function was given to another.
RequestsOK ==
    /\ \E k \in Nat : DOMAIN req = 1..k
    /\ req \in [DOMAIN req -> Transfer]
    /\ DOMAIN sig \subseteq live
    /\ \A f \in DOMAIN sig : sig[f] \in DOMAIN req /\ req[sig[f]].fn = f
    /\ \A r \in DOMAIN req :
          req[r].active => Shared(r) \/ (req[r].fn \in DOMAIN sig /\ sig[req[r].fn] = r)

\* Every File object has its stream, and every stream its history.
FilesOK ==
    /\ DOMAIN file = used \cap Files
    /\ DOMAIN closed = DOMAIN file
    /\ file \in [DOMAIN file -> [fp : BOOLEAN, finalizer : {"fclose", "pclose"}, dirty : BOOLEAN]]

-----------------------------------------------------------------------------
(* The heap and the timers.                                                *)

\* No step of the script, the event loop or the collector leaves a reference to
\* an object that is not in the heap.
LEMMA HeapStep ==
    ASSUME HeapOK, [Next]_vars
    PROVE  HeapOK'
<1> USE DEF HeapOK
<1>1. ASSUME NEW t \in Timers, UseTimers(t) PROVE HeapOK'
  BY <1>1 DEF UseTimers, Timer_constructor, Create, Timer_prototype_start,
     Timer_prototype_restart, Timer_prototype_stop, stimer_cb, heapVars
<1>2. CASE UseHttp
  BY <1>2 DEF UseHttp, Define, Create, Http_request, request_io_perform, request_io_end,
     request_io_again
<1>3. ASSUME NEW x \in Files, UseFiles(x) PROVE HeapOK'
  BY <1>3 DEF UseFiles, File_constructor, System_popen, Open, Create, File_prototype_write,
     File_prototype_close, heapVars
<1>4. ASSUME NEW o \in Objects, forget(o) PROVE HeapOK'
  BY <1>4 DEF forget, Forget
<1>5. ASSUME NEW o \in Objects, collect(o) PROVE HeapOK'
  BY <1>5 DEF collect, Free, Garbage
<1>6. CASE finish
  BY <1>6 DEF finish, Destroy
<1>7. CASE UNCHANGED vars
  BY <1>7 DEF vars, heapVars
<1> QED
  BY <1>1, <1>2, <1>3, <1>4, <1>5, <1>6, <1>7 DEF Next

\* A timer that is started or stopped is still a timer, and the only one that
\* changes.
LEMMA ActiveSet ==
    ASSUME TimersOK, NEW t \in DOMAIN timer, NEW b \in BOOLEAN,
           timer' = [timer EXCEPT ![t].active = b]
    PROVE  /\ DOMAIN timer' = DOMAIN timer
           /\ timer' \in [DOMAIN timer -> [type : {"Repeat", "Single"}, active : BOOLEAN]]
           /\ \A u \in DOMAIN timer : timer'[u].active = IF u = t THEN b ELSE timer[u].active
BY DEF TimersOK

\* Every step keeps the timers of libev those that the script believes to run.
\* A timer that goes off while its object is gone was abandoned.
LEMMA TimersStep ==
    ASSUME HeapOK, TimersOK, TimersDisciplined, [Next]_vars
    PROVE  TimersOK' /\ TimersDisciplined'
<1> USE ObjectsAssumption DEF HeapOK, TimersOK, TimersDisciplined
<1>1. ASSUME NEW t \in Timers, NEW type \in {"Repeat", "Single"}, Timer_constructor(t, type)
      PROVE  TimersOK' /\ TimersDisciplined'
  BY <1>1 DEF Timer_constructor, Create, Scripted, stimer_init
<1>2. ASSUME NEW t \in Timers, Timer_prototype_start(t)
      PROVE  TimersOK' /\ TimersDisciplined'
  <2>1. t \in DOMAIN timer /\ timer' = [timer EXCEPT ![t].active = TRUE]
    BY <1>2 DEF Timer_prototype_start, stimer_self
  <2>2. UNCHANGED <<used, live, held, crash, misused>> /\ started' = started \cup {t} /\ t \in held
    BY <1>2 DEF Timer_prototype_start, stimer_self, heapVars
  <2>3. /\ DOMAIN timer' = DOMAIN timer
        /\ timer' \in [DOMAIN timer -> [type : {"Repeat", "Single"}, active : BOOLEAN]]
        /\ \A u \in DOMAIN timer : timer'[u].active = IF u = t THEN TRUE ELSE timer[u].active
    BY <2>1, ActiveSet
  <2> QED
    BY <2>1, <2>2, <2>3
<1>3. ASSUME NEW t \in Timers, Timer_prototype_restart(t)
      PROVE  TimersOK' /\ TimersDisciplined'
  <2>1. t \in DOMAIN timer /\ timer' = [timer EXCEPT ![t].active = timer[t].type = "Repeat"]
    BY <1>3 DEF Timer_prototype_restart, stimer_self
  <2>2. /\ UNCHANGED <<used, live, held, crash, misused>> /\ t \in held
        /\ started' = IF timer[t].type = "Repeat" THEN started \cup {t} ELSE started \ {t}
    BY <1>3 DEF Timer_prototype_restart, stimer_self, heapVars
  <2>3. /\ DOMAIN timer' = DOMAIN timer
        /\ timer' \in [DOMAIN timer -> [type : {"Repeat", "Single"}, active : BOOLEAN]]
        /\ \A u \in DOMAIN timer :
              timer'[u].active = IF u = t THEN timer[t].type = "Repeat" ELSE timer[u].active
    BY <2>1, ActiveSet, ZenonT(40)
  <2> QED
    BY <2>1, <2>2, <2>3
<1>4. ASSUME NEW t \in Timers, Timer_prototype_stop(t)
      PROVE  TimersOK' /\ TimersDisciplined'
  <2>1. t \in DOMAIN timer /\ timer' = [timer EXCEPT ![t].active = FALSE]
    BY <1>4 DEF Timer_prototype_stop, stimer_self
  <2> QED
    BY <1>4, <2>1, ActiveSet DEF Timer_prototype_stop, stimer_self, heapVars
<1>5. ASSUME NEW t \in Timers, stimer_cb(t)
      PROVE  TimersOK' /\ TimersDisciplined'
  <2>1. t \in DOMAIN timer /\ timer' = [timer EXCEPT ![t].active = timer[t].type = "Repeat"]
    BY <1>5 DEF stimer_cb
  <2> QED
    BY <1>5, <2>1, ActiveSet DEF stimer_cb, Looping
<1>6. CASE UseHttp
  BY <1>6 DEF UseHttp, Define, Create, Http_request, request_io_perform, request_io_end,
     request_io_again, timerVars
<1>7. ASSUME NEW x \in Files, UseFiles(x)
      PROVE  TimersOK' /\ TimersDisciplined'
  BY <1>7 DEF UseFiles, File_constructor, System_popen, Open, Create, File_prototype_write,
     File_prototype_close, heapVars, timerVars
<1>8. ASSUME NEW o \in Objects, forget(o)
      PROVE  TimersOK' /\ TimersDisciplined'
  BY <1>8 DEF forget, Forget, Abandon
<1>9. ASSUME NEW o \in Objects, collect(o)
      PROVE  TimersOK' /\ TimersDisciplined'
  BY <1>9 DEF collect, Free, Garbage, Finalize, Timer_destructor
<1>10. CASE finish
  BY <1>10 DEF finish, Destroy, Finalize, Timer_destructor, Abandon, Scripted
<1>11. CASE UNCHANGED vars
  BY <1>11 DEF vars, heapVars, timerVars
<1> QED
  BY <1>1, <1>2, <1>3, <1>4, <1>5, <1>6, <1>7, <1>8, <1>9, <1>10, <1>11 DEF Next, UseTimers

-----------------------------------------------------------------------------
(* The requests.                                                           *)

\* Whatever happens to a request, its owner stays as long as the functions do.
LEMMA OwnersKept ==
    ASSUME RequestsOK, DOMAIN req' = DOMAIN req, req' \in [DOMAIN req -> Transfer],
           \A r \in DOMAIN req : req'[r].fn = req[r].fn /\ (req'[r].active => req[r].active),
           sig' = sig, live \subseteq live'
    PROVE  RequestsOK'
<1>1. \A r \in DOMAIN req : Shared(r) => Shared(r)'
  BY DEF Shared
<1> QED
  BY <1>1 DEF RequestsOK

\* A watcher's events change nothing else, and start it at most.
LEMMA EventsSet ==
    ASSUME NEW q \in Transfer, NEW now \in Reports
    PROVE  /\ request_set_events(q, now) \in Transfer
           /\ request_set_events(q, now).fn = q.fn
<1>1. now.events \in SUBSET {"read", "write"} /\ now.same \in BOOLEAN
  <2>1. CASE now = [events |-> {}, same |-> FALSE]
    BY <2>1
  <2>2. CASE now \in [events : {{"read"}, {"write"}}, same : BOOLEAN]
    <3>1. now.events \in {{"read"}, {"write"}} /\ now.same \in BOOLEAN
      BY <2>2
    <3> QED
      BY <3>1, Zenon
  <2> QED
    BY <2>1, <2>2 DEF Reports
<1>2. [q EXCEPT !.same = now.same] \in Transfer /\ [q EXCEPT !.same = now.same].fn = q.fn
  BY <1>1, Zenon DEF Transfer
<1> DEFINE e == now.events
<1>4. e \in SUBSET {"read", "write"}
  BY <1>1
<1> HIDE DEF e
<1>5. /\ [q EXCEPT !.events = e, !.same = TRUE, !.active = TRUE] \in Transfer
      /\ [q EXCEPT !.events = e, !.same = TRUE, !.active = TRUE].fn = q.fn
  BY <1>4 DEF Transfer
<1> QED
  BY <1>2, <1>5 DEF request_set_events, e

\* A request that is freed keeps its function, and does not run.
LEMMA FreeOps ==
    ASSUME NEW q \in Transfer
    PROVE  /\ request_free(q) \in Transfer /\ request_free(q).fn = q.fn
           /\ request_free(q).active = FALSE
BY DEF Transfer, request_free

\* What the finalizers free is what the functions point to: a request whose
\* function goes away does not run any more.
LEMMA OwnersFreed ==
    ASSUME RequestsOK, NEW fs, Http_destructor(fs), live' = live \ fs
    PROVE  RequestsOK'
<1> DEFINE freed == {sig[f] : f \in fs \cap DOMAIN sig}
<1>1. /\ DOMAIN req' = DOMAIN req
      /\ \A r \in DOMAIN req : req'[r] = IF r \in freed THEN request_free(req[r]) ELSE req[r]
      /\ sig' = [f \in DOMAIN sig \ fs |-> sig[f]]
  BY DEF Http_destructor
<1>2. \A r \in DOMAIN req : req[r] \in Transfer
  BY DEF RequestsOK
<1>3. \A r \in DOMAIN req : /\ req'[r] \in Transfer /\ req'[r].fn = req[r].fn
                            /\ req'[r].active => req[r].active /\ r \notin freed
  BY <1>1, <1>2, FreeOps
<1>4. req' \in [DOMAIN req -> Transfer]
  BY <1>1, <1>3 DEF Http_destructor
<1>5. DOMAIN sig' \subseteq live' /\ \A f \in DOMAIN sig' : sig'[f] \in DOMAIN req /\ req'[sig'[f]].fn = f
  BY <1>1, <1>3 DEF RequestsOK
<1>6. ASSUME NEW r \in DOMAIN req, req'[r].active
      PROVE  Shared(r)' \/ (req'[r].fn \in DOMAIN sig' /\ sig'[req'[r].fn] = r)
  <2>1. CASE Shared(r)
    BY <1>1, <1>3, <2>1 DEF Shared
  <2>2. CASE req[r].fn \in DOMAIN sig /\ sig[req[r].fn] = r
    <3>1. req[r].fn \notin fs
      BY <1>3, <1>6, <2>2
    <3> QED
      BY <1>1, <1>3, <2>2, <3>1
  <2> QED
    BY <1>3, <1>6, <2>1, <2>2 DEF RequestsOK
<1> QED
  BY <1>1, <1>4, <1>5, <1>6 DEF RequestsOK

\* A function that starts a request owns it; if it owned another, the two share
\* it from then on.
LEMMA OwnerStarts ==
    ASSUME HeapOK, RequestsOK, NEW f \in Funcs, NEW r \in Requests, NEW now \in Reports,
           Http_request(f, r, now)
    PROVE  RequestsOK'
<1> DEFINE new == request_set_events(request_new(f), now)
<1>1. PICK k \in Nat : DOMAIN req = 1..k
  BY DEF RequestsOK
<1>2. Cardinality(DOMAIN req) = k
  <2>1. Cardinality(1..k) = IF 1 > k THEN 0 ELSE k - 1 + 1
    BY FS_Interval
  <2> QED
    BY <1>1, <2>1
<1>3. /\ r = k + 1 /\ f \in held
      /\ req' = [s \in DOMAIN req \cup {r} |-> IF s = r THEN new ELSE req[s]]
      /\ sig' = [g \in DOMAIN sig \cup {f} |-> IF g = f THEN r ELSE sig[g]]
      /\ live' = live
  BY <1>2 DEF Http_request, request_attach, request_start
<1>4. DOMAIN req' = 1..(k + 1) /\ r \notin DOMAIN req
  BY <1>1, <1>3
<1>5. new \in Transfer /\ new.fn = f
  <2>1. request_new(f) \in Transfer /\ request_new(f).fn = f
    BY DEF request_new, Transfer
  <2> QED
    BY <2>1, EventsSet
<1> HIDE DEF new
<1>6. req' \in [DOMAIN req' -> Transfer]
  BY <1>3, <1>5 DEF RequestsOK
<1>7. \A s \in DOMAIN req : req'[s] = req[s]
  BY <1>3, <1>4
<1>8. req'[r] = new /\ sig'[f] = r /\ f \in DOMAIN sig' /\ r \in DOMAIN req'
  BY <1>3
<1>9. DOMAIN sig' \subseteq live'
  BY <1>3 DEF RequestsOK, HeapOK
<1>10. \A g \in DOMAIN sig' : sig'[g] \in DOMAIN req' /\ req'[sig'[g]].fn = g
  BY <1>3, <1>5, <1>7, <1>8 DEF RequestsOK
<1>11. ASSUME NEW s \in DOMAIN req', req'[s].active
       PROVE  Shared(s)' \/ (req'[s].fn \in DOMAIN sig' /\ sig'[req'[s].fn] = s)
  <2>1. CASE s = r
    BY <1>5, <1>8, <2>1
  <2>2. CASE s # r /\ req[s].fn = f
    BY <1>3, <1>5, <1>7, <1>8, <2>2 DEF Shared
  <2>3. CASE s # r /\ req[s].fn # f
    <3>1. s \in DOMAIN req /\ req'[s] = req[s]
      BY <1>3, <1>7, <2>3
    <3>2. CASE Shared(s)
      BY <1>3, <1>7, <3>1, <3>2 DEF Shared
    <3>3. CASE req[s].fn \in DOMAIN sig /\ sig[req[s].fn] = s
      BY <1>3, <2>3, <3>1, <3>3
    <3> QED
      BY <1>11, <3>1, <3>2, <3>3 DEF RequestsOK
  <2> QED
    BY <2>1, <2>2, <2>3
<1> QED
  BY <1>4, <1>6, <1>9, <1>10, <1>11 DEF RequestsOK

\* Every step keeps the owners of the requests.
LEMMA RequestsStep ==
    ASSUME HeapOK, RequestsOK, [Next]_vars
    PROVE  RequestsOK'
<1>0. \A r \in DOMAIN req : req[r] \in Transfer
  BY DEF RequestsOK
<1>1. CASE UNCHANGED <<httpVars, live>>
  BY <1>1, <1>0, OwnersKept DEF httpVars, RequestsOK
<1>2. ASSUME NEW o \in Objects, Create(o), UNCHANGED httpVars
      PROVE  RequestsOK'
  BY <1>2, <1>0, OwnersKept DEF Create, httpVars, RequestsOK
<1>3. ASSUME NEW t \in Timers, UseTimers(t) PROVE RequestsOK'
  BY <1>1, <1>2, <1>3 DEF UseTimers, Timer_constructor, Timer_prototype_start,
     Timer_prototype_restart, Timer_prototype_stop, stimer_cb, heapVars, Objects
<1>4. ASSUME NEW x \in Files, UseFiles(x) PROVE RequestsOK'
  BY <1>1, <1>2, <1>4 DEF UseFiles, File_constructor, System_popen, Open,
     File_prototype_write, File_prototype_close, heapVars, Objects
<1>5. ASSUME NEW f \in Funcs, Define(f) PROVE RequestsOK'
  BY <1>2, <1>5 DEF Define, Objects
<1>6. ASSUME NEW f \in Funcs, NEW r \in Requests, NEW now \in Reports, Http_request(f, r, now)
      PROVE  RequestsOK'
  BY <1>6, OwnerStarts
<1>7. ASSUME NEW r \in Requests, NEW now \in Reports, request_io_perform(r, now)
      PROVE  RequestsOK'
  <2>1. /\ r \in DOMAIN req /\ req[r].active /\ sig' = sig /\ live' = live
        /\ req' = [req EXCEPT ![r] = request_set_events(req[r], now)]
    BY <1>7 DEF request_io_perform
  <2>2. /\ request_set_events(req[r], now) \in Transfer
        /\ request_set_events(req[r], now).fn = req[r].fn
    BY <1>0, <2>1, EventsSet
  <2> QED
    BY <1>0, <2>1, <2>2, OwnersKept DEF RequestsOK
<1>8. ASSUME NEW r \in Requests, request_io_end(r) PROVE RequestsOK'
  <2>1. CASE req' = req
    BY <1>1, <1>8, <2>1 DEF request_io_end, httpVars
  <2>2. CASE req' = [req EXCEPT ![r] = request_complete(req[r])]
    <3>1. r \in DOMAIN req /\ sig' = sig /\ live' = live
      BY <1>8 DEF request_io_end
    <3>2. /\ request_complete(req[r]) \in Transfer
          /\ request_complete(req[r]).fn = req[r].fn
          /\ request_complete(req[r]).active = req[r].active
      BY <1>0, <3>1 DEF request_complete, Transfer
    <3> QED
      BY <1>0, <2>2, <3>1, <3>2, OwnersKept DEF RequestsOK
  <2> QED
    BY <1>8, <2>1, <2>2 DEF request_io_end
<1>9. ASSUME NEW r \in Requests, request_io_again(r) PROVE RequestsOK'
  BY <1>1, <1>9 DEF request_io_again, httpVars
<1>10. ASSUME NEW o \in Objects, forget(o) PROVE RequestsOK'
  BY <1>1, <1>10 DEF forget, Forget
<1>11. ASSUME NEW o \in Objects, collect(o) PROVE RequestsOK'
  BY <1>11, OwnersFreed DEF collect, Free, Finalize
<1>12. CASE finish
  BY <1>12, OwnersFreed DEF finish, Destroy, Finalize
<1>13. CASE UNCHANGED vars
  BY <1>1, <1>13 DEF vars, heapVars
<1> QED
  BY <1>3, <1>4, <1>5, <1>6, <1>7, <1>8, <1>9, <1>10, <1>11, <1>12, <1>13 DEF Next, UseHttp

-----------------------------------------------------------------------------
(* The files.                                                              *)

\* What a stream holds and how often it was closed are of the types declared.
StreamType == [fp : BOOLEAN, finalizer : {"fclose", "pclose"}, dirty : BOOLEAN]

\* A file that is written stays as open as it was.
LEMMA StreamWritten ==
    ASSUME FilesOK, NEW x \in DOMAIN file, NEW b \in BOOLEAN
    PROVE  /\ [file[x] EXCEPT !.dirty = b] \in StreamType
           /\ [file[x] EXCEPT !.dirty = b].fp = file[x].fp
<1>1. file[x] \in StreamType
  BY DEF FilesOK, StreamType
<1> QED
  BY <1>1 DEF StreamType

\* A file that is closed has its buffer written.
LEMMA StreamShut ==
    ASSUME FilesOK, NEW x \in DOMAIN file
    PROVE  /\ Shut(file[x]) \in StreamType
           /\ ~Shut(file[x]).fp /\ ~Shut(file[x]).dirty
<1>1. file[x] \in StreamType
  BY DEF FilesOK, StreamType
<1> QED
  BY <1>1 DEF StreamType, Shut

\* The finalizers close the streams that are open and no other, whatever
\* objects they run for; the objects leave the heap.
LEMMA StreamsFinalized ==
    ASSUME HeapOK, FilesOK, StreamsOwned, NEW os, os \subseteq live,
           File_destructor(os), used' = used, live' = live \ os
    PROVE  FilesOK' /\ StreamsOwned'
<1> DEFINE open == {x \in os \cap Files : file[x].fp}
<1>1. /\ DOMAIN file' = DOMAIN file /\ DOMAIN closed' = DOMAIN closed
      /\ \A x \in DOMAIN file : file'[x] = IF x \in open THEN Shut(file[x]) ELSE file[x]
      /\ \A x \in DOMAIN closed : closed'[x] = IF x \in open THEN closed[x] + 1 ELSE closed[x]
  BY DEF File_destructor
<1>2. open \subseteq DOMAIN file /\ \A x \in open : file[x].fp /\ x \in os
  BY DEF HeapOK, FilesOK
<1>3. \A x \in DOMAIN file : x \notin open => ~(file[x].fp /\ x \in os)
  BY DEF FilesOK
<1> HIDE DEF open
<1>4. \A x \in DOMAIN file : file[x] \in StreamType /\ Shut(file[x]) \in StreamType
  BY StreamShut DEF FilesOK, StreamType
<1>5. \A x \in DOMAIN file : file'[x] \in StreamType
  BY <1>1, <1>4
<1>6. file' \in [DOMAIN file' -> StreamType]
  BY <1>1, <1>5 DEF File_destructor
<1>7. ASSUME NEW x \in open
      PROVE  ~file'[x].fp /\ ~file'[x].dirty /\ closed'[x] = 1
  <2>1. closed[x] = 0 /\ x \in DOMAIN closed
    BY <1>2 DEF StreamsOwned, FilesOK
  <2> QED
    BY <1>1, <1>2, <2>1, StreamShut
<1>8. ASSUME NEW x \in DOMAIN file \ open
      PROVE  file'[x] = file[x] /\ closed'[x] = closed[x] /\ (file[x].fp => x \in live')
  <2>1. x \in DOMAIN closed
    BY DEF FilesOK
  <2> QED
    BY <1>1, <1>3, <2>1 DEF StreamsOwned
<1>9. FilesOK'
  BY <1>1, <1>6 DEF FilesOK, StreamType
<1>10. StreamsOwned'
  BY <1>1, <1>7, <1>8 DEF StreamsOwned
<1> QED
  BY <1>9, <1>10

\* A stream that is opened belongs to an object that never was.
LEMMA StreamOpened ==
    ASSUME HeapOK, FilesOK, StreamsOwned, NEW x \in Files,
           NEW finalizer \in {"fclose", "pclose"}, Open(x, finalizer)
    PROVE  FilesOK' /\ StreamsOwned'
<1> DEFINE new == [fp |-> TRUE, finalizer |-> finalizer, dirty |-> FALSE]
<1>1. /\ x \notin DOMAIN file /\ used' = used \cup {x} /\ live' = live \cup {x}
      /\ file' = [y \in DOMAIN file \cup {x} |-> IF y = x THEN new ELSE file[y]]
      /\ closed' = [y \in DOMAIN file \cup {x} |-> IF y = x THEN 0 ELSE closed[y]]
  BY DEF Open, Create, FilesOK
<1>2. new \in StreamType /\ new.fp
  BY DEF StreamType
<1> HIDE DEF new
<1>3. \A y \in DOMAIN file : file[y] \in StreamType
  BY DEF FilesOK, StreamType
<1>4. /\ file'[x] = new /\ closed'[x] = 0
      /\ \A y \in DOMAIN file : file'[y] = file[y] /\ closed'[y] = closed[y]
  BY <1>1
<1>5. FilesOK'
  <2>1. DOMAIN file' = used' \cap Files /\ DOMAIN closed' = DOMAIN file'
    BY <1>1 DEF FilesOK
  <2>2. file' \in [DOMAIN file' -> StreamType]
    BY <1>1, <1>2, <1>3
  <2> QED
    BY <2>1, <2>2 DEF FilesOK, StreamType
<1>6. StreamsOwned'
  BY <1>1, <1>2, <1>4 DEF StreamsOwned
<1> QED
  BY <1>5, <1>6

\* Every step keeps the streams.
LEMMA FilesStep ==
    ASSUME HeapOK, FilesOK, StreamsOwned, [Next]_vars
    PROVE  FilesOK' /\ StreamsOwned'
<1>1. ASSUME UNCHANGED fileVars, used' \cap Files = used \cap Files, live \subseteq live'
      PROVE  FilesOK' /\ StreamsOwned'
  BY <1>1 DEF fileVars, FilesOK, StreamsOwned
<1>2. ASSUME NEW t \in Timers, UseTimers(t) PROVE FilesOK' /\ StreamsOwned'
  BY <1>1, <1>2, ObjectsAssumption DEF UseTimers, Timer_constructor, Timer_prototype_start,
     Timer_prototype_restart, Timer_prototype_stop, stimer_cb, heapVars, Create
<1>3. CASE UseHttp
  BY <1>1, <1>3, ObjectsAssumption DEF UseHttp, Define, Create, Http_request,
     request_io_perform, request_io_end, request_io_again
<1>4. ASSUME NEW x \in Files, File_constructor(x) PROVE FilesOK' /\ StreamsOwned'
  BY <1>4, StreamOpened DEF File_constructor
<1>5. ASSUME NEW x \in Files, System_popen(x) PROVE FilesOK' /\ StreamsOwned'
  BY <1>5, StreamOpened DEF System_popen
<1>6. ASSUME NEW x \in Files, NEW flushed \in BOOLEAN, File_prototype_write(x, flushed)
      PROVE  FilesOK' /\ StreamsOwned'
  <2>1. /\ x \in DOMAIN file /\ file[x].fp /\ UNCHANGED <<used, live, closed>>
        /\ file' = [file EXCEPT ![x] = [file[x] EXCEPT !.dirty = ~flushed]]
    BY <1>6 DEF File_prototype_write, self, HeapOK, FilesOK, heapVars
  <2>2. /\ [file[x] EXCEPT !.dirty = ~flushed] \in StreamType
        /\ [file[x] EXCEPT !.dirty = ~flushed].fp
    BY <2>1, StreamWritten
  <2>3. FilesOK'
    BY <2>1, <2>2 DEF FilesOK, StreamType
  <2>4. StreamsOwned'
    BY <2>1, <2>2 DEF StreamsOwned
  <2> QED
    BY <2>3, <2>4
<1>7. ASSUME NEW x \in Files, File_prototype_close(x)
      PROVE  FilesOK' /\ StreamsOwned'
  <2>1. x \in DOMAIN file /\ UNCHANGED <<used, live>>
    BY <1>7 DEF File_prototype_close, self, HeapOK, FilesOK, heapVars
  <2>2. CASE file[x].fp
    <3>1. /\ file' = [file EXCEPT ![x] = Shut(file[x])]
          /\ closed' = [closed EXCEPT ![x] = closed[x] + 1]
      BY <1>7, <2>2 DEF File_prototype_close
    <3>2. closed[x] = 0 /\ x \in DOMAIN closed
      BY <2>1, <2>2 DEF StreamsOwned, FilesOK
    <3>3. Shut(file[x]) \in StreamType /\ ~Shut(file[x]).fp /\ ~Shut(file[x]).dirty
      BY <2>1, StreamShut
    <3>4. FilesOK'
      BY <2>1, <3>1, <3>3 DEF FilesOK, StreamType
    <3>5. StreamsOwned'
      BY <2>1, <3>1, <3>2, <3>3 DEF StreamsOwned
    <3> QED
      BY <3>4, <3>5
  <2>3. CASE ~file[x].fp
    BY <1>1, <1>7, <2>1, <2>3 DEF File_prototype_close
  <2> QED
    BY <2>2, <2>3
<1>8. ASSUME NEW o \in Objects, forget(o) PROVE FilesOK' /\ StreamsOwned'
  BY <1>1, <1>8 DEF forget, Forget
<1>9. ASSUME NEW o \in Objects, collect(o) PROVE FilesOK' /\ StreamsOwned'
  BY <1>9, StreamsFinalized DEF collect, Free, Garbage, Finalize
<1>10. CASE finish
  <2>1. File_destructor(live) /\ used' = used /\ live' = live \ live
    BY <1>10 DEF finish, Destroy, Finalize
  <2> QED
    BY <2>1, StreamsFinalized
<1>11. CASE UNCHANGED vars
  BY <1>1, <1>11 DEF vars, heapVars
<1> QED
  BY <1>2, <1>3, <1>4, <1>5, <1>6, <1>7, <1>8, <1>9, <1>10, <1>11 DEF Next, UseFiles

-----------------------------------------------------------------------------
(* The theorems.                                                           *)

\* The empty sequence is the empty function.
LEMMA EmptyFunction ==
    ASSUME NEW S
    PROVE  DOMAIN <<>> = {} /\ <<>> \in [{} -> S]
<1>1. DOMAIN <<>> = {}
  OBVIOUS
<1>2. <<>> = [i \in 1..0 |-> i]
  OBVIOUS
<1>3. 1..0 = {}
  OBVIOUS
<1>4. <<>> = [i \in DOMAIN <<>> |-> <<>>[i]]
  BY <1>2
<1> QED
  BY <1>1, <1>3, <1>4

\* The start: nothing exists.
LEMMA ScriptInit == Init => HeapOK /\ TimersOK /\ RequestsOK /\ FilesOK
<1> SUFFICES ASSUME Init PROVE HeapOK /\ TimersOK /\ RequestsOK /\ FilesOK
  OBVIOUS
<1>1. HeapOK
  BY DEF Init, HeapInit, HeapOK
<1>2. TimersOK
  <2>1. timer = <<>> /\ used = {} /\ started = {} /\ held = {} /\ misused = FALSE
    BY DEF Init, HeapInit, TimerInit
  <2>2. DOMAIN timer = {} /\ timer \in [{} -> [type : {"Repeat", "Single"}, active : BOOLEAN]]
    BY <2>1, EmptyFunction
  <2> QED
    BY <2>1, <2>2 DEF TimersOK
<1>3. RequestsOK
  <2>1. DOMAIN req = 1..0 /\ DOMAIN sig = {}
    BY DEF Init, HttpInit
  <2>2. req \in [DOMAIN req -> Transfer]
    BY <2>1 DEF Init, HttpInit
  <2> QED
    BY <2>1, <2>2 DEF RequestsOK
<1>4. FilesOK
  <2>1. file = <<>> /\ closed = <<>> /\ used = {}
    BY DEF Init, HeapInit, FileInit
  <2>2. DOMAIN file = {} /\ DOMAIN closed = {}
        /\ file \in [{} -> [fp : BOOLEAN, finalizer : {"fclose", "pclose"}, dirty : BOOLEAN]]
    BY <2>1, EmptyFunction
  <2> QED
    BY <2>1, <2>2 DEF FilesOK
<1> QED
  BY <1>1, <1>2, <1>3, <1>4

\* The event loop never calls back into a freed Timer object on account of the
\* daemon (stimer_cb, Timer_destructor): the script had abandoned the timer
\* while it ran.
THEOREM TimersAlwaysDisciplined == Spec => []TimersDisciplined
<1>1. Init => HeapOK /\ TimersOK /\ TimersDisciplined
  BY ScriptInit DEF Init, HeapInit, TimersDisciplined
<1>2. HeapOK /\ TimersOK /\ TimersDisciplined /\ [Next]_vars
        => HeapOK' /\ TimersOK' /\ TimersDisciplined'
  BY HeapStep, TimersStep
<1> QED
  BY <1>1, <1>2, PTL DEF Spec

\* A request whose watcher runs is owned by a function of the heap, so that
\* finish stops it, unless its callback was given to another request
\* (request_attach, Http_destructor).
THEOREM RequestsAlwaysOwned == Spec => []RequestsOwned
<1>1. Init => HeapOK /\ RequestsOK
  BY ScriptInit
<1>2. HeapOK /\ RequestsOK /\ [Next]_vars => HeapOK' /\ RequestsOK'
  BY HeapStep, RequestsStep
<1>3. RequestsOK => RequestsOwned
  BY DEF RequestsOK, RequestsOwned
<1> QED
  BY <1>1, <1>2, <1>3, PTL DEF Spec

\* A stream is closed exactly once and never before its data are written,
\* whoever closes it (File_prototype_close, File_destructor).
THEOREM StreamsAlwaysOwned == Spec => []StreamsOwned
<1>1. Init => HeapOK /\ FilesOK /\ StreamsOwned
  BY ScriptInit DEF Init, FileInit, StreamsOwned
<1>2. HeapOK /\ FilesOK /\ StreamsOwned /\ [Next]_vars
        => HeapOK' /\ FilesOK' /\ StreamsOwned'
  BY HeapStep, FilesStep
<1> QED
  BY <1>1, <1>2, PTL DEF Spec
=============================================================================
