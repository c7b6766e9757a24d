-------------------------------- MODULE File --------------------------------
(***************************************************************************)
(* Irccd.File (irccd/jsapi-file.c) and Irccd.System.popen: a stdio stream  *)
(* in a structure that a JavaScript object owns.  What reading returns is  *)
(* the matter of Words; here a stream is open or not, and holds data that  *)
(* were not written yet or not.                                            *)
(***************************************************************************)
EXTENDS Heap

VARIABLES
    file,       \* struct file of the File objects: [fp : BOOLEAN, finalizer : {"fclose",
                \* "pclose"}, dirty : BOOLEAN]
    closed      \* history: how often the stream of a file was closed

fileVars == <<file, closed>>

FileInit == file = <<>> /\ closed = <<>>

Open(x, finalizer) ==
    /\ Create(x)
    /\ file' = [y \in DOMAIN file \cup {x} |->
                  IF y = x THEN [fp |-> TRUE, finalizer |-> finalizer, dirty |-> FALSE]
                  ELSE file[y]]
    /\ closed' = [y \in DOMAIN closed \cup {x} |-> IF y = x THEN 0 ELSE closed[y]]

\* fopen(3) or popen(3) succeeded; a failure raises before there is an object.
File_constructor(x) == Open(x, "fclose")
System_popen(x) == Open(x, "pclose")

self(x) == Scripted /\ x \in held \cap Files

\* What the buffer keeps is written by the C library when it is full.  Writing
\* to a closed file raises.
File_prototype_write(x, flushed) ==
    /\ self(x) /\ file[x].fp
    /\ file' = [file EXCEPT ![x].dirty = ~flushed]
    /\ UNCHANGED <<heapVars, closed>>

\* A stream closed: its buffer is written.
Shut(q) == [q EXCEPT !.fp = FALSE, !.dirty = FALSE]

\* The pointer kept behind close.
PointerKept(x) ==
    /\ self(x)
    /\ file' = [file EXCEPT ![x].dirty = FALSE]
    /\ closed' = [closed EXCEPT ![x] = @ + 1]
    /\ UNCHANGED heapVars

File_prototype_close(x) ==
    /\ self(x)
    /\ IF file[x].fp
       THEN /\ file' = [file EXCEPT ![x] = Shut(file[x])]
            /\ closed' = [closed EXCEPT ![x] = @ + 1]
       ELSE UNCHANGED fileVars
    /\ UNCHANGED heapVars

\* The finalizer of the files xs.  The structure of one that was closed before
\* is never freed.
File_destructor(xs) ==
    LET open == {x \in xs \cap Files : file[x].fp} IN
    /\ file' = [x \in DOMAIN file |->
                  IF x \in open THEN Shut(file[x]) ELSE file[x]]
    /\ closed' = [x \in DOMAIN closed |-> IF x \in open THEN closed[x] + 1 ELSE closed[x]]

\* A stream is closed exactly once, whether the script closes it, the collector
\* finds the object or the plugin is unloaded, and data that were not written
\* yet always have an open stream that a live object owns.
StreamsOwned ==
    \A x \in DOMAIN file :
        /\ file[x].fp => closed[x] = 0 /\ x \in live
        /\ ~file[x].fp => closed[x] = 1 /\ ~file[x].dirty
=============================================================================
