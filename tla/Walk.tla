-------------------------------- MODULE Walk --------------------------------
(***************************************************************************)
(* Irccd.Directory (irccd/jsapi-directory.c): find and remove walk a tree  *)
(* of directories with a path that every level extends and shortens again. *)
(* The tree is a constant; what is removed from it, what cannot be looked  *)
(* at, opened or removed, and the room that the base leaves of PATH_MAX    *)
(* vary.  A path is what follows the base and its slash.                   *)
(***************************************************************************)
EXTENDS Naturals, Sequences, FiniteSets

CONSTANTS
    Nodes,      \* everything below the base
    Parent,     \* node -> the directory it is in, Base for the first level
    Dirs,       \* which nodes are directories
    Name,       \* node -> its name
    Base,       \* the directory of the call
    Pattern,    \* a name to look for
    Rooms       \* how much of a path fits behind the base

ASSUME TreeAssumption ==
    /\ IsFiniteSet(Nodes) /\ Base \notin Nodes
    /\ Dirs \subseteq Nodes /\ Parent \in [Nodes -> Dirs \cup {Base}]
    /\ \A n \in Nodes : Name[n] \in Seq(STRING)
    /\ Rooms \subseteq Nat
    \* No directory is below itself, and names are given once in a directory.
    /\ \A S \in SUBSET Nodes : S # {} => \E n \in S : Parent[n] \notin S
    /\ \A n, m \in Nodes : Parent[n] = Parent[m] /\ Name[n] = Name[m] => n = m

VARIABLES
    call,       \* [fn : {"find", "rm"}, recursive : BOOLEAN]
    there,      \* the nodes that exist
    base,       \* the base does
    locked,     \* directories that openat(2) refuses
    hidden,     \* nodes that fstatat(2) fails for
    kept,       \* what remove(3) fails for, be it empty
    room,       \* what is left of sizeof (cs->path) behind the base
    stack,      \* the directories being read: [dir, left: entries not read yet]
    path,       \* cs->path behind the base
    status,     \* "walk", then "0" or "1" as recurse returns; "outside" once the
                \* path was shortened into the base, from where on it is not followed
    lost        \* history: a directory could not be opened or a path did not fit

givenVars == <<call, locked, hidden, kept, room>>
walkVars == <<givenVars, there, base, stack, path, status, lost>>

Children(d) == {n \in there : Parent[n] = d}
Frame(d) == [dir |-> d, left |-> Children(d)]

WalkInit ==
    /\ call \in [fn : {"find", "rm"}, recursive : BOOLEAN]
    /\ there = Nodes /\ base = TRUE
    /\ locked \in SUBSET Dirs
    /\ hidden \in SUBSET Nodes
    /\ kept \in SUBSET (Nodes \cup {Base})
    /\ Cardinality(locked \cup hidden \cup kept) <= 1
    /\ room \in Rooms
    /\ stack = <<Frame(Base)>> /\ path = <<>>
    /\ status = "walk" /\ lost = FALSE

Top == stack[Len(stack)]

\* The names on the way to a node, and its path.
RealPath[n \in Nodes] ==
    IF Parent[n] = Base THEN <<Name[n]>> ELSE Append(RealPath[Parent[n]], Name[n])
FullName[n \in Nodes] ==
    IF Parent[n] = Base THEN Name[n] ELSE FullName[Parent[n]] \o <<"/">> \o Name[n]

\* What is at a path; a slash may end the one of a directory.
Resolve(p) ==
    {n \in there : p = FullName[n] \/ (n \in Dirs /\ p = FullName[n] \o <<"/">>)}

\* remove(3) of a path: a directory has to be empty; rm does not look at what
\* it returns.
Removed(p) == {n \in Resolve(p) : Children(n) = {} /\ n \notin kept}

\* What is appended to the path for an entry.
Entry(n) == IF n \in Dirs /\ call.recursive THEN Name[n] \o <<"/">> ELSE Name[n]

\* irc_util_strlcat: what does not fit is cut off.
RoomFor(n) == Len(path) + Len(Entry(n)) <= room
Extended(n) ==
    IF RoomFor(n) THEN path \o Entry(n) ELSE SubSeq(path \o Entry(n), 1, room)

\* The path as it was extended.
Untrimmed(p, n) == p

\* The path without as much as the entry takes, were it cut off or not.
Trimmed(p, n) == SubSeq(p, 1, Len(p) - Len(Entry(n)))

\* fn is called with the entry n and the path p; find stops the walk, with the
\* path as it is, at a name that matches.
visit(n, p, frames) ==
    /\ IF call.fn = "find" /\ Name[n] = Pattern
       THEN path' = p /\ status' = "1"
       ELSE /\ path' = Trimmed(p, n)
            /\ status' = IF Len(p) < Len(Entry(n)) THEN "outside" ELSE "walk"
    /\ there' = IF call.fn = "rm" THEN there \ Removed(p) ELSE there
    /\ stack' = frames
    /\ UNCHANGED <<givenVars, base>>

\* The frames once n was read.
Read(n) == [stack EXCEPT ![Len(stack)].left = @ \ {n}]

\* A remove that is not recursive does not walk.
Walking == status = "walk" /\ (call.fn = "rm" => call.recursive)

Reading(n) == Walking /\ n \in Top.left

\* fstatat(2) fails: as for an entry that a path gone astray had removed.
skip(n) ==
    /\ Reading(n) /\ (n \in hidden \/ n \notin there)
    /\ stack' = Read(n)
    /\ UNCHANGED <<givenVars, there, base, path, status, lost>>

Stated(n) == Reading(n) /\ n \in there \ hidden

leaf(n) ==
    /\ Stated(n) /\ ~(n \in Dirs /\ call.recursive)
    /\ visit(n, Extended(n), Read(n))
    /\ lost' = (lost \/ ~RoomFor(n))

\* openat(2) refuses: the loop goes on without shortening the path.
refuse(n) ==
    /\ Stated(n) /\ n \in Dirs \cap locked /\ call.recursive
    /\ path' = Extended(n) /\ stack' = Read(n)
    /\ lost' = TRUE
    /\ UNCHANGED <<givenVars, there, base, status>>

enter(n) ==
    /\ Stated(n) /\ n \in Dirs \ locked /\ call.recursive
    /\ path' = Extended(n) /\ lost' = (lost \/ ~RoomFor(n))
    /\ stack' = Append(Read(n), Frame(n))
    /\ UNCHANGED <<givenVars, there, base, status>>

\* The end of a directory below the base: it is an entry of its parent.
leave ==
    /\ Walking /\ Len(stack) > 1 /\ Top.left = {}
    /\ visit(Top.dir, path, SubSeq(stack, 1, Len(stack) - 1))
    /\ lost' = lost

\* The end of the base, or no walk at all; remove goes on to the base itself,
\* which has to be empty.
recurse ==
    /\ status = "walk" /\ (Walking => Len(stack) = 1 /\ Top.left = {})
    /\ status' = "0"
    /\ base' = (call.fn = "find" \/ there # {} \/ Base \in kept)
    /\ UNCHANGED <<givenVars, there, stack, path, lost>>

WalkNext ==
    \/ \E n \in Nodes : skip(n) \/ leaf(n) \/ refuse(n) \/ enter(n)
    \/ leave
    \/ recurse

WalkSpec == WalkInit /\ [][WalkNext]_walkVars

\* What the walk can see: neither the node nor a directory above it is hidden.
Hides(h, n) == \E k \in 1..Len(RealPath[n]) : SubSeq(RealPath[n], 1, k) = RealPath[h]
Seen(n) == (call.recursive \/ Parent[n] = Base) /\ ~\E h \in hidden : Hides(h, n)

\* What no remove can take away.
Spared == hidden \cup (kept \ {Base})

\* As long as every directory could be opened and every path fits, find answers
\* with the place of an entry of that name, or with none when there is none to be
\* seen, and a recursive remove leaves nothing but what it could not look at,
\* what remove(3) fails for and the directories above that.
WalkFaithful ==
    ~lost =>
        /\ status = "1" => \E n \in Resolve(path) : Name[n] = Pattern
        /\ status = "0" /\ call.fn = "find" => ~\E n \in Nodes : Seen(n) /\ Name[n] = Pattern
        /\ status = "0" /\ call.fn = "rm" /\ call.recursive =>
               \A n \in there : ~Seen(n) \/ \E h \in Spared : Hides(n, h)
=============================================================================
