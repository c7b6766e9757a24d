------------------------------ MODULE Unicode ------------------------------
(***************************************************************************)
(* The predicates and the case mappings of irccd/unicode.c: a character is *)
(* looked up in a table of ranges, then in one of single characters, by    *)
(* the binary search that all of them share.  The tables themselves are    *)
(* generated; here they are any sorted tables.  An entry is [lo, hi], with *)
(* hi = lo for a single one.                                               *)
(***************************************************************************)
EXTENDS Integers, Sequences

CONSTANTS
    Points,     \* the characters asked for
    Tables      \* the pairs <<ranges, singles>>

Sorted(T) ==
    /\ T \in Seq([lo : Nat, hi : Nat])
    /\ \A k \in 1..Len(T) : T[k].lo <= T[k].hi
    /\ \A j, k \in 1..Len(T) : j < k => T[j].hi < T[k].lo

ASSUME UnicodeAssumption ==
    /\ Points \subseteq Nat
    /\ \A pair \in Tables : Len(pair) = 2 /\ Sorted(pair[1]) /\ Sorted(pair[2])

VARIABLES
    point,      \* the character
    tables,     \* the tables of the function
    which,      \* the one that is searched
    t,          \* where the part that is left starts
    n,          \* and how many entries it has
    found       \* "search", then "yes" or "no"

uniVars == <<point, tables, which, t, n, found>>

Table == tables[which]

UniInit ==
    /\ point \in Points /\ tables \in Tables
    /\ which = 1 /\ t = 1 /\ n = Len(tables[1]) /\ found = "search"

\* The comparison without its equality.
Passes(e) == point > e.lo

\* The character is not before the entry e.
Reaches(e) == point >= e.lo

\* while (n > 1): the half that starts at the middle, or the one before it.
search ==
    /\ found = "search" /\ n > 1
    /\ LET m == n \div 2 IN
       IF Reaches(Table[t + m])
       THEN t' = t + m /\ n' = n - m
       ELSE t' = t /\ n' = m
    /\ UNCHANGED <<point, tables, which, found>>

\* The entry that search returned holds the character.
Hit == n = 1 /\ Reaches(Table[t]) /\ point <= Table[t].hi

\* It does not: the singles come next, or there is no answer.
uni_is ==
    /\ found = "search" /\ n <= 1
    /\ IF Hit
       THEN found' = "yes" /\ UNCHANGED <<which, t, n>>
       ELSE IF which = 1
       THEN which' = 2 /\ t' = 1 /\ n' = Len(tables[2]) /\ UNCHANGED found
       ELSE found' = "no" /\ UNCHANGED <<which, t, n>>
    /\ UNCHANGED <<point, tables>>

UniNext == search \/ uni_is

UniSpec == UniInit /\ [][UniNext]_uniVars

\* The entries of both tables, and whether one holds the character.
Holds(e) == e.lo <= point /\ point <= e.hi
Listed == \E w \in 1..2 : \E k \in 1..Len(tables[w]) : Holds(tables[w][k])

\* Whatever sorted tables the generator writes, and whatever character is
\* asked for, a search that says yes has the entry that holds it, and one that
\* says no has missed none: the halving loses no entry at either end.
RangesFound ==
    /\ found = "yes" => Holds(Table[t])
    /\ found = "no" => ~Listed
=============================================================================
