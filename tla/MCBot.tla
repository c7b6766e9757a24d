------------------------------- MODULE MCBot -------------------------------
(* Instances of Bot for TLC.                                               *)
EXTENDS Bot

CONSTANTS p1, p2, p3

\* Servers have different names; p1 and p3 have the same.
MCNameOf == [s \in Srvs |-> s] @@ (p1 :> "ask" @@ p2 :> "asking" @@ p3 :> "ask")

\* "!ask" and "!asking".
MCCalls == {{"ask"}, {"ask", "asking"}}

Symmetry == Permutations(Srvs) \cup Permutations({p1, p3})
=============================================================================
