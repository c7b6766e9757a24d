------------------------------- MODULE MCRule -------------------------------
(* Instance of Rule for TLC: two of the five criteria, one that every   *)
(* event has and one that some events lack.                                *)
EXTENDS Rule

MCFields == <<"server", "channel">>
=============================================================================
