-------------------------------- MODULE Link --------------------------------
(***************************************************************************)
(* What a connection (lib/irccd/conn.c) is to the server that owns it: the *)
(* abstract specification module Conn implements and module Server builds  *)
(* on.                                                                     *)
(*                                                                         *)
(*   off    no coroutine: the server is disconnected                       *)
(*   down   resolving, connecting, or waiting to try again                 *)
(*   up     the handshake was pushed; lines are exchanged                  *)
(*   lost   the connection failed after the handshake was pushed and still *)
(*          passes for ready: the reconnection delay                       *)
(*   dead   the process stopped                                            *)
(***************************************************************************)
VARIABLE link

Links == {"off", "down", "up", "lost", "dead"}

Init == link = "off"

Connect    == link = "off" /\ link' = "down"
Establish  == link = "down" /\ link' = "up"
Fail       == link = "up" /\ link' = "lost"
Retry      == link = "lost" /\ link' = "down"
Disconnect == link \in {"down", "up", "lost"} /\ link' = "off"
Abort      == link' = "dead"

Next == Connect \/ Establish \/ Fail \/ Retry \/ Disconnect \/ Abort

Spec == Init /\ [][Next]_link
=============================================================================
