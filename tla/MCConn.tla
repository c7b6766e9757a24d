------------------------------- MODULE MCConn -------------------------------
(* Conn on a small instance: the constants are in the cfg files.           *)
EXTENDS Conn
=============================================================================
