------------------------------ MODULE MCInFlow ------------------------------
(***************************************************************************)
(* InFlow for TLC: two packet ids, three messages, so that a packet id is  *)
(* used again, and three connections, so that a service can outlive the    *)
(* next connection and a third one can find what both left behind.         *)
(***************************************************************************)
EXTENDS InFlow
=============================================================================
