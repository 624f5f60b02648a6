----------------------------- MODULE MCAckQueue -----------------------------
(***************************************************************************)
(* AckQueue for TLC: a ring that starts at two slots and may grow to four, *)
(* three packet ids that are reused, and enough messages for the ring to   *)
(* wrap around before and after it grows.                                  *)
(***************************************************************************)
EXTENDS AckQueue
=============================================================================
