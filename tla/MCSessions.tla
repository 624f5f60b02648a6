----------------------------- MODULE MCSessions -----------------------------
(***************************************************************************)
(* Sessions for TLC: two connections that may overlap in any way, so that  *)
(* each step of the end of one meets each step of the other one, and the   *)
(* job of the first will meets the entry of the second.                    *)
(***************************************************************************)
EXTENDS Sessions
=============================================================================
