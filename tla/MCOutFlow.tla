----------------------------- MODULE MCOutFlow ------------------------------
(***************************************************************************)
(* OutFlow for TLC: two publishers, so that every access to the quota and  *)
(* to pkid can be overtaken by another one; ids wrap after the second; a   *)
(* quota of 2 is used up by two of the messages.  The last message may be  *)
(* a retained one, beyond the quota and with the id onpub gives out first. *)
(***************************************************************************)
EXTENDS OutFlow, TLC

CONSTANTS p1, p2

QosMC == <<1, 1, 2>>

RetainedIdMC == 3 :> 2

Perms == Permutations({p1, p2})
=============================================================================
