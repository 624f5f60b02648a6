------------------------------ MODULE MCShare -------------------------------
(* Share with two nodes, three clients, one share name and two filters.    *)
EXTENDS Share, TLC

CONSTANTS n1, n2, c1, c2, c3

NodeOfMC == (c1 :> n1) @@ (c2 :> n1) @@ (c3 :> n2)
=============================================================================
