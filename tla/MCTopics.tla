------------------------------ MODULE MCTopics ------------------------------
(***************************************************************************)
(* Instances of Topics.  One topic lies below the other; the filters use   *)
(* both wildcards, overlap, and one is refused after its packet's first    *)
(* filter was inserted.                                                    *)
(***************************************************************************)
EXTENDS Topics, TLC

Sub(f, q, h) == [topic |-> f, qos |-> q, handling |-> h]

MCLevels == {Empty, "a", "b", "+", "#"}
MCTopicNames == {<<"a">>, <<"a", "b">>}
MCPackets ==
  {<<Sub(<<"a", "+">>, 0, 0), Sub(<<"a", "#">>, 2, 0)>>,
   <<Sub(<<"a", "#">>, 0, 1), Sub(<<"a", "#", "b">>, 2, 2)>>}

Symmetric == Permutations(Clients)
=============================================================================
