-------------------------- MODULE MCFindAdditions --------------------------
(***************************************************************************)
(* Three issuers, the first with two serials, and previous lists in every  *)
(* order.                                                                  *)
(***************************************************************************)
EXTENDS FindAdditions

MCIssuers == <<"X", "Y", "Z">>
MCSerials == [i \in {"X", "Y", "Z"} |-> IF i = "X" THEN {1, 2} ELSE {1}]

MCGroup == {g \in Group : g.set \subseteq Serials[g.issuer]}

Lists == {L \in UNION {[1..n -> MCGroup] : n \in 0..3} : IsRead(L)}

MCInit == written \in Lists /\ prior \in Lists /\ Init

MCSpec == MCInit /\ [][Next]_vars /\ WF_vars(Next)
=============================================================================
