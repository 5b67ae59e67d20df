-------------------------- MODULE MCAggregateCrls --------------------------
(***************************************************************************)
(* Instances of AggregateCrls: X and Y are in the root program, X with two *)
(* certificates, O is not, and Z is behind a row that the CSV reader       *)
(* stumbles over.  In Redis X has one CRL, and another one may come, as    *)
(* may the first one of Y; the serials of Y may expire.                    *)
(***************************************************************************)
EXTENDS AggregateCrls, TLC

CONSTANTS t1, t2

MCIssuers == {"X", "Y", "Z", "O"}
MCUrls    == {"x1", "x2", "y"}
MCCrls    == [u \in MCUrls |-> {{}, {u}}]

X1 == Row("cert", "X", "ca1")
X2 == Row("cert", "X", "ca2")
Y  == Row("cert", "Y", "ca3")
Z  == Row("cert", "Z", "ca4")
MCReports == {<<X1, Y, X2, Row("csv", "", ""), Z>>, <<X1, Row("pem", "", ""), Y>>}

MCFiled   == {{"X", "Y", "Z", "O"}, {"X", "O"}}
MCUrlsOf(x, y) == [i \in Issuers |-> IF i = "X" THEN x ELSE IF i = "Y" THEN y ELSE {}]

MCInit ==
  /\ JobInit
  /\ filed \in MCFiled
  /\ crls = MCUrlsOf({"x1"}, {})

MCNext ==
  \/ JobNext
  \/ \E f \in MCFiled, x \in {{"x1"}, {"x1", "x2"}}, y \in {{}, {"y"}} :
       RedisBecomes(f, MCUrlsOf(x, y))

MCSpec ==
  MCInit /\ [][MCNext]_vars /\ WF_vars(Main) /\ \A t \in Threads : WF_vars(Goroutine(t))
=============================================================================
