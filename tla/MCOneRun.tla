------------------------------ MODULE MCOneRun ------------------------------
(***************************************************************************)
(* An instance of OneRun: a and b are of issuer X and of two hours, and    *)
(* name different CRLs, of which the first does not revoke a; c is of      *)
(* issuer Y.                                                               *)
(***************************************************************************)
EXTENDS OneRun, TLC

CONSTANTS w1, t1, t2, a, b, c

MCIssuer   == a :> "X" @@ b :> "X" @@ c :> "Y"
MCNotAfter == a :> 1   @@ b :> 2   @@ c :> 2
MCDps      == a :> <<"x1">> @@ b :> <<"x2">> @@ c :> <<"y">>
MCDn       == a :> "CN=x" @@ b :> "CN=x" @@ c :> "CN=y"
MCCrls     == "x1" :> {{"other"}} @@ "x2" :> {{b}} @@ "y" :> {{c}}

MCReports == {<<Row("cert", "X", "ca1"), Row("cert", "Y", "ca2")>>}
=============================================================================
