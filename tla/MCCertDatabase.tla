--------------------------- MODULE MCCertDatabase ---------------------------
(***************************************************************************)
(* Instances of CertDatabase: three certificates of two issuers; a and b   *)
(* share an issuer, its DN and a distribution point, and a and c are filed *)
(* under different hours.                                                  *)
(***************************************************************************)
EXTENDS CertDatabase, TLC

CONSTANTS w1, w2, a, b, c

MCIssuer   == a :> "X" @@ b :> "X" @@ c :> "Y"
MCNotAfter == a :> 3   @@ b :> 3   @@ c :> 5
MCDps      == a :> <<"http-1", "ldap">> @@ b :> <<"http-1", "http-2">>
                @@ c :> <<>>
MCWebDps   == {"http-1", "http-2"}
MCDn       == a :> "CN=x" @@ b :> "CN=x" @@ c :> "CN=y"

Symmetry == Permutations(Workers)
=============================================================================
