----------------------------- MODULE MCCtFetch -----------------------------
(***************************************************************************)
(* Instances of CtFetch: two logs that share a certificate, and one with   *)
(* an entry that does not parse and one that is filtered out.              *)
(***************************************************************************)
EXTENDS CtFetch, TLC

CONSTANTS w1, w2, a, b, l1, l2

MCIssuer   == a :> "X" @@ b :> "X"
MCNotAfter == a :> 1   @@ b :> 1
MCDps      == a :> <<"http-1">> @@ b :> <<"http-1", "http-2">>
OneDp      == a :> <<"http-1">> @@ b :> <<>>
MCWebDps   == {"http-1", "http-2"}
MCDn       == a :> "CN=x" @@ b :> "CN=x"
TwoEntry   == l1 :> <<a, b>> @@ l2 :> <<b>>
LongEntry  == l1 :> <<a, "bad", "skip", b>>
=============================================================================
