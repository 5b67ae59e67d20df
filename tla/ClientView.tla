------------------------------ MODULE ClientView ------------------------------
(***************************************************************************)
(* What CRLite promises the clients that download its records: a list of   *)
(* revoked keys as of some run of crlite-generate, replaced now and then   *)
(* by that of a later one.                                                 *)
(***************************************************************************)
EXTENDS Integers

CONSTANTS
    Certs,        \* keys (issuer and serial) that can be revoked
    Revoked,      \* Revoked[n]: the known revoked keys the n-th run collects
    MaxRuns       \* bound: runs that reach the bucket

VARIABLES
    upto,         \* the run the list is of, 0 before the first
    blocked       \* the keys clients take as revoked

clientVars == <<upto, blocked>>

Init ==
    /\ upto = 0
    /\ blocked = {}

(* The list of run n replaces that of an earlier run, or one of the same   *)
(* run that was put together differently.  It has every key revoked as of  *)
(* run n; those of earlier runs may linger, as a stash removes none.       *)
Publish(n) ==
    /\ n >= upto
    /\ upto' = n
    /\ Revoked[n] \subseteq blocked'
    /\ blocked' \subseteq UNION {Revoked[m] : m \in 1 .. n}

Next == \E n \in 1 .. MaxRuns : Publish(n)

Spec == Init /\ [][Next]_clientVars
=============================================================================
