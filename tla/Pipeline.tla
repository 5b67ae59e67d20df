------------------------------- MODULE Pipeline -------------------------------
(***************************************************************************)
(* The three cron jobs at work on the shared stores: crlite-generate fills *)
(* the bucket, crlite-publish moves what is new to the Kinto collection    *)
(* and asks for a review, crlite-signoff signs it.                         *)
(***************************************************************************)
EXTENDS Generate, Publisher, Signoff

VARIABLE calm     \* TRUE: from now on nothing fails

vars == <<stores, genVars, pubVars, signVars, calm>>

Init ==
    /\ StoresInit
    /\ GenInit
    /\ PubInit
    /\ SignoffInit
    /\ calm = FALSE

Environment ==
    /\ Sync \/ ExpireRun
    /\ UNCHANGED <<genVars, pubVars, signVars, calm>>

Generating ==
    /\ GenStep \/ (~calm /\ GenFault)
    /\ UNCHANGED <<pubVars, signVars, calm>>

Publishing ==
    /\ PubStep \/ (~calm /\ PubFault)
    /\ UNCHANGED <<genVars, signVars, calm>>

SigningOff ==
    /\ SignoffStep \/ (~calm /\ SignoffDies)
    /\ UNCHANGED <<genVars, pubVars, calm>>

CalmDown ==
    /\ ~calm
    /\ calm' = TRUE
    /\ UNCHANGED <<stores, genVars, pubVars, signVars>>

Next == Environment \/ Generating \/ Publishing \/ SigningOff \/ CalmDown

Spec == Init /\ [][Next]_vars

(* Cron starts every job again and again, so no job stops for good, and    *)
(* from some moment on nothing fails any more.                             *)
Fairness ==
    /\ WF_vars(Generating)
    /\ WF_vars(Publishing)
    /\ WF_vars(SigningOff)
    /\ WF_vars(Sync /\ UNCHANGED <<genVars, pubVars, signVars, calm>>)
    /\ WF_vars(CalmDown)

FairSpec == Spec /\ Fairness

-----------------------------------------------------------------------------
(* Every variable of the stores and of the three jobs keeps its type: the  *)
(* indices of runs and records the jobs hold are of runs that exist.       *)
TypeOK == StoresTypeOK /\ GenTypeOK /\ PubTypeOK /\ SignoffTypeOK /\ calm \in BOOLEAN

(* The runs a collection brings a client to: from its filter's run on.     *)
PublishedRuns(S) ==
    {n \in 1 .. MaxRuns : \E f \in Filters(S), r \in S : f.run <= n /\ n <= r.run}

(* Whatever the jobs do side by side and wherever they die, what Firefox   *)
(* downloads is one filter with stashes, every record has its file, and    *)
(* together they revoke every key that was revoked as of the run of any of *)
(* the records.  publish_crlite adds stashes that are differences between  *)
(* consecutive runs, so a lost or misplaced one would silently leave       *)
(* revoked certificates accepted.                                          *)
SignedCovers ==
    signed # {} =>
        /\ \E f \in Filters(signed) : Filters(signed) = {f}
        /\ \A r \in signed : r.attached
        /\ \A n \in PublishedRuns(signed) : Revoked[n] \subseteq Cover(signed)

(* No record of the collection, not even one that was just created, is of  *)
(* a run whose upload had not been completed when publish_crlite read it,  *)
(* although generate and publish overlap and generate may die half-way     *)
(* through an upload.                                                      *)
PublishedRunsComplete ==
    \A r \in records \cup signed : "completed" \in runs[r.run].files

(* Signing never takes Firefox back to an older run, whatever was cleared  *)
(* and republished in between.                                             *)
SignedNeverOlder ==
    [][\A r \in signed : \E q \in signed' : r.run <= q.run]_signed

(* publish_crlite_record creates a record only for a run later than all    *)
(* the runs already in the collection.                                     *)
NoRunRepublished ==
    [][\A q \in records', r \in records :
          q.id \notin {p.id : p \in records} => r.run < q.run]_records

(* The stashes Firefox downloads never outweigh the filter that could      *)
(* replace them: the size rule of publish_crlite holds of what is signed,  *)
(* not only of what one job has seen.                                      *)
StashesOutweighNoFilter == Cardinality(Stashes(signed)) <= StashesPerFilter

(* The latest run Firefox has, 0 before it has any.                        *)
SignedUpto == Last({0} \cup {r.run : r \in signed})

Client == INSTANCE ClientView WITH upto <- SignedUpto, blocked <- Cover(signed)

(* The three jobs implement the abstract revocation list: all Firefox ever *)
(* sees of runs, jobs that die, cleared collections, filters and stashes   *)
(* is a list that moves on to later runs, that has every key revoked as of *)
(* its run, and that blocks no key which no run up to then found revoked.  *)
ServesClients == Client!Spec

(* When generate stops, its last run is in the end what Firefox has; the   *)
(* very first run has no stash and counts once a second one exists.        *)
LatestRunSigned ==
    <>[](Len(runs) >= 2 => \E r \in signed : r.run = Len(runs))
=============================================================================
