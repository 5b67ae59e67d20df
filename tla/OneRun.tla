------------------------------- MODULE OneRun -------------------------------
(***************************************************************************)
(* One run of crlite-generate.sh up to the lists of keys: aggregate-crls   *)
(* (AggregateCrls), then aggregate-known (AggregateKnown), then            *)
(* createCertLists of certs_to_crlite, each a process that reads the files *)
(* of the ones before it.  bash -e ends the run after a process that died; *)
(* one that left on a signal has exit status 0, and the run goes on.       *)
(* crlite-fetch goes on storing certificates in Redis all the while        *)
(* (CertDatabase), so the URLs and the serials are read at different times.*)
(***************************************************************************)
EXTENDS AggregateKnown

CONSTANTS
  Stored,        \* the certificates that Redis holds at the start
  CrlThreads,    \* the goroutines of a pool of aggregate-crls
  Crls,          \* URL -> the sets of serials its CRL may revoke
  Reports        \* the CCADB reports that may be on disk

ASSUME RunAssumption == Stored \subseteq Certs

VARIABLES
  mpc, cancelled, issuers, crlQueue, crlTpc, crlJob, crlLeft, found, merged,
  results, paths, failed, crlCollected, audit, revoked, begun,  \* aggregate-crls
  lists,         \* list-revoked.keys and list-valid.keys: <<>>, or <<them>>
  atStart        \* history: the certificates accounted for in Redis when
                 \* aggregate-crls listed the issuers

(* crlite-fetch files an issuer with its first serial.  A signal leaves    *)
(* the next process an incomplete list or none, and so do downloads and    *)
(* writes that fail; signals to aggregate-crls are left to AggregateCrls.  *)
C == INSTANCE AggregateCrls WITH
       Threads <- CrlThreads, Signals <- FALSE, queue <- crlQueue, tpc <- crlTpc,
       job <- crlJob, left <- crlLeft, collected <- crlCollected,
       filed <- {k[2] : k \in {j \in Keys : serials[j] # {}}}

crlVars == <<mpc, cancelled, issuers, crlQueue, crlTpc, crlJob, crlLeft, found, merged,
             results, paths, failed, crlCollected, audit, revoked, begun>>
runVars == <<allVars, crlVars, lists, atStart>>

RunInit ==
  /\ now = 0 /\ RedisHolds(Stored) /\ MemoryInit /\ pc = [w \in Workers |-> "idle"]
  /\ KnownInit /\ saved = <<>> /\ C!JobInit
  /\ lists = <<>> /\ atStart = {}

AggregateCrlsStep ==
  /\ UNCHANGED <<dbVars, kpc, enrolled, signalled, listed, queue, tpc, unit, known,
                 atListing, lists>>
  /\ (\E t \in CrlThreads : C!Goroutine(t)) \/ C!Main
  /\ atStart' = IF mpc = "list" THEN {c \in Certs : Known(c) /\ Accounted(c)} ELSE atStart

AggregateKnownStep ==
  /\ mpc = "exited"
  /\ (\E t \in Threads : Goroutine(t)) \/ Main
  /\ UNCHANGED <<crlVars, lists, atStart>>

Signalled == Signal /\ UNCHANGED <<crlVars, lists, atStart>>

(* load_and_make_sets: a file that is not there counts as empty.           *)
KnownSet(i) == IF known[i] = <<>> THEN {} ELSE known[i][1]
KnownRevoked(i) == KnownSet(i) \cap revoked[i]

(* Mutant of KnownNotRevoked: the difference the other way round.          *)
RevokedNotKnown(i) == revoked[i] \ KnownSet(i)

KnownNotRevoked(i) == KnownSet(i) \ revoked[i]

(* Without a revoked key certs_to_crlite exits with status 1.              *)
CreateCertLists ==
  /\ kpc = "exited" /\ lists = <<>>
  /\ \E i \in Issuers : KnownRevoked(i) # {}
  /\ lists' = <<[revoked |-> UNION {KnownRevoked(i) : i \in Issuers},
                 valid   |-> UNION {KnownNotRevoked(i) : i \in Issuers}]>>
  /\ UNCHANGED <<allVars, crlVars, atStart>>

(* Certificates that Redis knows are not stored again (CertDatabase does). *)
Fetching ==
  /\ \/ \E w \in Workers, c \in Certs :
          NotAfter[c] >= now /\ ~Known(c) /\ StoreCalled(w, c)
     \/ \E w \in Workers : StoreStep(w)
     \/ Tick
  /\ UNCHANGED <<knownVars, crlVars, lists, atStart>>

RunNext ==
  AggregateCrlsStep \/ AggregateKnownStep \/ CreateCertLists \/ Signalled \/ Fetching

RunSpec ==
  /\ RunInit /\ [][RunNext]_runVars
  /\ WF_runVars(AggregateCrlsStep) /\ WF_runVars(AggregateKnownStep)

-----------------------------------------------------------------------------
(* What a run makes of a certificate can be traced to the CRLs, for every  *)
(* order in which crlite-fetch, the downloads and the two programs touch   *)
(* Redis and the files.  A key in the list of revoked ones is known, and   *)
(* on a CRL of its issuer, which is enrolled.  A certificate whose URLs    *)
(* were in Redis when the run began is called valid only if each of the    *)
(* CRLs it names was fetched and none of them revokes it.                  *)
VerdictsVouched ==
  lists # <<>> =>
    /\ \A c \in lists[1].revoked :
         Issuer[c] \in enrolled /\ c \in C!RevokedOf(Issuer[c])
    /\ \A c \in lists[1].valid \cap atStart :
         \A u \in Range(Dps[c]) \cap WebDps :
           LET crl == paths[<<Issuer[c], u>>] IN crl.kind = "crl" /\ c \notin crl.revoked

(* A certificate of an enrolled issuer that Redis knew when the run began  *)
(* is in one of the two lists, unless its hour of expiry has come or       *)
(* aggregate-known left on a signal.                                       *)
RunCovers ==
  lists # <<>> /\ ~signalled =>
    \A c \in atStart :
      Issuer[c] \in enrolled /\ now < ExpDate(c) =>
        c \in lists[1].revoked \cup lists[1].valid

(* The two programs end, unless a signal comes to aggregate-known.         *)
RunEnds == <>(mpc = "died" \/ kpc \in {"exited", "died"} \/ signalled)
=============================================================================
