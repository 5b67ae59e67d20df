------------------------ MODULE AggregateCrlsProofs ------------------------
(***************************************************************************)
(* Proofs about aggregate-crls: its types, that an issuer it saves as      *)
(* enrolled is one whose CRLs were all processed and stored, and that a    *)
(* run without a signal enrols every such issuer and reports what it did.  *)
(***************************************************************************)
EXTENDS AggregateCrls, TLAPS

-----------------------------------------------------------------------------
(* The invariant, by what it is about.                                     *)

(* The types of all variables, and that nothing is known of the URLs until *)
(* the issuers have been listed.                                           *)
Types ==
  /\ TypeOK
  /\ queue \subseteq Issuers /\ results \subseteq Issuers
  /\ found \in [Threads -> SUBSET (Issuers \X Urls)]
  /\ merged \subseteq Issuers \X Urls
  /\ begun \in [Issuers -> SUBSET Urls]
  /\ DOMAIN collected = Threads /\ DOMAIN revoked = Issuers
  /\ mpc \in {"load", "list"} =>
       /\ queue = {} /\ results = {} /\ merged = {}
       /\ \A t \in Threads : found[t] = {} /\ tpc[t] = "ready"
  /\ \A t \in Threads : tpc[t] \in {"busy", "store"} => job[t] \in InProgram
  /\ \A p \in Issuers \X Urls :
       /\ paths[p].kind \in {"blank", "garbled", "crl"}
       /\ paths[p].kind # "crl" => paths[p].revoked = {}
  /\ \A i \in InProgram :
       DOMAIN issuers[i] = {"certs", "enrolled"} /\ issuers[i].certs # {}

(* What goroutine t has worked off, and what these CRLs revoke.            *)
Worked(t) == UrlsOf(job[t]) \ left[t]

Gathered(t) == UNION {paths[<<job[t], u>>].revoked : u \in Worked(t)}

(* Where an URL of an issuer is found, all that Redis had at the listing   *)
(* are found with it.                                                      *)
FindInv ==
  /\ \A i \in Issuers : begun[i] \subseteq crls[i]
  /\ \A t \in Threads : \A p \in found[t] : \A v \in begun[p[1]] : <<p[1], v>> \in found[t]
  /\ \A p \in merged : \A v \in begun[p[1]] : <<p[1], v>> \in merged

(* What a goroutine holds of the issuer it aggregates.                     *)
Work(t) ==
  tpc[t] \in {"busy", "store"} =>
    /\ left[t] \subseteq UrlsOf(job[t])
    /\ collected[t] = Gathered(t)
    /\ failed[t] <=> \E u \in Worked(t) : paths[<<job[t], u>>].kind # "crl"
    /\ tpc[t] = "store" => left[t] = {} /\ ~failed[t] /\ collected[t] # {}

WorkInv == mpc = "aggregate" => \A t \in Threads : Work(t)

(* An issuer is enrolled after its CRLs were processed, and until its file *)
(* is written a goroutine is about to write it.                            *)
EnrolInv ==
  /\ mpc \in {"load", "list", "identify", "download"} => Enrolled(issuers) = {}
  /\ mpc = "aggregate" =>
       \A i \in Enrolled(issuers) :
         /\ RevokedOf(i) # {} /\ Processed(i)
         /\ revoked[i] = RevokedOf(i) \/ \E t \in Threads : tpc[t] = "store" /\ job[t] = i
  /\ saved # <<>> => mpc = "exited" /\ EnrolledSound

(* The auditor is told of what is at the path.                             *)
AuditInv ==
  /\ mpc \in {"load", "list", "identify", "download"} => audit = {}
  /\ audit \subseteq Issuers \X Urls \X {"Valid", "Empty", "Failed"}
  /\ \A a \in audit :
       paths[<<a[1], a[2]>>].kind # "blank" /\ a[3] = AuditKind(paths[<<a[1], a[2]>>])

Audited(i, u) ==
  paths[<<i, u>>].kind # "blank" => <<i, u, AuditKind(paths[<<i, u>>])>> \in audit

(* All is done that is to be done for issuer i.                            *)
Settled(i) ==
  /\ Processed(i) /\ RevokedOf(i) # {} => i \in Enrolled(issuers)
  /\ \A u \in UrlsOf(i) : Audited(i, u)

(* The auditor was told of what goroutine t has worked off.                *)
Reported(t) == tpc[t] = "busy" => \A u \in Worked(t) : Audited(job[t], u)

InHand(i) == \E t \in Threads : tpc[t] = "busy" /\ job[t] = i

(* Without a signal no goroutine quits, and no issuer is forgotten.        *)
UndisturbedInv ==
  ~cancelled =>
    /\ \A t \in Threads : tpc[t] # "quit" /\ (tpc[t] = "done" => queue = {})
    /\ mpc = "download" => \A p \in merged : p[1] \in queue \cup results \/ InHand(p[1])
    /\ mpc = "aggregate" =>
         /\ \A p \in merged : p[1] \in queue \/ InHand(p[1]) \/ Settled(p[1])
         /\ \A t \in Threads : Reported(t)
    /\ UndisturbedComplete /\ AuditAgrees

-----------------------------------------------------------------------------
(* The operators of RootProgram.                                           *)

(* parseCCADB enrols nobody, and has a certificate of each issuer.         *)
LEMMA Parsed ==
  ASSUME NEW S
  PROVE  /\ Enrolled(InsertAll(S)) = {}
         /\ \A i \in DOMAIN InsertAll(S) :
              /\ DOMAIN InsertAll(S)[i] = {"certs", "enrolled"}
              /\ InsertAll(S)[i].certs # {}
<1> DEFINE D == {e.issuer : e \in S}
           c(i) == {e.cert : e \in {d \in S : d.issuer = i}}
<1>1. InsertAll(S) = [i \in D |-> [certs |-> c(i), enrolled |-> FALSE]]
  BY DEF InsertAll
<1>2. \A i \in D : c(i) # {}
  OBVIOUS
<1> HIDE DEF D, c
<1>3. DOMAIN InsertAll(S) = D
  BY <1>1
<1>4. \A i \in D : InsertAll(S)[i] = [certs |-> c(i), enrolled |-> FALSE]
  BY <1>1
<1>5. ASSUME NEW i \in D PROVE InsertAll(S)[i].enrolled = FALSE
  <2>1. \A C : [certs |-> C, enrolled |-> FALSE].enrolled = FALSE
    OBVIOUS
  <2> QED
    BY <1>4, <2>1, Zenon
<1>6. Enrolled(InsertAll(S)) = {}
  BY <1>3, <1>5, Zenon DEF Enrolled
<1> QED
  BY <1>2, <1>3, <1>4, <1>6

(* Enrolling an issuer changes nothing but its flag.                       *)
LEMMA EnrollOne ==
  ASSUME NEW m, NEW i,
         \A j \in DOMAIN m : DOMAIN m[j] = {"certs", "enrolled"} /\ m[j].certs # {}
  PROVE  /\ DOMAIN Enroll(m, i) = DOMAIN m
         /\ \A j \in DOMAIN m : /\ DOMAIN Enroll(m, i)[j] = {"certs", "enrolled"}
                                /\ Enroll(m, i)[j].certs # {}
         /\ Enrolled(Enroll(m, i)) = Enrolled(m) \cup ({i} \cap DOMAIN m)
<1>1. CASE i \notin DOMAIN m
  BY <1>1 DEF Enroll
<1>2. CASE i \in DOMAIN m
  <2>1. Enroll(m, i) = [m EXCEPT ![i].enrolled = TRUE]
    BY <1>2 DEF Enroll
  <2>2. DOMAIN Enroll(m, i) = DOMAIN m
    BY <2>1
  <2>3. \A j \in DOMAIN m : j # i => Enroll(m, i)[j] = m[j]
    BY <2>1
  <2>4. Enroll(m, i)[i] = [m[i] EXCEPT !.enrolled = TRUE]
    BY <2>1, <1>2
  <2>5. /\ Enroll(m, i)[i].enrolled = TRUE
        /\ Enroll(m, i)[i].certs = m[i].certs
        /\ DOMAIN Enroll(m, i)[i] = {"certs", "enrolled"}
    BY <2>4, <1>2
  <2> QED
    BY <1>2, <2>2, <2>3, <2>5 DEF Enrolled
<1> QED
  BY <1>1, <1>2

(* The list says of each issuer what the map says.                         *)
LEMMA ListIsMap ==
  ASSUME NEW m, \A j \in DOMAIN m : m[j].certs # {}
  PROVE  /\ \A e \in IssuersList(m) :
              e.issuer \in DOMAIN m /\ (e.enrolled <=> e.issuer \in Enrolled(m))
         /\ \A i \in DOMAIN m : \E e \in IssuersList(m) : e.issuer = i
<1> DEFINE entry(i, c) == [issuer |-> i, cert |-> c, enrolled |-> m[i].enrolled]
<1>1. \A e : e \in IssuersList(m) <=> \E i \in DOMAIN m : \E c \in m[i].certs : e = entry(i, c)
  BY DEF IssuersList
<1>2. ASSUME NEW e \in IssuersList(m)
      PROVE  e.issuer \in DOMAIN m /\ (e.enrolled <=> e.issuer \in Enrolled(m))
  <2>1. PICK i \in DOMAIN m : \E c \in m[i].certs : e = entry(i, c)
    BY <1>1
  <2>2. e.issuer = i /\ e.enrolled = m[i].enrolled
    BY <2>1
  <2>3. i \in Enrolled(m) <=> m[i].enrolled
    BY DEF Enrolled
  <2> QED
    BY <2>2, <2>3, Zenon
<1>3. ASSUME NEW i \in DOMAIN m PROVE \E e \in IssuersList(m) : e.issuer = i
  <2>1. PICK c : c \in m[i].certs
    OBVIOUS
  <2>2. entry(i, c) \in IssuersList(m) /\ entry(i, c).issuer = i
    BY <1>1, <2>1
  <2> QED
    BY <2>2
<1> QED
  BY <1>2, <1>3

-----------------------------------------------------------------------------
(* The types.                                                              *)

LEMMA TypesInit == Init => Types
<1> SUFFICES ASSUME Init PROVE Types
  OBVIOUS
<1>1. NoJob \in Issuers
  BY AggregateAssumption DEF NoJob
<1>2. DOMAIN issuers = {}
  BY DEF Init, JobInit, InsertAll
<1> QED
  BY <1>1, <1>2, Zenon DEF Init, JobInit, Types, TypeOK, AllReady, InProgram, Blank

LEMMA TypesNext == Types /\ [Next]_vars => Types'
<1> SUFFICES ASSUME Types, [Next]_vars PROVE Types'
  OBVIOUS
<1> USE DEF Types, TypeOK, InProgram
<1>nj. NoJob \in Issuers
  BY AggregateAssumption, Zenon DEF NoJob
<1>1. CASE UNCHANGED vars
  BY <1>1 DEF vars, redis, main, pool, files
<1>2. CASE Load
  <2>1. CASE UNCHANGED issuers
    BY <1>2, <2>1, Zenon DEF Load, redis, pool, files
  <2>2. ASSUME NEW r, issuers' = ParseCCADB(r), mpc' = "list" PROVE Types'
    <3>1. \A i \in DOMAIN issuers' :
            DOMAIN issuers'[i] = {"certs", "enrolled"} /\ issuers'[i].certs # {}
      BY <2>2, Parsed DEF ParseCCADB
    <3> QED
      BY <1>2, <2>2, <3>1 DEF Load, redis, pool, files
  <2> QED
    BY <1>2, <2>1, <2>2, Zenon DEF Load
<1>3. CASE List
  BY <1>3, ZenonT(30) DEF List, Listed, redis, pool, files
<1>4. CASE Signal
  BY <1>4, Zenon DEF Signal, redis, main, pool, files
<1>5. CASE IdentifyCancelled
  BY <1>5, Zenon DEF IdentifyCancelled, redis, pool, files
<1>6. CASE Identified
  <2>1. merged' \subseteq Issuers \X Urls /\ merged' \subseteq InProgram \X Urls
    BY <1>6 DEF Identified
  <2>2. queue' \subseteq Issuers /\ queue' \subseteq InProgram
    BY <1>6, <2>1 DEF Identified
  <2> QED
    BY <1>6, <2>1, <2>2, Zenon DEF Identified, redis, pool, files, AllReady
<1>7. CASE Downloaded
  BY <1>7, Zenon DEF Downloaded, redis, pool, files, AllReady
<1>8. CASE SaveIssuersList
  BY <1>8, Zenon DEF SaveIssuersList, redis, pool
<1>9. ASSUME NEW f \in SUBSET Issuers, NEW c \in [Issuers -> SUBSET Urls], RedisBecomes(f, c) PROVE Types'
  BY <1>9, SMTT(30) DEF RedisBecomes, main, pool, files
<1>10. ASSUME NEW t \in Threads, Goroutine(t) PROVE Types'
  <2>1. CASE RunsOut(t)
    BY <2>1, <1>nj, ZenonT(30) DEF RunsOut, Step, redis, main, files
  <2>2. ASSUME NEW i \in queue, Find(t, i) PROVE Types'
    <3>1. crls[i] \subseteq Urls /\ i \in Issuers /\ i \in InProgram
      OBVIOUS
    <3> QED
      BY <2>2, <3>1, SMTT(30) DEF Find, Step, redis, main, pool, files
  <2>3. ASSUME NEW i \in queue, Take(t, i) PROVE Types'
    <3>1. UrlsOf(i) \subseteq Urls
      BY DEF UrlsOf
    <3>2. AnyCrlFailed(t) \in BOOLEAN
      BY Zenon DEF AnyCrlFailed
    <3> QED
      BY <2>3, <3>1, <3>2 DEF Take, Step, redis, main, files
  <2>4. CASE Quit(t)
    BY <2>4, Zenon DEF Quit, Step, redis, main, pool, files
  <2>5. ASSUME NEW u \in left[t], Fetch(t, u) PROVE Types'
    <3>1. PICK f \in Fetched(u) : paths' = [paths EXCEPT ![<<job[t], u>>] = f]
      BY <2>5, Zenon DEF Fetch
    <3>2. f.kind \in {"blank", "garbled", "crl"} /\ (f.kind # "crl" => f.revoked = {})
      BY DEF Fetched, Blank, Garbled, Crl
    <3>3. <<job[t], u>> \in Issuers \X Urls
      BY Zenon
    <3>4. /\ DOMAIN paths' = Issuers \X Urls
          /\ \A p \in Issuers \X Urls :
               /\ paths'[p].kind \in {"blank", "garbled", "crl"}
               /\ paths'[p].kind # "crl" => paths'[p].revoked = {}
      BY <3>1, <3>2, <3>3, Zenon
    <3> QED
      BY <2>5, <3>4, Zenon DEF Fetch, redis, main
  <2>6. ASSUME NEW u \in left[t], Aggregate(t, u) PROVE Types'
    BY <2>6, Zenon DEF Aggregate, redis, main, files
  <2>7. CASE SendResult(t)
    <3>1. job[t] \in InProgram
      BY <2>7, Zenon DEF SendResult
    <3> QED
      BY <2>7, <3>1 DEF SendResult, Step, redis, pool, files
  <2>8. CASE EnrollIssuer(t)
    <3>1. /\ DOMAIN issuers' = DOMAIN issuers
          /\ \A j \in DOMAIN issuers :
               DOMAIN issuers'[j] = {"certs", "enrolled"} /\ issuers'[j].certs # {}
      <4>1. CASE issuers' = issuers
        BY <4>1
      <4>2. CASE issuers' = Enroll(issuers, job[t])
        BY <4>2, EnrollOne, SMTT(30)
      <4> QED
        BY <2>8, <4>1, <4>2, Zenon DEF EnrollIssuer
    <3> QED
      BY <2>8, <3>1, ZenonT(30) DEF EnrollIssuer, Step, redis, pool, files
  <2>9. CASE StoreRevoked(t)
    BY <2>9, Zenon DEF StoreRevoked, Step, redis, main, pool
  <2>10. CASE StoreInterrupted(t)
    BY <2>10 DEF StoreInterrupted, redis, pool
  <2> QED
    BY <1>10, <2>1, <2>2, <2>3, <2>4, <2>5, <2>6, <2>7, <2>8, <2>9, <2>10, Zenon DEF Goroutine
<1> QED
  BY <1>1, <1>2, <1>3, <1>4, <1>5, <1>6, <1>7, <1>8, <1>9, <1>10, Zenon DEF Next, JobNext, Main
-----------------------------------------------------------------------------
(* The URLs.                                                               *)

LEMMA UrlsAre ==
  ASSUME Types
  PROVE  \A i, u : u \in UrlsOf(i) <=> <<i, u>> \in merged
BY DEF Types, UrlsOf

LEMMA FindInit == Init => FindInv
BY DEF Init, JobInit, FindInv

LEMMA FindNext == Types /\ FindInv /\ [Next]_vars => FindInv'
<1> SUFFICES ASSUME Types, FindInv, [Next]_vars PROVE FindInv'
  OBVIOUS
<1> USE DEF FindInv
<1>1. CASE UNCHANGED <<begun, found, merged, crls>>
  BY <1>1, Zenon
<1>2. CASE List
  BY <1>2 DEF List, redis, Types
<1>3. CASE Identified
  <2>1. found \in [Threads -> SUBSET (Issuers \X Urls)]
    BY DEF Types
  <2> DEFINE Done == {s \in Threads : tpc[s] = "done"}
  <2>2. /\ merged' = UNION {found[t] : t \in Done}
        /\ found' = [t \in Threads |-> {}]
        /\ UNCHANGED <<begun, crls>>
    BY <1>3 DEF Identified, redis
  <2>3. ASSUME NEW p \in merged', NEW v \in begun[p[1]] PROVE <<p[1], v>> \in merged'
    BY <2>2
  <2> QED
    BY <2>2, <2>3
<1>4. ASSUME NEW f \in SUBSET Issuers, NEW c \in [Issuers -> SUBSET Urls], RedisBecomes(f, c) PROVE FindInv'
  <2>1. \A j \in Issuers : crls[j] \subseteq crls'[j]
    BY <1>4 DEF RedisBecomes, Types, TypeOK
  <2> QED
    BY <1>4, <2>1, Zenon DEF RedisBecomes, main
<1>5. ASSUME NEW t \in Threads, NEW i \in queue, Find(t, i), ~cancelled PROVE FindInv'
  <2>1. /\ found' = [found EXCEPT ![t] = @ \cup {<<i, u>> : u \in crls[i]}]
        /\ UNCHANGED <<begun, merged, crls>>
    BY <1>5 DEF Find, redis, main
  <2>2. found \in [Threads -> SUBSET (Issuers \X Urls)] /\ i \in Issuers
    BY DEF Types
  <2>3. begun[i] \subseteq crls[i]
    BY <2>2
  <2>4. ASSUME NEW s \in Threads, NEW p \in found'[s], NEW v \in begun[p[1]]
        PROVE  <<p[1], v>> \in found'[s]
    <3>1. CASE p \in found[s]
      BY <3>1, <2>1, <2>2
    <3>2. CASE s = t /\ p \in {<<i, u>> : u \in crls[i]}
      BY <3>2, <2>1, <2>2, <2>3
    <3> QED
      BY <3>1, <3>2, <2>1, <2>2
  <2> QED
    BY <2>1, <2>4
<1>6. ASSUME NEW t \in Threads, Goroutine(t) PROVE FindInv'
  <2>1. CASE \E i \in queue : Find(t, i) /\ ~cancelled
    BY <2>1, <1>5
  <2>2. ASSUME NEW i \in queue, Find(t, i), cancelled PROVE UNCHANGED <<begun, found, merged, crls>>
    BY <2>2, Zenon DEF Find, redis, main
  <2>3. CASE ~ \E i \in queue : Find(t, i)
    <3>1. UNCHANGED <<begun, found, merged, crls>>
      BY <1>6, <2>3, Zenon DEF Goroutine, redis, main, RunsOut, Take, Quit, Fetch,
           SendResult, Aggregate, EnrollIssuer, StoreRevoked, StoreInterrupted
    <3> QED
      BY <3>1, <1>1, SMTT(30)
  <2> QED
    BY <2>1, <2>2, <2>3, <1>1
<1>7. CASE Load \/ Signal \/ IdentifyCancelled \/ Downloaded \/ SaveIssuersList \/ UNCHANGED vars
  BY <1>7, <1>1 DEF vars, redis, main, Load, Signal, IdentifyCancelled, Downloaded,
       SaveIssuersList
<1> QED
  BY <1>2, <1>3, <1>4, <1>6, <1>7, Zenon DEF Next, JobNext, Main

-----------------------------------------------------------------------------
(* The aggregation.                                                        *)

(* The goroutine that a step does not concern.                             *)
LEMMA WorkFrame ==
  ASSUME NEW s \in Threads, Work(s), UNCHANGED <<merged, paths>>,
         tpc'[s] = tpc[s], job'[s] = job[s], left'[s] = left[s],
         failed'[s] = failed[s], collected'[s] = collected[s]
  PROVE  Work(s)'
<1>1. /\ UrlsOf(job[s])' = UrlsOf(job[s])
      /\ Worked(s)' = Worked(s) /\ Gathered(s)' = Gathered(s)
  <2>1. UrlsOf(job[s])' = UrlsOf(job[s])
    BY Zenon DEF UrlsOf
  <2>2. Worked(s)' = Worked(s)
    BY <2>1, Zenon DEF Worked
  <2>3. Gathered(s)' = Gathered(s)
    BY <2>2, Zenon DEF Gathered
  <2> QED
    BY <2>1, <2>2, <2>3, Zenon
<1>2. \A u : paths'[<<job'[s], u>>] = paths[<<job[s], u>>]
  OBVIOUS
<1> QED
  BY <1>1, <1>2, Zenon DEF Work

LEMMA WorkNext == Types /\ WorkInv /\ [Next]_vars => WorkInv'
<1> SUFFICES ASSUME Types, WorkInv, [Next]_vars, mpc' = "aggregate"
             PROVE  \A t \in Threads : Work(t)'
  BY DEF WorkInv
<1>ty. /\ tpc \in [Threads -> {"ready", "busy", "store", "quit", "done"}]
       /\ job \in [Threads -> Issuers] /\ left \in [Threads -> SUBSET Urls]
       /\ failed \in [Threads -> BOOLEAN] /\ DOMAIN collected = Threads
  BY DEF Types, TypeOK
<1>1. CASE Downloaded
  BY <1>1 DEF Downloaded, AllReady, Work
<1>2. CASE mpc = "aggregate" /\ UNCHANGED <<merged, paths, tpc, pool>>
  BY <1>2, WorkFrame DEF WorkInv, pool
<1>3. ASSUME NEW t \in Threads, Goroutine(t), mpc = "aggregate"
      PROVE  \A s \in Threads : Work(s)'
  <2>1. \A s \in Threads : Work(s)
    BY <1>3, SMTT(30) DEF WorkInv
  <2>2. UNCHANGED <<merged, paths>>
    BY <1>3, ZenonT(30) DEF Goroutine, main, files, RunsOut, Find, Take, Quit, Fetch,
         SendResult, Aggregate, EnrollIssuer, StoreRevoked, StoreInterrupted
  <2>3. \A s \in Threads \ {t} :
          /\ tpc'[s] = tpc[s] /\ job'[s] = job[s] /\ left'[s] = left[s]
          /\ failed'[s] = failed[s] /\ collected'[s] = collected[s]
    BY <1>3, <1>ty, ZenonT(30) DEF Goroutine, Step, pool, RunsOut, Find, Take, Quit, Fetch,
         SendResult, Aggregate, EnrollIssuer, StoreRevoked, StoreInterrupted
  <2>4. \A s \in Threads \ {t} : Work(s)'
    BY <2>1, <2>2, <2>3, WorkFrame, ZenonT(30)
  <2>5. Work(t)'
    <3>1. CASE tpc'[t] \notin {"busy", "store"}
      BY <3>1 DEF Work
    <3>2. ASSUME NEW i \in queue, Take(t, i) PROVE Work(t)'
      <4>1. /\ left'[t] = UrlsOf(i) /\ job'[t] = i /\ tpc'[t] = "busy"
            /\ failed'[t] = FALSE /\ collected'[t] = {}
        BY <3>2, <1>ty DEF Take, Step, AnyCrlFailed
      <4>2. UrlsOf(i)' = UrlsOf(i)
        BY <2>2 DEF UrlsOf
      <4>3. Worked(t)' = {} /\ Gathered(t)' = {}
        BY <4>1, <4>2, ZenonT(30) DEF Worked, Gathered, UrlsOf
      <4> QED
        BY <4>1, <4>2, <4>3 DEF Work, UrlsOf
    <3>3. ASSUME NEW u \in left[t], Aggregate(t, u) PROVE Work(t)'
      <4> DEFINE crl == paths[<<job[t], u>>]
      <4>1. /\ left'[t] = left[t] \ {u} /\ tpc'[t] = "busy" /\ job'[t] = job[t]
            /\ failed'[t] = (failed[t] \/ crl.kind # "crl")
            /\ collected'[t] = collected[t] \cup crl.revoked
            /\ tpc[t] = "busy"
        BY <3>3, <1>ty, Zenon DEF Aggregate
      <4>2. UrlsOf(job[t])' = UrlsOf(job[t])
        BY <2>2, <4>1 DEF UrlsOf
      <4>3. left[t] \subseteq UrlsOf(job[t])
        BY <2>1, <4>1, Zenon DEF Work
      <4>4. Worked(t)' = Worked(t) \cup {u}
        BY <4>1, <4>2, <4>3 DEF Worked
      <4>5. Gathered(t)' = Gathered(t) \cup crl.revoked
        BY <4>1, <4>4, <2>2, Zenon DEF Gathered
      <4>6. collected'[t] = Gathered(t)'
        BY <4>1, <4>5, <2>1 DEF Work
      <4>7. failed'[t] <=> (\E v \in Worked(t) : paths[<<job[t], v>>].kind # "crl")'
        <5>1. failed[t] <=> \E v \in Worked(t) : paths[<<job[t], v>>].kind # "crl"
          BY <2>1, <4>1, Zenon DEF Work
        <5>2. (\E v \in Worked(t) : paths[<<job[t], v>>].kind # "crl")'
                <=> (\E v \in Worked(t) : paths[<<job[t], v>>].kind # "crl") \/ crl.kind # "crl"
          BY <4>1, <4>4, <2>2, Zenon
        <5> QED
          BY <5>1, <5>2, <4>1, Zenon
      <4> QED
        BY <4>1, <4>2, <4>3, <4>6, <4>7 DEF Work
    <3>4. CASE EnrollIssuer(t) /\ Enrollable(t)
      <4>1. /\ left[t] = {} /\ tpc[t] = "busy" /\ tpc'[t] = "store"
            /\ UNCHANGED <<job, left, failed, collected>>
        <5>1. tpc' = [tpc EXCEPT ![t] = "store"]
          BY <3>4, Zenon DEF EnrollIssuer, Step
        <5> QED
          BY <3>4, <5>1, <1>ty DEF EnrollIssuer, pool
      <4>2. ~failed[t] /\ collected[t] # {}
        BY <3>4, Zenon DEF Enrollable
      <4>3. /\ UrlsOf(job[t])' = UrlsOf(job[t])
            /\ Worked(t)' = Worked(t) /\ Gathered(t)' = Gathered(t)
        <5>1. merged' = merged /\ paths' = paths /\ job' = job /\ left' = left
          BY <2>2, <4>1
        <5>2. UrlsOf(job[t])' = UrlsOf(job[t]) /\ Worked(t)' = Worked(t)
          BY <5>1, Zenon DEF Worked, UrlsOf
        <5> QED
          BY <5>1, <5>2, Zenon DEF Gathered
      <4>4. \A v \in Worked(t) : paths[<<job[t], v>>].kind = "crl"
        BY <2>1, <4>1, <4>2, Zenon DEF Work
      <4>5. ~failed'[t] /\ \A v \in Worked(t)' : paths'[<<job'[t], v>>].kind = "crl"
        BY <4>1, <4>2, <4>3, <4>4, <2>2, Zenon
      <4>6. collected'[t] = Gathered(t)'
        BY <2>1, <4>1, <4>3 DEF Work
      <4> QED
        BY <2>1, <4>1, <4>2, <4>3, <4>5, <4>6 DEF Work
    <3>5. CASE tpc' = tpc /\ UNCHANGED pool
      BY <3>5, <2>1, <2>2, WorkFrame DEF pool
    <3> QED
      BY <1>3, <1>ty, <3>1, <3>2, <3>3, <3>4, <3>5, Zenon DEF Goroutine, Step, RunsOut, Find, Quit,
           Fetch, SendResult, EnrollIssuer, StoreRevoked, StoreInterrupted
  <2> QED
    BY <2>4, <2>5
<1> QED
  <2>1. CASE \E t \in Threads : Goroutine(t)
    <3>1. mpc = "aggregate"
      BY <2>1, ZenonT(30) DEF Goroutine, main, RunsOut, Find, Take, Quit, Fetch,
           SendResult, Aggregate, EnrollIssuer, StoreRevoked, StoreInterrupted
    <3> QED
      BY <2>1, <3>1, <1>3, SMTT(30)
  <2>2. CASE ~ \E t \in Threads : Goroutine(t)
    BY <2>2, <1>1, <1>2 DEF Next, JobNext, Main, vars, main, files, Load, List, Signal,
         IdentifyCancelled, Identified, SaveIssuersList, RedisBecomes
  <2> QED
    BY <2>1, <2>2
(* What the CRLs say depends on the URLs and the paths only.               *)
LEMMA SameVerdict ==
  ASSUME UNCHANGED <<merged, paths>>, NEW i
  PROVE  /\ UrlsOf(i)' = UrlsOf(i) /\ Processed(i)' = Processed(i)
         /\ RevokedOf(i)' = RevokedOf(i)
<1>1. UrlsOf(i)' = UrlsOf(i)
  BY Zenon DEF UrlsOf
<1> QED
  BY <1>1, ZenonT(30) DEF Processed, RevokedOf

(* A process that has ended does nothing.                                  *)
LEMMA Exited ==
  ASSUME mpc = "exited", [Next]_vars
  PROVE  UNCHANGED <<mpc, issuers, merged, begun, cancelled, audit, paths, revoked, saved, tpc>>
<1>1. ASSUME NEW t \in Threads PROVE ~ Goroutine(t)
  BY ZenonT(30) DEF Goroutine, RunsOut, Find, Take, Quit, Fetch, SendResult, Aggregate, EnrollIssuer,
       StoreRevoked, StoreInterrupted
<1>2. ~ Main /\ ~ Signal
  BY Zenon DEF Main, Load, List, IdentifyCancelled, Identified, Downloaded, SaveIssuersList, Signal
<1>3. UNCHANGED vars \/ \E f \in SUBSET Issuers, c \in [Issuers -> SUBSET Urls] : RedisBecomes(f, c)
  BY <1>1, <1>2, SMTT(30) DEF Next, JobNext
<1> QED
  BY <1>3, SMTT(30) DEF vars, main, files, RedisBecomes

(* A goroutine with no URL left holds what is to be stored.                *)
LEMMA AllWorked ==
  ASSUME NEW t \in Threads, Work(t), tpc[t] \in {"busy", "store"}, left[t] = {},
         ~failed[t], collected[t] # {}
  PROVE  Processed(job[t]) /\ collected[t] = RevokedOf(job[t])
<1>1. Worked(t) = UrlsOf(job[t])
  BY Zenon DEF Worked
<1>2. collected[t] = Gathered(t)
  BY DEF Work
<1>3. \A u \in Worked(t) : paths[<<job[t], u>>].kind = "crl"
  BY Zenon DEF Work
<1>4. collected[t] = RevokedOf(job[t])
  BY <1>1, <1>2 DEF Gathered, RevokedOf
<1> QED
  BY <1>1, <1>3, <1>4, Zenon DEF Processed

LEMMA EnrolNext ==
  Types /\ FindInv /\ WorkInv /\ EnrolInv /\ [Next]_vars => EnrolInv'
<1> SUFFICES ASSUME Types, FindInv, WorkInv, EnrolInv, [Next]_vars PROVE EnrolInv'
  BY Zenon
<1> DEFINE Early == {"load", "list", "identify", "download"}
           Kept(i) == /\ RevokedOf(i) # {} /\ Processed(i)
                      /\ \/ revoked[i] = RevokedOf(i)
                         \/ \E t \in Threads : tpc[t] = "store" /\ job[t] = i
<1>ty. /\ tpc \in [Threads -> {"ready", "busy", "store", "quit", "done"}]
       /\ job \in [Threads -> Issuers] /\ DOMAIN revoked = Issuers
       /\ \A j \in DOMAIN issuers : DOMAIN issuers[j] = {"certs", "enrolled"} /\ issuers[j].certs # {}
  BY Zenon DEF Types, TypeOK, InProgram
<1>1. CASE mpc = "exited"
  <2>1. UNCHANGED <<mpc, issuers, merged, begun, cancelled, audit, paths, revoked, saved, tpc>>
    BY <1>1, Exited
  <2>2. EnrolledSound' <=> EnrolledSound
    BY <2>1, SameVerdict, ZenonT(30) DEF EnrolledSound, InProgram
  <2> QED
    BY <1>1, <2>1, <2>2 DEF EnrolInv
<1>2. CASE mpc # "exited" /\ saved' = saved
  <2>1. saved' = <<>>
    BY <1>2 DEF EnrolInv
  <2>2. ASSUME mpc' \in Early PROVE Enrolled(issuers)' = {}
    <3>1. CASE issuers' = issuers /\ mpc \in Early
      BY <3>1 DEF EnrolInv, Enrolled
    <3>2. ASSUME NEW r, issuers' = ParseCCADB(r) PROVE Enrolled(issuers)' = {}
      BY <3>2, Parsed DEF ParseCCADB
    <3>3. CASE Load
      BY <2>2, <3>1, <3>2, <3>3, SMTT(30) DEF Load
    <3>4. ASSUME NEW t \in Threads, Goroutine(t) PROVE issuers' = issuers /\ mpc \in Early
      BY <2>2, <3>4, ZenonT(30) DEF Goroutine, main, RunsOut, Find, Take, Quit, Fetch,
           SendResult, Aggregate, EnrollIssuer, StoreRevoked, StoreInterrupted
    <3>5. CASE ~Load /\ ~ \E t \in Threads : Goroutine(t)
      BY <2>2, <3>1, <3>5, ZenonT(30) DEF Next, JobNext, Main, vars, main, List, Signal, IdentifyCancelled,
           Identified, Downloaded, SaveIssuersList, RedisBecomes
    <3> QED
      BY <3>1, <3>3, <3>4, <3>5
  <2>3. ASSUME mpc' = "aggregate" PROVE \A i \in Enrolled(issuers)' : Kept(i)'
    <3>1. CASE Downloaded
      BY <3>1, Zenon DEF Downloaded, EnrolInv, Enrolled
    <3>2. ASSUME UNCHANGED <<merged, paths, issuers, revoked>>, mpc = "aggregate",
                 \A s \in Threads : tpc[s] = "store" => tpc'[s] = "store" /\ job'[s] = job[s]
          PROVE  \A i \in Enrolled(issuers)' : Kept(i)'
      <4>1. \A i \in Enrolled(issuers) : Kept(i)
        BY <3>2, Zenon DEF EnrolInv
      <4> QED
        BY <4>1, <3>2, SameVerdict DEF Enrolled
    <3>3. ASSUME NEW t \in Threads, Goroutine(t) PROVE \A i \in Enrolled(issuers)' : Kept(i)'
      <4>0. mpc = "aggregate" /\ UNCHANGED <<merged, paths>>
        BY <2>3, <3>3, ZenonT(30) DEF Goroutine, main, files, RunsOut, Find, Take, Quit, Fetch,
             SendResult, Aggregate, EnrollIssuer, StoreRevoked, StoreInterrupted
      <4>1. (\A i \in Enrolled(issuers) : Kept(i)) /\ Work(t)
        BY <4>0, Zenon DEF EnrolInv, WorkInv
      <4>2. CASE EnrollIssuer(t) /\ Enrollable(t)
        <5>1. tpc' = [tpc EXCEPT ![t] = "store"] /\ issuers' = Enroll(issuers, job[t])
          BY <4>2, Zenon DEF EnrollIssuer, Step
        <5>2. ~failed[t] /\ collected[t] # {}
          BY <4>2, Zenon DEF Enrollable
        <5>3. tpc[t] = "busy" /\ left[t] = {} /\ UNCHANGED <<job, revoked>>
          BY <4>2 DEF EnrollIssuer, pool, files
        <5>4. RevokedOf(job[t]) # {} /\ Processed(job[t])
          BY <4>1, <5>2, <5>3, AllWorked, Zenon
        <5>5. Enrolled(issuers)' \subseteq Enrolled(issuers) \cup {job[t]}
          BY <5>1, <1>ty, EnrollOne, SMTT(30) DEF Enrolled
        <5>6. Kept(job[t])'
          BY <5>1, <5>3, <5>4, <4>0, <1>ty, SameVerdict, Zenon
        <5>7. \A i \in Enrolled(issuers) : Kept(i)'
          BY <5>1, <5>3, <4>0, <4>1, <1>ty, SameVerdict
        <5> QED
          BY <5>3, <5>5, <5>6, <5>7
      <4>3. CASE StoreRevoked(t)
        <5>1. /\ tpc[t] = "store" /\ tpc' = [tpc EXCEPT ![t] = "ready"]
              /\ revoked' = [revoked EXCEPT ![job[t]] = collected[t]]
              /\ UNCHANGED <<job, issuers>>
          BY <4>3 DEF StoreRevoked, Step, pool, main
        <5>2. left[t] = {} /\ ~failed[t] /\ collected[t] # {}
          BY <4>1, <5>1, Zenon DEF Work
        <5>3. collected[t] = RevokedOf(job[t])
          BY <4>1, <5>1, <5>2, AllWorked, Zenon
        <5>4. \A i \in Issuers : revoked'[i] = revoked[i] \/ revoked'[i] = RevokedOf(i)
          BY <5>1, <5>3, <1>ty
        <5>5. revoked'[job[t]] = RevokedOf(job[t])
          BY <5>1, <5>3, <1>ty, Zenon
        <5>6. ASSUME NEW i \in Enrolled(issuers) PROVE Kept(i)'
          <6>1. CASE i = job[t]
            BY <6>1, <5>1, <5>5, <4>0, <4>1, SameVerdict, Zenon
          <6>2. CASE i # job[t] /\ revoked[i] = RevokedOf(i)
            BY <6>2, <5>1, <4>0, <4>1, <1>ty, SameVerdict, SMTT(30)
          <6>3. CASE i # job[t] /\ \E s \in Threads : tpc[s] = "store" /\ job[s] = i
            BY <6>3, <5>1, <4>0, <4>1, <1>ty, SameVerdict, Zenon
          <6> QED
            BY <6>1, <6>2, <6>3, <4>1, Zenon
        <5> QED
          BY <5>1, <5>6 DEF Enrolled
      <4>4. CASE EnrollIssuer(t) /\ ~Enrollable(t)
        <5>1. tpc' = [tpc EXCEPT ![t] = "ready"] /\ issuers' = issuers
          BY <4>4, Zenon DEF EnrollIssuer, Step
        <5> QED
          BY <4>4, <5>1, <4>0, <3>2, <1>ty DEF EnrollIssuer, pool, files
      <4>5. CASE ~EnrollIssuer(t) /\ ~StoreRevoked(t)
        <5>1. /\ UNCHANGED <<issuers, revoked>>
              /\ \A s \in Threads : tpc[s] = "store" => tpc'[s] = "store" /\ job'[s] = job[s]
          BY <2>3, <3>3, <4>0, <4>5, <1>ty, ZenonT(30) DEF Goroutine, Step, pool, main, files, RunsOut, Find,
               Take, Quit, Fetch, SendResult, Aggregate, StoreInterrupted
        <5> QED
          BY <5>1, <4>0, <3>2, SMTT(30)
      <4> QED
        BY <4>2, <4>3, <4>4, <4>5, SMTT(30)
    <3>4. CASE ~Downloaded /\ ~ \E t \in Threads : Goroutine(t)
      BY <2>3, <3>2, <3>4, ZenonT(30) DEF Next, JobNext, Main, vars, main, pool, files, Load, List, Signal,
           IdentifyCancelled, Identified, SaveIssuersList, RedisBecomes
    <3> QED
      BY <3>1, <3>3, <3>4, Zenon
  <2> QED
    BY <2>1, <2>2, <2>3 DEF EnrolInv
<1>3. CASE mpc # "exited" /\ saved' # saved
  <2>1. SaveIssuersList
    BY <1>3, ZenonT(30) DEF Next, JobNext, Main, Goroutine, vars, main, files, Load, List, Signal,
         IdentifyCancelled, Identified, Downloaded, RedisBecomes, RunsOut, Find, Take, Quit, Fetch,
         SendResult, Aggregate, EnrollIssuer, StoreRevoked, StoreInterrupted
  <2>2. /\ saved' = <<IssuersList(issuers)>> /\ mpc = "aggregate" /\ mpc' = "exited"
        /\ PoolEmpty /\ UNCHANGED <<merged, paths, issuers, revoked, begun>>
    BY <1>3, <2>1 DEF SaveIssuersList
  <2>3. ASSUME NEW e \in IssuersList(issuers), e.enrolled
        PROVE  /\ e.issuer \in InProgram /\ begun[e.issuer] \subseteq UrlsOf(e.issuer)
               /\ Processed(e.issuer) /\ RevokedOf(e.issuer) # {}
               /\ revoked[e.issuer] = RevokedOf(e.issuer)
    <3>1. e.issuer \in DOMAIN issuers /\ e.issuer \in Enrolled(issuers)
      BY <2>3, <1>ty, ListIsMap, Zenon
    <3>2. Kept(e.issuer)
      BY <2>2, <3>1 DEF EnrolInv
    <3>3. revoked[e.issuer] = RevokedOf(e.issuer)
      BY <2>2, <3>2 DEF PoolEmpty
    <3>4. begun[e.issuer] \subseteq UrlsOf(e.issuer)
      <4>1. PICK u : <<e.issuer, u>> \in merged
        BY <3>2, UrlsAre, Zenon DEF RevokedOf
      <4>2. \A v \in begun[e.issuer] : <<e.issuer, v>> \in merged
        BY <4>1 DEF FindInv
      <4> QED
        BY <4>2, UrlsAre, Zenon
    <3> QED
      BY <3>1, <3>2, <3>3, <3>4 DEF InProgram
  <2>4. EnrolledSound'
    <3>1. saved'[1] = IssuersList(issuers)
      BY <2>2, Zenon
    <3> QED
      BY <2>2, <2>3, <3>1, SameVerdict, Zenon DEF EnrolledSound, InProgram
  <2> QED
    BY <2>2, <2>4, ZenonT(30) DEF EnrolInv
<1> QED
  BY <1>1, <1>2, <1>3
-----------------------------------------------------------------------------
(* The audit report, and a run without a signal.                           *)

LEMMA AuditNext == Types /\ AuditInv /\ [Next]_vars => AuditInv'
<1> SUFFICES ASSUME Types, AuditInv, [Next]_vars PROVE AuditInv'
  OBVIOUS
<1> USE DEF AuditInv
<1> DEFINE Early == {"load", "list", "identify", "download"}
<1>1. CASE UNCHANGED <<audit, paths>> /\ (mpc' \in Early => mpc \in Early)
  BY <1>1, Zenon
<1>2. ASSUME NEW t \in Threads, Goroutine(t) PROVE AuditInv'
  <2>1. ASSUME NEW u \in left[t], Fetch(t, u) PROVE AuditInv'
    BY <2>1, Zenon DEF Fetch, main
  <2>2. ASSUME NEW u \in left[t], Aggregate(t, u) PROVE AuditInv'
    <3> DEFINE crl == paths[<<job[t], u>>]
    <3>1. mpc = "aggregate" /\ mpc' = mpc /\ paths' = paths
      BY <2>2, Zenon DEF Aggregate, main, files
    <3>2. audit' = audit \/ (crl.kind # "blank" /\ audit' = audit \cup {<<job[t], u, AuditKind(crl)>>})
      BY <2>2, Zenon DEF Aggregate
    <3>3. AuditKind(crl) \in {"Valid", "Empty", "Failed"} /\ job[t] \in Issuers /\ u \in Urls
      BY Zenon DEF Types, TypeOK, AuditKind
    <3>4. CASE crl.kind # "blank" /\ audit' = audit \cup {<<job[t], u, AuditKind(crl)>>}
      <4>1. audit' \subseteq Issuers \X Urls \X {"Valid", "Empty", "Failed"}
        BY <3>3, <3>4
      <4>2. \A a \in audit' : paths[<<a[1], a[2]>>].kind # "blank"
                              /\ a[3] = AuditKind(paths[<<a[1], a[2]>>])
        <5> SUFFICES ASSUME NEW a \in audit'
                     PROVE  paths[<<a[1], a[2]>>].kind # "blank"
                            /\ a[3] = AuditKind(paths[<<a[1], a[2]>>])
          BY Zenon
        <5>1. CASE a = <<job[t], u, AuditKind(crl)>>
          <6>1. a[1] = job[t] /\ a[2] = u /\ a[3] = AuditKind(crl)
            BY <5>1, Zenon
          <6> QED
            BY <6>1, <3>4, Zenon
        <5> QED
          BY <5>1, <3>4
      <4> QED
        BY <3>1, <4>1, <4>2, Zenon
    <3> QED
      BY <3>1, <3>2, <3>4, Zenon
  <2>3. CASE ~ \E u \in left[t] : Fetch(t, u) \/ Aggregate(t, u)
    <3>1. UNCHANGED <<audit, paths>> /\ (mpc' \in Early => mpc \in Early)
      BY <1>2, <2>3, ZenonT(30) DEF Goroutine, main, files, RunsOut, Find, Take, Quit, SendResult,
           EnrollIssuer, StoreRevoked, StoreInterrupted
    <3> QED
      BY <3>1, <1>1, SMTT(30)
  <2> QED
    BY <2>1, <2>2, <2>3, Zenon
<1>3. CASE ~ \E t \in Threads : Goroutine(t)
  BY <1>1, <1>3, Zenon DEF Next, JobNext, Main, vars, main, files, Load, List, Signal,
       IdentifyCancelled, Identified, Downloaded, SaveIssuersList, RedisBecomes
<1> QED
  BY <1>2, <1>3
(* What is settled stays so while the CRLs are aggregated.                 *)
LEMMA SettledStays ==
  ASSUME NEW i, Settled(i), UNCHANGED <<merged, paths>>, audit \subseteq audit',
         Enrolled(issuers) \subseteq Enrolled(issuers)'
  PROVE  Settled(i)'
<1>1. \A u : Audited(i, u) => Audited(i, u)'
  BY Zenon DEF Audited
<1> QED
  BY <1>1, SameVerdict, Zenon DEF Settled

(* A step of goroutine t while the CRLs are aggregated.                    *)
LEMMA WorkerSettles ==
  ASSUME Types, WorkInv, UndisturbedInv, ~cancelled, mpc = "aggregate", mpc' = "aggregate",
         NEW t \in Threads, Goroutine(t)
  PROVE  /\ \A p \in merged' : p[1] \in queue' \/ InHand(p[1])' \/ Settled(p[1])'
         /\ \A s \in Threads : Reported(s)'
<1>ty. /\ tpc \in [Threads -> {"ready", "busy", "store", "quit", "done"}]
       /\ job \in [Threads -> Issuers] /\ left \in [Threads -> SUBSET Urls]
       /\ \A j \in DOMAIN issuers : DOMAIN issuers[j] = {"certs", "enrolled"} /\ issuers[j].certs # {}
       /\ \A s \in Threads : tpc[s] \in {"busy", "store"} => job[s] \in DOMAIN issuers
  BY DEF Types, TypeOK, InProgram
<1>in. /\ \A p \in merged : p[1] \in queue \/ InHand(p[1]) \/ Settled(p[1])
       /\ (\A s \in Threads : Reported(s)) /\ Work(t)
  BY SMTT(30) DEF UndisturbedInv, WorkInv
<1>fr. UNCHANGED <<merged, paths>>
  BY Zenon DEF Goroutine, main, files, RunsOut, Find, Take, Quit, Fetch,
       SendResult, Aggregate, EnrollIssuer, StoreRevoked, StoreInterrupted
<1>gr. audit \subseteq audit' /\ Enrolled(issuers) \subseteq Enrolled(issuers)'
  <2>1. audit \subseteq audit'
    BY ZenonT(30) DEF Goroutine, RunsOut, Find, Take, Quit, Fetch,
         SendResult, Aggregate, EnrollIssuer, StoreRevoked, StoreInterrupted
  <2>2. issuers' = issuers \/ issuers' = Enroll(issuers, job[t])
    BY ZenonT(30) DEF Goroutine, main, RunsOut, Find, Take, Quit, Fetch,
         SendResult, Aggregate, EnrollIssuer, StoreRevoked, StoreInterrupted
  <2>3. Enrolled(issuers') = Enrolled(issuers) \/
        Enrolled(issuers') = Enrolled(issuers) \cup ({job[t]} \cap DOMAIN issuers)
    BY <2>2, <1>ty, EnrollOne, Zenon
  <2>4. Enrolled(issuers)' = Enrolled(issuers')
    BY DEF Enrolled
  <2> QED
    BY <2>1, <2>3, <2>4, SMTT(30)
<1>st. \A i : Settled(i) => Settled(i)'
  BY <1>fr, <1>gr, SettledStays
<1>au. \A i, u : Audited(i, u) => Audited(i, u)'
  BY <1>fr, <1>gr, SMTT(30) DEF Audited
(* The others.                                                             *)
<1>ot. \A s \in Threads \ {t} : tpc'[s] = tpc[s] /\ job'[s] = job[s] /\ left'[s] = left[s]
  BY <1>ty, ZenonT(30) DEF Goroutine, Step, pool, RunsOut, Find, Take, Quit, Fetch,
       SendResult, Aggregate, EnrollIssuer, StoreRevoked, StoreInterrupted
<1>1. ASSUME NEW s \in Threads \ {t} PROVE Reported(s)'
  <2>1. Worked(s)' = Worked(s)
    BY <1>fr, <1>ot, ZenonT(30) DEF Worked, UrlsOf
  <2> QED
    BY <2>1, <1>in, <1>au, <1>ot, ZenonT(30) DEF Reported
<1>2. ASSUME NEW i, InHand(i), tpc[t] # "busy" \/ job[t] # i PROVE InHand(i)'
  BY <1>2, <1>ot, ZenonT(30) DEF InHand
(* Goroutine t.                                                            *)
<1>3. ASSUME NEW j \in queue, Take(t, j)
      PROVE  /\ \A p \in merged' : p[1] \in queue' \/ InHand(p[1])' \/ Settled(p[1])'
             /\ Reported(t)'
  <2>1. /\ queue' = queue \ {j} /\ tpc[t] = "ready" /\ tpc'[t] = "busy" /\ job'[t] = j
        /\ left'[t] = UrlsOf(j)
    BY <1>3, <1>ty, ZenonT(30) DEF Take, Step
  <2>2. InHand(j)'
    BY <2>1, ZenonT(30) DEF InHand
  <2>3. Worked(t)' = {}
    BY <2>1, <1>fr, ZenonT(30) DEF Worked, UrlsOf
  <2> QED
    BY <2>1, <2>2, <2>3, <1>in, <1>fr, <1>st, <1>2, ZenonT(30) DEF Reported
<1>4. ASSUME NEW v \in left[t], Aggregate(t, v)
      PROVE  /\ \A p \in merged' : p[1] \in queue' \/ InHand(p[1])' \/ Settled(p[1])'
             /\ Reported(t)'
  <2> DEFINE crl == paths[<<job[t], v>>]
  <2>1. /\ queue' = queue /\ tpc[t] = "busy" /\ tpc' = tpc /\ job' = job
        /\ left'[t] = left[t] \ {v}
        /\ crl.kind # "blank" => <<job[t], v, AuditKind(crl)>> \in audit'
    BY <1>4, <1>ty, Zenon DEF Aggregate
  <2>2. Audited(job[t], v)'
    BY <2>1, <1>fr, Zenon DEF Audited
  <2>3. Worked(t)' \subseteq Worked(t) \cup {v}
    BY <2>1, <1>fr, Zenon DEF Worked, UrlsOf
  <2>4. \A i : InHand(i) => InHand(i)'
    BY <2>1, ZenonT(30) DEF InHand
  <2> QED
    BY <2>1, <2>2, <2>3, <2>4, <1>in, <1>fr, <1>st, <1>au, SMTT(30) DEF Reported
<1>5. ASSUME EnrollIssuer(t)
      PROVE  /\ \A p \in merged' : p[1] \in queue' \/ InHand(p[1])' \/ Settled(p[1])'
             /\ Reported(t)'
  <2>1. queue' = queue /\ tpc[t] = "busy" /\ left[t] = {} /\ job' = job
    BY <1>5, ZenonT(30) DEF EnrollIssuer, pool
  <2>2. tpc'[t] # "busy"
    BY <1>5, <1>ty, ZenonT(30) DEF EnrollIssuer, Step
  <2>3. Worked(t) = UrlsOf(job[t])
    BY <2>1, Zenon DEF Worked
  <2>4. \A u \in UrlsOf(job[t]) : Audited(job[t], u)
    BY <2>1, <2>3, <1>in, Zenon DEF Reported
  <2>5. ASSUME Processed(job[t]), RevokedOf(job[t]) # {}
        PROVE  job[t] \in Enrolled(issuers)'
    <3>1. ~ \E u \in Worked(t) : paths[<<job[t], u>>].kind # "crl"
      BY <2>3, <2>5, Zenon DEF Processed
    <3>2. ~failed[t]
      BY <3>1, <2>1, <1>in, Zenon DEF Work
    <3>3. collected[t] = Gathered(t)
      BY <2>1, <1>in, Zenon DEF Work
    <3>4. Gathered(t) = RevokedOf(job[t])
      BY <2>3 DEF Gathered, RevokedOf
    <3>5. Enrollable(t)
      BY <3>2, <3>3, <3>4, <2>5, Zenon DEF Enrollable
    <3>6. issuers' = Enroll(issuers, job[t])
      BY <1>5, <3>5, ZenonT(30) DEF EnrollIssuer
    <3>7. job[t] \in Enrolled(Enroll(issuers, job[t]))
      BY <1>ty, <2>1, EnrollOne, SMTT(30)
    <3> QED
      BY <3>6, <3>7, SMTT(30) DEF Enrolled
  <2>6. Settled(job[t])'
    BY <2>1, <2>4, <2>5, <1>fr, <1>au, SameVerdict, ZenonT(30) DEF Settled
  <2> QED
    BY <2>1, <2>2, <2>6, <1>in, <1>fr, <1>st, <1>2, Zenon DEF Reported
<1>6. ASSUME ~ \E j \in queue : Take(t, j), ~ \E u \in left[t] : Aggregate(t, u), ~EnrollIssuer(t)
      PROVE  /\ \A p \in merged' : p[1] \in queue' \/ InHand(p[1])' \/ Settled(p[1])'
             /\ Reported(t)'
  <2>1. queue' = queue /\ tpc[t] # "busy" /\ tpc'[t] # "busy"
    BY <1>6, <1>ty, Zenon DEF Goroutine, Step, RunsOut, Find, Quit, Fetch, SendResult, StoreRevoked,
         StoreInterrupted
  <2> QED
    BY <2>1, <1>in, <1>fr, <1>st, <1>2, Zenon DEF Reported
<1> QED
  BY <1>1, <1>3, <1>4, <1>5, <1>6, Zenon

(* Without a signal, an issuer is enrolled when its CRLs were processed    *)
(* and revoke something, ...                                               *)
LEMMA SavedComplete ==
  ASSUME Types, EnrolInv, mpc = "aggregate",
         \A p \in merged : Settled(p[1])
  PROVE  \A i \in InProgram : Processed(i) /\ RevokedOf(i) # {} =>
           \E e \in IssuersList(issuers) : e.issuer = i /\ e.enrolled
<1> SUFFICES ASSUME NEW i \in DOMAIN issuers, Processed(i), RevokedOf(i) # {}
             PROVE  \E e \in IssuersList(issuers) : e.issuer = i /\ e.enrolled
  BY SMTT(30) DEF InProgram
<1>1. PICK u : u \in UrlsOf(i)
  BY Zenon DEF RevokedOf
<1>2. Settled(i)
  <2>1. <<i, u>> \in merged
    BY <1>1, UrlsAre
  <2> QED
    BY <2>1
<1>3. i \in Enrolled(issuers)
  BY <1>2, Zenon DEF Settled
<1>4. \A j \in DOMAIN issuers : issuers[j].certs # {}
  BY DEF Types, InProgram
<1>5. PICK e \in IssuersList(issuers) : e.issuer = i
  BY <1>4, ListIsMap, Zenon
<1>6. e.enrolled
  BY <1>3, <1>4, <1>5, ListIsMap, Zenon
<1> QED
  BY <1>5, <1>6, Zenon

(* ... and the report says so of each of them.                             *)
LEMMA SavedAudit ==
  ASSUME Types, EnrolInv, AuditInv, mpc = "aggregate",
         \A p \in merged : Settled(p[1]),
         NEW i \in DOMAIN issuers
  PROVE  i \in Enrolled(issuers) <=> ReportedGood(i)
<1>1. \A u \in UrlsOf(i) : <<i, u>> \in Issuers \X Urls /\ Settled(i)
  <2> SUFFICES ASSUME NEW u \in UrlsOf(i) PROVE <<i, u>> \in Issuers \X Urls /\ Settled(i)
    BY Zenon
  <2>1. <<i, u>> \in merged /\ merged \subseteq Issuers \X Urls
    BY UrlsAre, Zenon DEF Types
  <2>2. <<i, u>>[1] = i
    OBVIOUS
  <2>3. Settled(<<i, u>>[1])
    BY <2>1, Zenon
  <2>4. Settled(i)
    BY <2>2, <2>3, Zenon
  <2> QED
    BY <2>1, <2>4, Zenon
<1>2. \A u \in UrlsOf(i) : /\ paths[<<i, u>>].kind \in {"blank", "garbled", "crl"}
                           /\ paths[<<i, u>>].kind # "crl" => paths[<<i, u>>].revoked = {}
  BY <1>1, Zenon DEF Types
<1>3. ASSUME NEW u, NEW k, <<i, u, k>> \in audit
      PROVE  paths[<<i, u>>].kind # "blank" /\ k = AuditKind(paths[<<i, u>>])
  BY <1>3 DEF AuditInv
<1>4. \A u \in UrlsOf(i) : Audited(i, u)
  BY <1>1, Zenon DEF Settled
<1>5. ASSUME NEW u \in UrlsOf(i)
      PROVE  /\ Kinds(i, u) \in {{"Valid"}, {"Empty"}} <=> paths[<<i, u>>].kind = "crl"
             /\ Kinds(i, u) = {"Valid"} <=> paths[<<i, u>>].revoked # {}
  <2> DEFINE crl == paths[<<i, u>>]
  <2>1. CASE crl.kind = "blank"
    <3>1. Kinds(i, u) = {}
      BY <2>1, <1>3, Zenon DEF Kinds
    <3> QED
      BY <2>1, <3>1, <1>2, Zenon
  <2>2. CASE crl.kind # "blank"
    <3>1. Kinds(i, u) = {AuditKind(crl)}
      <4>1. <<i, u, AuditKind(crl)>> \in audit
        BY <2>2, <1>4 DEF Audited
      <4>2. AuditKind(crl) \in {"Valid", "Empty", "Failed"}
        BY Zenon DEF AuditKind
      <4> QED
        BY <4>1, <4>2, <1>3, Zenon DEF Kinds
    <3>2. /\ crl.kind = "crl" <=> AuditKind(crl) # "Failed"
          /\ crl.revoked # {} <=> AuditKind(crl) = "Valid"
          /\ AuditKind(crl) \in {"Valid", "Empty", "Failed"}
      BY <2>2, <1>2, SMTT(30) DEF AuditKind
    <3> QED
      BY <3>1, <3>2, Zenon
  <2> QED
    BY <2>1, <2>2, Zenon
<1>6. (\A u \in UrlsOf(i) : Kinds(i, u) \in {{"Valid"}, {"Empty"}}) <=> Processed(i)
  BY <1>5, Zenon DEF Processed
<1>7. (\E u \in UrlsOf(i) : Kinds(i, u) = {"Valid"}) <=> RevokedOf(i) # {}
  <2>1. RevokedOf(i) # {} <=> \E u \in UrlsOf(i) : paths[<<i, u>>].revoked # {}
    BY Zenon DEF RevokedOf
  <2> QED
    BY <2>1, <1>5, Zenon
<1>8. i \in Enrolled(issuers) <=> Processed(i) /\ RevokedOf(i) # {}
  <2>1. i \in Enrolled(issuers) => Processed(i) /\ RevokedOf(i) # {}
    BY DEF EnrolInv
  <2>2. RevokedOf(i) # {} => Settled(i)
    BY <1>1, ZenonT(30) DEF RevokedOf
  <2> QED
    BY <2>1, <2>2, Zenon DEF Settled
<1> QED
  BY <1>6, <1>7, <1>8, SMTT(30) DEF ReportedGood

LEMMA UndisturbedNext ==
  ASSUME Threads # {}, Types, WorkInv, EnrolInv, AuditInv, UndisturbedInv, [Next]_vars
  PROVE  UndisturbedInv'
<1> SUFFICES ASSUME ~cancelled'
             PROVE  /\ \A t \in Threads : tpc'[t] # "quit" /\ (tpc'[t] = "done" => queue' = {})
                    /\ mpc' = "download" =>
                         \A p \in merged' : p[1] \in queue' \cup results' \/ InHand(p[1])'
                    /\ mpc' = "aggregate" =>
                         /\ \A p \in merged' : p[1] \in queue' \/ InHand(p[1])' \/ Settled(p[1])'
                         /\ \A t \in Threads : Reported(t)'
                    /\ UndisturbedComplete' /\ AuditAgrees'
  BY Zenon DEF UndisturbedInv
<1>ty. /\ tpc \in [Threads -> {"ready", "busy", "store", "quit", "done"}]
       /\ job \in [Threads -> Issuers]
       /\ merged \subseteq Issuers \X Urls
       /\ mpc \in {"load", "list"} => \A t \in Threads : tpc[t] = "ready"
       /\ \A j \in DOMAIN issuers : issuers[j].certs # {}
  BY DEF Types, TypeOK, InProgram
<1>nc. ~cancelled
  BY ZenonT(30) DEF Next, JobNext, Main, Goroutine, vars, Load, List, Signal,
       IdentifyCancelled, Identified, Downloaded, SaveIssuersList, RedisBecomes, RunsOut, Find,
       Take, Quit, Fetch, SendResult, Aggregate, EnrollIssuer, StoreRevoked, StoreInterrupted
<1>in. /\ \A t \in Threads : tpc[t] # "quit" /\ (tpc[t] = "done" => queue = {})
       /\ mpc = "download" => \A p \in merged : p[1] \in queue \cup results \/ InHand(p[1])
       /\ mpc = "aggregate" =>
            /\ \A p \in merged : p[1] \in queue \/ InHand(p[1]) \/ Settled(p[1])
            /\ \A t \in Threads : Reported(t)
       /\ UndisturbedComplete /\ AuditAgrees
  BY <1>nc, Zenon DEF UndisturbedInv
<1>1. ASSUME NEW s \in Threads PROVE tpc'[s] # "quit" /\ (tpc'[s] = "done" => queue' = {})
  <2>1. CASE tpc' = AllReady
    BY <2>1 DEF AllReady
  <2>2. CASE List
    BY <2>2, <1>ty, Zenon DEF List
  <2>3. CASE UNCHANGED <<tpc, queue>>
    BY <2>3, <1>in, SMTT(30)
  <2>4. ASSUME NEW t \in Threads, Goroutine(t) PROVE tpc'[s] # "quit" /\ (tpc'[s] = "done" => queue' = {})
    BY <2>4, <1>ty, <1>nc, <1>in, ZenonT(30) DEF Goroutine, Step, RunsOut, Find,
       Take, Quit, Fetch, SendResult, Aggregate, EnrollIssuer, StoreRevoked, StoreInterrupted
  <2> QED
    BY <2>1, <2>2, <2>3, <2>4, Zenon DEF Next, JobNext, Main, vars, Load, Signal,
       IdentifyCancelled, Identified, Downloaded, SaveIssuersList, RedisBecomes
(* When every goroutine has ended, all is done.                            *)
<1>em. PoolEmpty => queue = {} /\ \A i : ~InHand(i)
  BY <1>in, Zenon DEF PoolEmpty, InHand
<1>2. ASSUME mpc' = "download"
      PROVE  \A p \in merged' : p[1] \in queue' \cup results' \/ InHand(p[1])'
  <2>1. CASE Identified
    BY <2>1, Zenon DEF Identified
  <2>2. CASE mpc = "download" /\ UNCHANGED <<merged, queue, results, tpc, job>>
    BY <2>2, <1>in, SMTT(30) DEF InHand
  <2>3. ASSUME NEW t \in Threads, Goroutine(t)
        PROVE  \A p \in merged' : p[1] \in queue' \cup results' \/ InHand(p[1])'
    <3>1. mpc = "download" /\ merged' = merged
      BY <2>3, <1>2, ZenonT(30) DEF Goroutine, main, RunsOut, Find, Take, Quit, Fetch,
         SendResult, Aggregate, EnrollIssuer, StoreRevoked, StoreInterrupted
    <3>2. \A s \in Threads \ {t} : tpc'[s] = tpc[s] /\ job'[s] = job[s]
      BY <2>3, <1>ty, ZenonT(30) DEF Goroutine, Step, pool, RunsOut, Find, Take, Quit, Fetch,
         SendResult, Aggregate, EnrollIssuer, StoreRevoked, StoreInterrupted
    <3>3. CASE \E j \in queue : Take(t, j)
      <4>1. PICK j \in queue : Take(t, j)
        BY <3>3, Zenon
      <4>2. /\ tpc[t] = "ready" /\ queue' = queue \ {j} /\ results' = results
            /\ tpc' = [tpc EXCEPT ![t] = "busy"] /\ job' = [job EXCEPT ![t] = j]
        BY <4>1, Zenon DEF Take, Step, main
      <4>3. tpc'[t] = "busy" /\ job'[t] = j
        BY <4>2, <1>ty, Zenon
      <4>4. InHand(j)'
        BY <4>3, Zenon DEF InHand
      <4>5. ASSUME NEW i, InHand(i) PROVE InHand(i)'
        <5>1. PICK s \in Threads : tpc[s] = "busy" /\ job[s] = i
          BY <4>5, Zenon DEF InHand
        <5>2. s # t
          BY <4>2, <5>1
        <5> QED
          BY <3>2, <5>1, <5>2, Zenon DEF InHand
      <4>6. ASSUME NEW p \in merged' PROVE p[1] \in queue' \cup results' \/ InHand(p[1])'
        <5>1. p[1] \in queue \cup results \/ InHand(p[1])
          BY <3>1, <1>in, Zenon
        <5>2. CASE p[1] = j
          BY <4>4, <5>2, Zenon
        <5>3. CASE p[1] # j
          BY <4>2, <4>5, <5>1, <5>3, Zenon
        <5> QED
          BY <5>2, <5>3, Zenon
      <4> QED
        BY <4>6, Zenon
    <3>4. CASE SendResult(t)
      BY <3>1, <3>2, <3>4, <1>in, <1>ty, Zenon DEF SendResult, Step, InHand, pool
    <3>5. CASE UNCHANGED <<queue, results, tpc, job>>
      BY <3>1, <3>5, <1>in, ZenonT(30) DEF InHand
    <3>6. CASE RunsOut(t)
      BY <3>1, <3>2, <3>6, <1>in, ZenonT(30) DEF RunsOut, InHand, main
    <3> QED
      BY <2>3, <3>1, <3>3, <3>4, <3>5, <3>6, <1>nc, ZenonT(30) DEF Goroutine, pool, main, Find, Quit, Fetch,
         Aggregate, EnrollIssuer, StoreRevoked, StoreInterrupted
  <2> QED
    BY <1>2, <2>1, <2>2, <2>3, ZenonT(30) DEF Next, JobNext, Main, vars, main, pool, Load, List, Signal,
       IdentifyCancelled, Downloaded, SaveIssuersList, RedisBecomes
<1>3. ASSUME mpc' = "aggregate"
      PROVE  /\ \A p \in merged' : p[1] \in queue' \/ InHand(p[1])' \/ Settled(p[1])'
             /\ \A t \in Threads : Reported(t)'
  <2>1. CASE Downloaded
    <3>1. PoolEmpty /\ mpc = "download" /\ queue' = results /\ merged' = merged /\ tpc' = AllReady
      BY <2>1 DEF Downloaded
    <3> QED
      BY <3>1, <1>in, <1>em, Zenon DEF AllReady, Reported
  <2>2. CASE mpc = "aggregate" /\ UNCHANGED <<merged, issuers, queue, tpc, pool, paths, audit>>
    <3>1. \A i : InHand(i) => InHand(i)'
      BY <2>2 DEF InHand, pool
    <3>2. \A i : Settled(i) => Settled(i)'
      BY <2>2, SettledStays DEF Enrolled
    <3>3. \A t \in Threads : Worked(t)' = Worked(t)
      BY <2>2, SMTT(30) DEF Worked, UrlsOf, pool
    <3>4. \A t \in Threads : Reported(t)'
      BY <2>2, <3>3, <1>in DEF Reported, Audited, pool
    <3> QED
      BY <2>2, <3>1, <3>2, <3>4, <1>in, SMTT(30)
  <2>3. ASSUME NEW t \in Threads, Goroutine(t)
        PROVE  /\ \A p \in merged' : p[1] \in queue' \/ InHand(p[1])' \/ Settled(p[1])'
               /\ \A s \in Threads : Reported(s)'
    <3>1. mpc = "aggregate"
      BY <2>3, <1>3, Zenon DEF Goroutine, main, RunsOut, Find, Take, Quit, Fetch,
         SendResult, Aggregate, EnrollIssuer, StoreRevoked, StoreInterrupted
    <3> QED
      BY <2>3, <3>1, <1>3, <1>nc, WorkerSettles, SMTT(30)
  <2> QED
    BY <1>3, <2>1, <2>2, <2>3, Zenon DEF Next, JobNext, Main, vars, main, pool, files, Load, List, Signal,
       IdentifyCancelled, Identified, SaveIssuersList, RedisBecomes
<1>4. UndisturbedComplete' /\ AuditAgrees'
  <2>1. CASE mpc = "exited"
    <3>1. UNCHANGED <<mpc, issuers, merged, begun, cancelled, audit, paths, revoked, saved, tpc>>
      BY <2>1, Exited
    <3>2. UndisturbedComplete' <=> UndisturbedComplete
      BY <3>1, SameVerdict, Zenon DEF UndisturbedComplete, InProgram
    <3>3. \A i : ReportedGood(i)' <=> ReportedGood(i)
      BY <3>1, SameVerdict, ZenonT(30) DEF ReportedGood, Kinds
    <3>4. AuditAgrees' <=> AuditAgrees
      BY <3>1, <3>3, Zenon DEF AuditAgrees
    <3> QED
      BY <3>2, <3>4, <1>in
  <2>2. CASE saved' = <<>>
    BY <2>2, Zenon DEF UndisturbedComplete, AuditAgrees
  <2>3. CASE mpc # "exited" /\ saved' # <<>>
    <3>1. saved = <<>>
      BY <2>3 DEF EnrolInv
    <3>2. SaveIssuersList
      BY <2>3, <3>1, ZenonT(30) DEF Next, JobNext, Main, Goroutine, vars, main, files, Load, List, Signal,
         IdentifyCancelled, Identified, Downloaded, RedisBecomes, RunsOut, Find, Take, Quit, Fetch,
         SendResult, Aggregate, EnrollIssuer, StoreRevoked, StoreInterrupted
    <3>3. /\ saved' = <<IssuersList(issuers)>> /\ mpc = "aggregate"
          /\ PoolEmpty /\ UNCHANGED <<merged, paths, issuers, audit>>
      BY <2>3, <3>1, <3>2 DEF SaveIssuersList
    <3>4. \A p \in merged : Settled(p[1])
      BY <3>3, <1>em, <1>in
    <3>5. saved'[1] = IssuersList(issuers) /\ InProgram' = InProgram
      BY <3>3 DEF InProgram
    <3>6. UndisturbedComplete'
      BY <3>3, <3>4, <3>5, SavedComplete, SameVerdict, Zenon DEF UndisturbedComplete
    <3>7. \A e \in IssuersList(issuers) :
            e.issuer \in DOMAIN issuers /\ (e.enrolled <=> e.issuer \in Enrolled(issuers))
      BY <1>ty, ListIsMap, Zenon
    <3>8. \A i : ReportedGood(i)' <=> ReportedGood(i)
      BY <3>3, SameVerdict, ZenonT(30) DEF ReportedGood, Kinds
    <3>9. \A e \in IssuersList(issuers) : e.enrolled <=> ReportedGood(e.issuer)
      BY <3>3, <3>4, <3>7, SavedAudit, Zenon
    <3>10. AuditAgrees'
      BY <3>3, <3>5, <3>8, <3>9, Zenon DEF AuditAgrees
    <3> QED
      BY <3>6, <3>10
  <2> QED
    BY <2>1, <2>2, <2>3
<1> QED
  BY <1>1, <1>2, <1>3, <1>4

-----------------------------------------------------------------------------
LEMMA OthersInit == Init => WorkInv /\ EnrolInv /\ AuditInv /\ UndisturbedInv
<1> SUFFICES ASSUME Init PROVE WorkInv /\ EnrolInv /\ AuditInv /\ UndisturbedInv
  OBVIOUS
<1>1. /\ mpc = "load" /\ saved = <<>> /\ audit = {} /\ tpc = AllReady
      /\ issuers = InsertAll({})
  BY Zenon DEF Init, JobInit
<1>2. Enrolled(issuers) = {}
  BY <1>1, Parsed, Zenon
<1>3. WorkInv /\ EnrolInv /\ AuditInv
  BY <1>1, <1>2 DEF WorkInv, EnrolInv, AuditInv
<1>4. UndisturbedComplete /\ AuditAgrees
  BY <1>1, Zenon DEF UndisturbedComplete, AuditAgrees
<1>5. \A t \in Threads : tpc[t] # "quit" /\ tpc[t] # "done"
  BY <1>1 DEF AllReady
<1> QED
  BY <1>1, <1>3, <1>4, <1>5 DEF UndisturbedInv

LEMMA TypesHold == Spec => []Types
BY TypesInit, TypesNext, PTL DEF Spec

(* aggregate-crls keeps the types of its variables: the channels, the      *)
(* results and the maps hold issuers of the root program only.             *)
THEOREM TypeCorrect == Spec => []TypeOK
<1>1. Types => TypeOK
  BY DEF Types
<1> QED
  BY <1>1, TypesHold, PTL

(* For any number of issuers, URLs and goroutines, any report and any      *)
(* moment of a signal, an issuer that the saved list calls enrolled had    *)
(* every CRL that Redis knew at the listing processed, and its file holds  *)
(* what they revoke.                                                       *)
THEOREM EnrolledIsSound == Spec => []EnrolledSound
<1> DEFINE I == Types /\ FindInv /\ WorkInv /\ EnrolInv
<1>1. Init => I
  BY TypesInit, FindInit, OthersInit
<1>2. I /\ [Next]_vars => I'
  BY TypesNext, FindNext, WorkNext, EnrolNext, Zenon
<1>3. I => EnrolledSound
  <2>1. saved = <<>> => EnrolledSound
    BY Zenon DEF EnrolledSound
  <2> QED
    BY <2>1 DEF EnrolInv
<1> HIDE DEF I
<1> QED
  BY <1>1, <1>2, <1>3, PTL DEF Spec

LEMMA UndisturbedHolds ==
  Threads # {} => (Spec => [](UndisturbedComplete /\ AuditAgrees))
<1> SUFFICES ASSUME Threads # {} PROVE Spec => [](UndisturbedComplete /\ AuditAgrees)
  OBVIOUS
<1> DEFINE I == Types /\ FindInv /\ WorkInv /\ EnrolInv /\ AuditInv /\ UndisturbedInv
<1>1. Init => I
  BY TypesInit, FindInit, OthersInit
<1>2. I /\ [Next]_vars => I'
  BY TypesNext, FindNext, WorkNext, EnrolNext, AuditNext, UndisturbedNext
<1>3. I => UndisturbedComplete /\ AuditAgrees
  <2>1. cancelled => UndisturbedComplete /\ AuditAgrees
    BY Zenon DEF UndisturbedComplete, AuditAgrees
  <2> QED
    BY <2>1, Zenon DEF UndisturbedInv
<1> HIDE DEF I
<1> QED
  BY <1>1, <1>2, <1>3, PTL DEF Spec
(* A run without a signal enrols every issuer whose CRLs were all          *)
(* processed and revoke something, if the pool has a goroutine at all.     *)
THEOREM UndisturbedIsComplete == Threads # {} => (Spec => []UndisturbedComplete)
BY UndisturbedHolds, PTL

(* The audit report of such a run agrees with the list that it saves.      *)
THEOREM AuditIsTrue == Threads # {} => (Spec => []AuditAgrees)
BY UndisturbedHolds, PTL
=============================================================================
