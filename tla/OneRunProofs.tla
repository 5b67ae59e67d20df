---------------------------- MODULE OneRunProofs ----------------------------
(***************************************************************************)
(* Proofs about aggregate-known beside the database, and about a run of    *)
(* crlite-generate.sh with the lists of keys that it makes.                *)
(*                                                                         *)
(* Every certificate that a complete run of aggregate-known must write     *)
(* stays in Redis until its unit is read, and is, from the listing on, in  *)
(* the queue, in the hands of a goroutine or in the file of its issuer.    *)
(*                                                                         *)
(* aggregate-crls in a run is aggregate-crls of AggregateCrls beside a     *)
(* Redis that CertDatabase changes, so what is proved of the one holds in  *)
(* the other; aggregate-known keeps its invariant, for the list it finds   *)
(* names issuers of Redis.                                                 *)
(***************************************************************************)
EXTENDS OneRun, CertDatabaseProofs

-----------------------------------------------------------------------------
(* The invariant of aggregate-known.                                       *)

(* Every serial is filed under the key of its certificate.                 *)
Filed == \A k \in Keys : \A c \in serials[k] : Key(c) = k

Active(t) == tpc[t] \in {"busy", "writing"}

(* The types, and that nothing has happened before the listing.            *)
KnownTypes ==
  /\ kpc \in {"load", "list", "waiting", "quitting", "exited", "died"}
  /\ enrolled \subseteq Issuers
  /\ listed \subseteq Keys /\ queue \subseteq enrolled
  /\ tpc \in [Threads -> {"ready", "busy", "writing", "quit", "done"}]
  /\ job \in [Threads -> Issuers]
  /\ DOMAIN left = Threads /\ DOMAIN known = Issuers
  /\ \A t \in Threads :
       /\ \A d \in left[t] : <<d, job[t]>> \in listed
       /\ tpc[t] \in {"ready", "writing", "done"} => left[t] = {}
  /\ collected \in [Threads -> SUBSET Certs]
  /\ \A i \in Issuers : known[i] = <<>> \/ known[i] \in {<<S>> : S \in SUBSET Certs}
  /\ atListing \subseteq Certs
  /\ kpc \in {"load", "list"} =>
       /\ queue = {} /\ atListing = {}
       /\ \A t \in Threads : tpc[t] = "ready" /\ left[t] = {}
       /\ \A i \in Issuers : known[i] = <<>>

(* A unit is in the queue or in the hands of one goroutine, and what is    *)
(* collected and written is of its issuer.                                 *)
UnitInv ==
  /\ \A t \in Threads : Active(t) =>
       /\ job[t] \in enrolled \ queue
       /\ \A s \in Threads \ {t} : Active(s) => job[s] # job[t]
       /\ \A c \in collected[t] : Issuer[c] = job[t]
  /\ \A i \in Issuers : known[i] # <<>> =>
       i \in enrolled /\ \A c \in known[i][1] : Issuer[c] = i

(* The certificates that a complete run must write.                        *)
Wanted == {c \in atListing : Issuer[c] \in enrolled /\ now < ExpDate(c)}

(* The unit of its issuer is in the queue or in the hands of a goroutine,  *)
(* or it is in the file, or main was told to quit.                         *)
Covered(c) ==
  \/ Issuer[c] \in queue
  \/ \E t \in Threads : Active(t) /\ job[t] = Issuer[c]
  \/ \E t \in Threads : tpc[t] = "quit"
  \/ known[Issuer[c]] # <<>> /\ c \in known[Issuer[c]][1]

(* Each of them is still in Redis, and a goroutine with the unit has it or *)
(* will come to it.                                                        *)
CoverInv ==
  /\ \A t \in Threads : tpc[t] = "done" => queue = {}
  /\ \A c \in Wanted :
       /\ Known(c) /\ Key(c) \in listed
       /\ \A t \in Threads : job[t] = Issuer[c] =>
            /\ tpc[t] = "busy" => ExpDate(c) \in left[t] \/ c \in collected[t]
            /\ tpc[t] = "writing" => c \in collected[t]
       /\ Covered(c)

KnownInv == StoreTypes /\ Filed /\ KnownTypes /\ UnitInv /\ CoverInv

-----------------------------------------------------------------------------
(* The database beside aggregate-known.                                    *)

LEMMA InsertKeepsFiled ==
  ASSUME StoreTypes, Filed, NEW w \in Workers, StoreStep(w)
  PROVE  Filed' /\ now' = now /\ \A i \in Issuers : crls[i] \subseteq crls'[i]
<1>ty. serials \in [Keys -> SUBSET Certs] /\ crls \in [Issuers -> SUBSET Urls]
  BY DEF StoreTypes, DbTypeOK
<1>1. now' = now
  BY Zenon DEF StoreStep, LookupKnown, NewKnown, InsertSerial, SetExpiry,
     LookupMetadata, NewMetadata, ReadSeen, SkipDp, MarkDp, AddCRL, DpsDone, AddDN
<1>2. \A i \in Issuers : crls[i] \subseteq crls'[i]
  <2>1. CASE AddCRL(w)
    BY <2>1, <1>ty DEF AddCRL
  <2>2. CASE UNCHANGED crls
    BY <2>2
  <2> QED
    BY <2>1, <2>2, Zenon DEF StoreStep, LookupKnown, NewKnown, InsertSerial, SetExpiry,
       LookupMetadata, NewMetadata, ReadSeen, SkipDp, MarkDp, DpsDone, AddDN, redis
<1>3. Filed'
  <2>1. CASE InsertSerial(w)
    <3>1. cert[w] \in Certs
      BY <2>1 DEF InsertSerial, StoreTypes, StorePcs
    <3> QED
      BY <2>1, <3>1, <1>ty, CertFacts, Zenon DEF InsertSerial, Filed
  <2>2. CASE UNCHANGED serials
    BY <2>2 DEF Filed
  <2>3. CASE SetExpiry(w)
    <3>1. CASE ExpireAt(Key(cert[w]))
      BY <3>1, <2>2, <1>ty, ExpireAtCases DEF Filed
    <3> QED
      BY <2>2, <2>3, <3>1, SetExpiryCases
  <2> QED
    BY <2>1, <2>2, <2>3, Zenon DEF StoreStep, LookupKnown, NewKnown,
       LookupMetadata, NewMetadata, ReadSeen, SkipDp, MarkDp, AddCRL, DpsDone, AddDN, redis
<1> QED
  BY <1>1, <1>2, <1>3

(* What the database does to aggregate-known and aggregate-crls: certifi-  *)
(* cates come under their keys, those that are known stay until their      *)
(* hour, and URLs are only added.                                          *)
LEMMA DatabaseStep ==
  ASSUME StoreTypes, Filed, [Next]_dbVars
  PROVE  /\ StoreTypes' /\ Filed' /\ now <= now'
         /\ \A c \in Certs : Known(c) /\ now' < ExpDate(c) => Known(c)'
         /\ \A i \in Issuers : crls[i] \subseteq crls'[i]
<1>ty. now \in Int /\ serials \in [Keys -> SUBSET Certs]
  BY DatabaseAssumption DEF StoreTypes, DbTypeOK
<1>1. CASE UNCHANGED dbVars
  <2>1. StoreTypes'
    BY <1>1, Zenon DEF StoreTypes, DbTypeOK, dbVars, redis, memory, locals
  <2> QED
    BY <1>1, <2>1, <1>ty, SMTT(30) DEF dbVars, redis, Filed, Known
<1>2. ASSUME NEW w \in Workers, NEW c \in Certs, StoreCalled(w, c)
      PROVE  /\ StoreTypes' /\ Filed' /\ now <= now'
             /\ \A d \in Certs : Known(d) /\ now' < ExpDate(d) => Known(d)'
             /\ \A i \in Issuers : crls[i] \subseteq crls'[i]
  <2>1. StoreTypes'
    BY <1>2, CalledTypes
  <2> QED
    BY <1>2, <2>1, <1>ty DEF StoreCalled, redis, Filed, Known
<1>3. ASSUME NEW w \in Workers, StoreStep(w)
      PROVE  /\ StoreTypes' /\ Filed' /\ now <= now'
             /\ \A d \in Certs : Known(d) /\ now' < ExpDate(d) => Known(d)'
             /\ \A i \in Issuers : crls[i] \subseteq crls'[i]
  BY <1>3, <1>ty, StepTypes, InsertKeepsFiled, StepKeepsKnown
<1>4. CASE Tick
  <2>1. /\ now' = now + 1 /\ crls' = crls
        /\ \A k \in Keys : serials'[k] \subseteq serials[k]
    BY <1>4 DEF Tick
  <2> QED
    BY <1>4, <2>1, <1>ty, TickTypes, TickKeepsKnown DEF Filed
<1> QED
  BY <1>1, <1>2, <1>3, <1>4, Zenon DEF Next

LEMMA KnownEnvironment ==
  ASSUME KnownInv, [Next]_dbVars,
         UNCHANGED <<kpc, enrolled, listed, queue, tpc, unit, known, atListing>>
  PROVE  KnownInv'
<1> USE DEF KnownInv, unit
<1>1. /\ StoreTypes' /\ Filed' /\ now <= now'
      /\ \A c \in Certs : Known(c) /\ now' < ExpDate(c) => Known(c)'
  BY DatabaseStep, Zenon
<1>2. KnownTypes' /\ UnitInv'
  BY ZenonT(30) DEF KnownTypes, UnitInv, Active
<1>3. now \in Int /\ now' \in Int /\ \A c \in Certs : ExpDate(c) \in Int
  <2>1. now \in 0 .. MaxTime /\ now' \in 0 .. MaxTime
    BY <1>1, Zenon DEF StoreTypes, DbTypeOK
  <2>2. \A c \in Certs : ExpDate(c) \in Int
    BY CertFacts, Zenon
  <2> QED
    BY <2>1, <2>2, DatabaseAssumption
<1>4. Wanted' \subseteq Wanted /\ Wanted \subseteq Certs
  BY <1>1, <1>3 DEF Wanted, KnownTypes
<1>5. \A c \in Wanted' : Known(c)'
  BY <1>1, <1>4, Zenon DEF Wanted, CoverInv
<1>6. CoverInv'
  BY <1>4, <1>5 DEF CoverInv, Covered, Active
<1> QED
  BY <1>1, <1>2, <1>6

-----------------------------------------------------------------------------
(* The steps of aggregate-known.                                           *)

(* The issuers of the list that are enrolled.                              *)
LEMMA LoadedEnrolled ==
  ASSUME NEW l
  PROVE  Enrolled(LoadEnrolledIssuers(l)) = {e.issuer : e \in {d \in l : d.enrolled}}
<1> DEFINE D == {e.issuer : e \in l}
<1>1. DOMAIN InsertAll(l) = D
  BY DEF InsertAll
<1>2. \A i \in D : DOMAIN InsertAll(l)[i] = {"certs", "enrolled"}
  BY DEF InsertAll
<1> DEFINE on(i) == \E e \in l : e.issuer = i /\ e.enrolled
<1>3. LoadEnrolledIssuers(l) = [i \in D |-> [InsertAll(l)[i] EXCEPT !.enrolled = on(i)]]
  BY <1>1, Zenon DEF LoadEnrolledIssuers
<1> HIDE DEF D, on
<1>4. \A i \in D : LoadEnrolledIssuers(l)[i].enrolled = on(i)
  BY <1>2, <1>3
<1>5. DOMAIN LoadEnrolledIssuers(l) = D
  BY <1>3
<1>6. \A i : i \in Enrolled(LoadEnrolledIssuers(l)) <=> i \in D /\ on(i)
  BY <1>4, <1>5, Zenon DEF Enrolled
<1>7. \A i : i \in {e.issuer : e \in {d \in l : d.enrolled}} <=> i \in D /\ on(i)
  BY Zenon DEF D, on
<1> QED
  BY <1>6, <1>7

(* A list that aggregate-known may find.                                   *)
ListOK == saved # <<>> => \A e \in saved[1] : e.enrolled => e.issuer \in Issuers

LEMMA NoJobIs == NoJob \in Issuers
<1>1. PICK c : c \in Certs
  BY KnownAssumption
<1>2. Issuers # {}
  BY <1>1, CertFacts
<1> QED
  BY <1>2 DEF NoJob

LEMMA LoadKeeps ==
  ASSUME KnownInv, ListOK, Load
  PROVE  KnownInv'
<1> USE DEF KnownInv
<1>1. /\ kpc = "load" /\ kpc' \in {"list", "died"}
      /\ UNCHANGED <<dbVars, listed, queue, tpc, unit, known, atListing>>
  BY DEF Load
<1>2. enrolled' \subseteq Issuers
  <2>1. CASE enrolled' = enrolled
    BY <2>1 DEF KnownTypes
  <2>2. CASE saved # <<>> /\ enrolled' = Enrolled(LoadEnrolledIssuers(saved[1]))
    <3>1. enrolled' = {e.issuer : e \in {d \in saved[1] : d.enrolled}}
      BY <2>2, LoadedEnrolled
    <3>2. \A e \in {d \in saved[1] : d.enrolled} : e.issuer \in Issuers
      BY <2>2, Zenon DEF ListOK
    <3> QED
      BY <3>1, <3>2, Zenon
  <2> QED
    BY <2>1, <2>2 DEF Load
<1>3. /\ queue = {} /\ atListing = {} /\ \A i \in Issuers : known[i] = <<>>
      /\ \A t \in Threads : tpc[t] = "ready" /\ left[t] = {}
  BY <1>1, Zenon DEF KnownTypes
<1>4. StoreTypes' /\ Filed'
  BY <1>1 DEF StoreTypes, DbTypeOK, Filed, dbVars, redis, memory, locals
<1>5. KnownTypes'
  BY <1>1, <1>2, <1>3, Zenon DEF KnownTypes, unit
<1>6. UnitInv' /\ CoverInv'
  BY <1>1, <1>3 DEF UnitInv, CoverInv, Covered, Active, Wanted, unit
<1> QED
  BY <1>4, <1>5, <1>6

LEMMA ListKeeps ==
  ASSUME KnownInv, List
  PROVE  KnownInv'
<1> USE DEF KnownInv
<1>1. /\ kpc = "list" /\ kpc' = "waiting"
      /\ listed' = {k \in Keys : serials[k] # {} /\ k[2] \in enrolled}
      /\ queue' = {k[2] : k \in listed'}
      /\ atListing' = {c \in Certs : Known(c)}
      /\ UNCHANGED <<dbVars, enrolled, tpc, unit, known>>
  BY Zenon DEF List
<1>2. /\ \A i \in Issuers : known[i] = <<>>
      /\ \A t \in Threads : tpc[t] = "ready" /\ left[t] = {}
  BY <1>1, Zenon DEF KnownTypes
<1>3. StoreTypes' /\ Filed' /\ UNCHANGED <<now, serials>>
  BY <1>1, Zenon DEF StoreTypes, DbTypeOK, Filed, dbVars, redis, memory, locals
<1>4. queue' \subseteq enrolled
  BY <1>1, Zenon
<1>5. KnownTypes'
  BY <1>1, <1>2, <1>4, Zenon DEF KnownTypes, unit
<1>6. UnitInv'
  BY <1>1, <1>2, Zenon DEF UnitInv, Active, unit
<1>7. ASSUME NEW c \in Wanted'
      PROVE  Known(c)' /\ Key(c) \in listed' /\ Issuer[c] \in queue'
  <2>1. c \in Certs /\ Known(c) /\ Issuer[c] \in enrolled
    BY <1>1, Zenon DEF Wanted
  <2>2. Key(c) \in Keys /\ Key(c)[2] = Issuer[c] /\ serials[Key(c)] # {}
    BY <2>1, CertFacts, Zenon DEF Known
  <2>3. Key(c) \in listed'
    BY <1>1, <2>1, <2>2, Zenon
  <2> QED
    BY <1>1, <1>3, <2>1, <2>2, <2>3, Zenon DEF Known
<1>8. CoverInv'
  BY <1>1, <1>2, <1>7 DEF CoverInv, Covered, Active, unit
<1> QED
  BY <1>3, <1>5, <1>6, <1>8, Zenon

(* Steps that change neither a unit nor a file.                            *)
LEMMA MainKeeps ==
  ASSUME KnownInv, Completed \/ SignalCaught \/ Signal
  PROVE  KnownInv'
<1>1. /\ kpc = "waiting" /\ kpc' \in {"waiting", "quitting", "exited"}
      /\ UNCHANGED <<dbVars, enrolled, listed, queue, tpc, unit, known, atListing>>
  BY Zenon DEF Completed, SignalCaught, Signal
<1>2. StoreTypes' /\ Filed'
  BY <1>1, Zenon DEF KnownInv, StoreTypes, DbTypeOK, Filed, dbVars, redis, memory, locals
<1>3. KnownTypes' /\ UnitInv'
  BY <1>1, ZenonT(30) DEF KnownInv, KnownTypes, UnitInv, Active, unit
<1>4. CoverInv'
  BY <1>1 DEF KnownInv, CoverInv, Covered, Wanted, Active, Known, unit, dbVars, redis
<1> QED
  BY <1>2, <1>3, <1>4, Zenon DEF KnownInv

LEMMA GoroutineKeeps ==
  ASSUME KnownInv, NEW t \in Threads, Goroutine(t)
  PROVE  KnownInv'
<1>fr. /\ UNCHANGED <<dbVars, saved, enrolled, listed, atListing>>
       /\ kpc \in {"waiting", "quitting"} /\ kpc' \in {kpc, "exited"}
  BY Zenon DEF Goroutine, Alive, TakeUnit, ReadDate, OpenFile, WriteFile, RunsOut, QuitReceived
<1>0. StoreTypes' /\ Filed' /\ UNCHANGED <<now, serials>>
  BY <1>fr, Zenon DEF KnownInv, StoreTypes, DbTypeOK, Filed, dbVars, redis, memory, locals
<1>ty. /\ tpc \in [Threads -> {"ready", "busy", "writing", "quit", "done"}]
       /\ job \in [Threads -> Issuers] /\ DOMAIN left = Threads /\ DOMAIN known = Issuers
       /\ collected \in [Threads -> SUBSET Certs]
       /\ serials \in [Keys -> SUBSET Certs]
       /\ enrolled \subseteq Issuers /\ queue \subseteq enrolled /\ listed \subseteq Keys
       /\ \A s \in Threads :
            /\ \A d \in left[s] : <<d, job[s]>> \in listed
            /\ tpc[s] \in {"ready", "writing", "done"} => left[s] = {}
       /\ \A i \in Issuers : known[i] = <<>> \/ known[i] \in {<<S>> : S \in SUBSET Certs}
       /\ atListing \subseteq Certs
  BY Zenon DEF KnownInv, KnownTypes, StoreTypes, DbTypeOK
<1>un. /\ \A s \in Threads : Active(s) =>
            /\ job[s] \in enrolled \ queue
            /\ \A r \in Threads \ {s} : Active(r) => job[r] # job[s]
            /\ \A c \in collected[s] : Issuer[c] = job[s]
       /\ \A i \in Issuers : known[i] # <<>> =>
            i \in enrolled /\ \A c \in known[i][1] : Issuer[c] = i
  BY Zenon DEF KnownInv, UnitInv
<1>co. /\ \A s \in Threads : tpc[s] = "done" => queue = {}
       /\ \A c \in Wanted :
            /\ Known(c) /\ Key(c) \in listed
            /\ \A s \in Threads : job[s] = Issuer[c] =>
                 /\ tpc[s] = "busy" => ExpDate(c) \in left[s] \/ c \in collected[s]
                 /\ tpc[s] = "writing" => c \in collected[s]
            /\ Covered(c)
  BY DEF KnownInv, CoverInv
<1>wa. /\ Wanted' = Wanted /\ Wanted \subseteq Certs
       /\ \A c \in Wanted : Known(c)' /\ Key(c) \in listed' /\ now < ExpDate(c)
  BY <1>fr, <1>0, <1>ty, <1>co, Zenon DEF Wanted, Known
<1>ot. \A s \in Threads \ {t} :
         /\ tpc'[s] = tpc[s] /\ job'[s] = job[s] /\ left'[s] = left[s]
         /\ collected'[s] = collected[s]
  BY <1>ty, Zenon DEF Goroutine, Step, unit, TakeUnit, ReadDate, OpenFile, WriteFile, RunsOut,
     QuitReceived
<1>oc. \A s \in Threads \ {t} : Active(s)' <=> Active(s)
  BY <1>ot, Zenon DEF Active
(* It suffices to look at goroutine t, and at what it gives away.          *)
<1>su. ASSUME tpc' \in [Threads -> {"ready", "busy", "writing", "quit", "done"}],
              job' \in [Threads -> Issuers], DOMAIN left' = Threads, DOMAIN known' = Issuers,
              collected' \in [Threads -> SUBSET Certs],
              \A d \in left'[t] : <<d, job'[t]>> \in listed,
              tpc'[t] \in {"ready", "writing", "done"} => left'[t] = {},
              \A i \in Issuers : known'[i] = <<>> \/ known'[i] \in {<<S>> : S \in SUBSET Certs},
              queue' \subseteq queue,
              Active(t)' =>
                /\ job'[t] \in enrolled \ queue'
                /\ \A s \in Threads \ {t} : Active(s) => job[s] # job'[t]
                /\ \A c \in collected'[t] : Issuer[c] = job'[t],
              \A i \in Issuers : known'[i] # <<>> =>
                i \in enrolled /\ \A c \in known'[i][1] : Issuer[c] = i,
              tpc'[t] = "done" => queue' = {},
              \A c \in Wanted : job'[t] = Issuer[c] =>
                /\ tpc'[t] = "busy" => ExpDate(c) \in left'[t] \/ c \in collected'[t]
                /\ tpc'[t] = "writing" => c \in collected'[t],
              \A c \in Wanted : Covered(c)'
       PROVE  KnownInv'
  <2>1. KnownTypes'
    BY <1>su, <1>fr, <1>ty, <1>ot, ZenonT(30) DEF KnownTypes
  <2>2. UnitInv'
    BY <1>su, <1>fr, <1>un, <1>ot, <1>oc DEF UnitInv
  <2>3. CoverInv'
    <3>1. \A s \in Threads : tpc'[s] = "done" => queue' = {}
      BY <1>su, <1>co, <1>ot, Zenon
    <3>2. ASSUME NEW c \in Wanted, NEW s \in Threads, job'[s] = Issuer[c]
          PROVE  /\ tpc'[s] = "busy" => ExpDate(c) \in left'[s] \/ c \in collected'[s]
                 /\ tpc'[s] = "writing" => c \in collected'[s]
      <4>1. CASE s = t
        BY <1>su, <3>2, <4>1, Zenon
      <4>2. CASE s # t
        BY <1>ot, <1>co, <3>2, <4>2, Zenon
      <4> QED
        BY <4>1, <4>2, Zenon
    <3> QED
      BY <1>su, <1>wa, <3>1, <3>2, Zenon DEF CoverInv
  <2> QED
    BY <1>0, <2>1, <2>2, <2>3 DEF KnownInv
(* What goroutine t does not give away stays covered.                      *)
<1>ke. ASSUME NEW c \in Wanted, tpc[t] # "quit",
              Issuer[c] \in queue => Issuer[c] \in queue',
              Active(t) /\ job[t] = Issuer[c] => Active(t)' /\ job'[t] = job[t],
              known'[Issuer[c]] = known[Issuer[c]]
       PROVE  Covered(c)'
  <2>1. CASE Issuer[c] \in queue
    BY <1>ke, <2>1, Zenon DEF Covered
  <2>2. ASSUME NEW s \in Threads, Active(s), job[s] = Issuer[c] PROVE Covered(c)'
    <3>1. Active(s)' /\ job'[s] = Issuer[c]
      BY <1>ke, <2>2, <1>ot, <1>oc, Zenon
    <3> QED
      BY <3>1, Zenon DEF Covered
  <2>3. ASSUME NEW s \in Threads, tpc[s] = "quit" PROVE Covered(c)'
    <3>1. tpc'[s] = "quit"
      BY <1>ke, <2>3, <1>ot, ZenonT(30)
    <3> QED
      BY <3>1 DEF Covered
  <2>4. CASE known[Issuer[c]] # <<>> /\ c \in known[Issuer[c]][1]
    BY <1>ke, <2>4, Zenon DEF Covered
  <2> QED
    BY <1>co, <2>1, <2>2, <2>3, <2>4, Zenon DEF Covered
<1>1. ASSUME NEW i \in Issuers, TakeUnit(t, i) PROVE KnownInv'
  <2>1. /\ tpc[t] = "ready" /\ i \in queue /\ queue' = queue \ {i}
        /\ tpc' = [tpc EXCEPT ![t] = "busy"] /\ job' = [job EXCEPT ![t] = i]
        /\ left' = [left EXCEPT ![t] = DatesOf(i)]
        /\ collected' = [collected EXCEPT ![t] = {}] /\ known' = known
    BY <1>1 DEF TakeUnit, Step
  <2>2. /\ tpc'[t] = "busy" /\ job'[t] = i /\ left'[t] = DatesOf(i) /\ collected'[t] = {}
    BY <2>1, <1>ty, Zenon
  <2>3. \A d \in DatesOf(i) : <<d, i>> \in listed
    <3>1. \A k \in Keys : k = <<k[1], k[2]>>
      BY DEF Keys, Key
    <3> QED
      BY <3>1, <1>ty DEF DatesOf
  <2>4. ASSUME NEW c \in Wanted, Issuer[c] = i PROVE ExpDate(c) \in DatesOf(i)
    <3>1. Key(c) \in listed /\ Key(c)[1] = ExpDate(c) /\ Key(c)[2] = i
      BY <2>4, <1>co, <1>wa, CertFacts, Zenon
    <3> QED
      BY <3>1, Zenon DEF DatesOf
  <2>5. Active(t)' /\ ~Active(t)
    BY <2>1, <2>2, Zenon DEF Active
  <2>6. \A s \in Threads \ {t} : Active(s) => job[s] # i
    BY <2>1, <1>un, Zenon
  <2>7. ASSUME NEW c \in Wanted PROVE Covered(c)'
    <3>1. CASE Issuer[c] = i
      BY <2>2, <2>5, <3>1 DEF Covered
    <3>2. CASE Issuer[c] # i
      BY <2>1, <2>5, <3>2, <1>ke, Zenon
    <3> QED
      BY <3>1, <3>2, Zenon
  <2> QED
    BY <1>su, <1>ty, <1>un, <2>1, <2>2, <2>3, <2>4, <2>5, <2>6, <2>7, Zenon
<1>2. ASSUME NEW d \in left[t], ReadDate(t, d) PROVE KnownInv'
  <2> DEFINE new == IF IsExpired(d) THEN {} ELSE serials[<<d, job[t]>>]
  <2>1. /\ tpc[t] = "busy" /\ UNCHANGED <<queue, tpc, job, known>>
        /\ left' = [left EXCEPT ![t] = @ \ {d}]
        /\ collected' = [collected EXCEPT ![t] = @ \cup new]
    BY <1>2, Zenon DEF ReadDate
  <2>2. <<d, job[t]>> \in Keys
    BY <1>ty, Zenon
  <2>3. new \subseteq Certs /\ \A c \in new : Issuer[c] = job[t]
    <3>1. \A c \in serials[<<d, job[t]>>] : c \in Certs /\ Key(c) = <<d, job[t]>>
      BY <2>2, <1>ty, Zenon DEF KnownInv, Filed
    <3>2. \A c \in serials[<<d, job[t]>>] : Issuer[c] = job[t]
      BY <3>1, Zenon DEF Key
    <3> QED
      BY <3>1, <3>2, Zenon
  <2>4. ASSUME NEW c \in Wanted, Issuer[c] = job[t], ExpDate(c) = d PROVE c \in new
    <3>1. Key(c) = <<d, job[t]>> /\ c \in serials[Key(c)]
      BY <2>4, <1>co, Zenon DEF Key, Known
    <3>2. now \in Int /\ Hour \in Nat \ {0} /\ d \in Int /\ now < d
      <4>1. c \in Certs /\ now < ExpDate(c)
        BY <2>4, <1>wa, Zenon
      <4>2. ExpDate(c) \in Int
        BY <4>1, CertFacts, Zenon
      <4>3. now \in Int
        <5>1. now \in 0 .. MaxTime
          BY Zenon DEF KnownInv, StoreTypes, DbTypeOK
        <5> QED
          BY <5>1, DatabaseAssumption
      <4> QED
        BY <2>4, <4>1, <4>2, <4>3, DatabaseAssumption, Zenon
    <3>3. ~IsExpired(d)
      BY <3>2 DEF IsExpired
    <3> QED
      BY <3>1, <3>3, Zenon
  <2> HIDE DEF new
  <2>5. left'[t] = left[t] \ {d} /\ collected'[t] = collected[t] \cup new
    BY <2>1, <1>ty, Zenon
  <2>6. Active(t) /\ Active(t)'
    BY <2>1 DEF Active
  <2>7. collected' \in [Threads -> SUBSET Certs]
    BY <2>1, <2>3, <1>ty, Zenon
  <2>9. ASSUME NEW c \in Wanted PROVE Covered(c)'
    BY <2>1, <2>6, <1>ke, Zenon
  <2>10. \A c \in Wanted : job'[t] = Issuer[c] =>
           ExpDate(c) \in left'[t] \/ c \in collected'[t]
    BY <2>1, <2>4, <2>5, <1>co, Zenon
  <2>11. \A c \in collected'[t] : Issuer[c] = job'[t]
    BY <2>1, <2>3, <2>5, <2>6, <1>un, Zenon
  <2>12. /\ DOMAIN left' = Threads /\ \A e \in left'[t] : <<e, job'[t]>> \in listed
    BY <2>1, <2>5, <1>ty, Zenon
  <2> QED
    BY <1>su, <1>ty, <1>un, <2>1, <2>6, <2>7, <2>9, <2>10, <2>11, <2>12, Zenon
<1>3. CASE OpenFile(t)
  <2>1. /\ tpc[t] = "busy" /\ left[t] = {} /\ UNCHANGED <<queue, job, left, collected>>
        /\ known' = [known EXCEPT ![job[t]] = <<{}>>]
        /\ tpc' = [tpc EXCEPT ![t] = "writing"]
    BY <1>3, Zenon DEF OpenFile, Step, unit
  <2>2. tpc'[t] = "writing" /\ Active(t) /\ Active(t)'
    BY <2>1, <1>ty, Zenon DEF Active
  <2>3. \A i \in Issuers : known'[i] = IF i = job[t] THEN <<{}>> ELSE known[i]
    BY <2>1, <1>ty, Zenon
  <2>4. \A i \in Issuers : /\ known'[i] = <<>> \/ known'[i] \in {<<S>> : S \in SUBSET Certs}
                           /\ known'[i] # <<>> => i \in enrolled
                                /\ \A c \in known'[i][1] : Issuer[c] = i
    <3>1. <<{}>> \in {<<S>> : S \in SUBSET Certs} /\ <<{}>>[1] = {}
      BY Zenon
    <3> SUFFICES ASSUME NEW i \in Issuers
                 PROVE  /\ known'[i] = <<>> \/ known'[i] \in {<<S>> : S \in SUBSET Certs}
                        /\ known'[i] # <<>> => i \in enrolled
                             /\ \A c \in known'[i][1] : Issuer[c] = i
      BY Zenon
    <3>2. CASE i = job[t]
      BY <2>2, <2>3, <3>1, <3>2, <1>un, Zenon
    <3>3. CASE i # job[t]
      BY <2>3, <3>3, <1>ty, <1>un, Zenon
    <3> QED
      BY <3>2, <3>3
  <2>5. ASSUME NEW c \in Wanted PROVE Covered(c)'
    <3>1. CASE Issuer[c] = job[t]
      BY <2>1, <2>2, <3>1, ZenonT(30) DEF Covered
    <3>2. CASE Issuer[c] # job[t]
      <4>1. known'[Issuer[c]] = known[Issuer[c]]
        BY <2>3, <3>2, <1>wa, CertFacts, Zenon
      <4> QED
        BY <2>1, <3>2, <4>1, <1>ke, Zenon
    <3> QED
      BY <3>1, <3>2
  <2>6. \A c \in Wanted : job[t] = Issuer[c] => c \in collected[t]
    BY <2>1, <1>co, Zenon
  <2>7. tpc' \in [Threads -> {"ready", "busy", "writing", "quit", "done"}] /\ DOMAIN known' = Issuers
    BY <2>1, <1>ty
  <2> QED
    BY <1>su, <1>ty, <1>un, <2>1, <2>2, <2>4, <2>5, <2>6, <2>7, ZenonT(30)
<1>4. CASE WriteFile(t)
  <2>1. /\ tpc[t] = "writing" /\ UNCHANGED <<queue, job, left, collected>>
        /\ known' = [known EXCEPT ![job[t]] = <<collected[t]>>]
        /\ tpc' = [tpc EXCEPT ![t] = "ready"]
    BY <1>4, Zenon DEF WriteFile, Step, unit
  <2>2. tpc'[t] = "ready" /\ Active(t) /\ ~Active(t)'
    BY <2>1, <1>ty, Zenon DEF Active
  <2>3. \A i \in Issuers : known'[i] = IF i = job[t] THEN <<collected[t]>> ELSE known[i]
    BY <2>1, <1>ty, Zenon
  <2>4. \A i \in Issuers : /\ known'[i] = <<>> \/ known'[i] \in {<<S>> : S \in SUBSET Certs}
                           /\ known'[i] # <<>> => i \in enrolled
                                /\ \A c \in known'[i][1] : Issuer[c] = i
    <3>1. /\ <<collected[t]>> \in {<<S>> : S \in SUBSET Certs}
          /\ <<collected[t]>>[1] = collected[t]
      BY <1>ty, Zenon
    <3> SUFFICES ASSUME NEW i \in Issuers
                 PROVE  /\ known'[i] = <<>> \/ known'[i] \in {<<S>> : S \in SUBSET Certs}
                        /\ known'[i] # <<>> => i \in enrolled
                             /\ \A c \in known'[i][1] : Issuer[c] = i
      OBVIOUS
    <3>2. CASE i = job[t]
      BY <2>2, <2>3, <3>1, <3>2, <1>un
    <3>3. CASE i # job[t]
      BY <2>3, <3>3, <1>ty, <1>un, Zenon
    <3> QED
      BY <3>2, <3>3
  <2>5. ASSUME NEW c \in Wanted PROVE Covered(c)'
    <3>1. CASE Issuer[c] = job[t]
      <4>1. c \in collected[t] /\ known'[Issuer[c]] = <<collected[t]>>
        BY <2>1, <2>3, <3>1, <1>co, <1>ty, Zenon
      <4> QED
        BY <4>1 DEF Covered
    <3>2. CASE Issuer[c] # job[t]
      <4>1. known'[Issuer[c]] = known[Issuer[c]]
        BY <2>3, <3>2, <1>wa, CertFacts, Zenon
      <4> QED
        BY <2>1, <3>2, <4>1, <1>ke, Zenon
    <3> QED
      BY <3>1, <3>2
  <2>6. tpc' \in [Threads -> {"ready", "busy", "writing", "quit", "done"}] /\ DOMAIN known' = Issuers
    BY <2>1, <1>ty, Zenon
  <2> QED
    BY <1>su, <1>ty, <1>un, <2>1, <2>2, <2>4, <2>5, <2>6, Zenon
<1>5. CASE RunsOut(t)
  <2>1. /\ tpc[t] = "ready" /\ queue = {} /\ UNCHANGED <<queue, left, known>>
        /\ tpc' = [tpc EXCEPT ![t] = "done"] /\ job' = [job EXCEPT ![t] = NoJob]
        /\ collected' = [collected EXCEPT ![t] = {}]
    BY <1>5 DEF RunsOut, Step, Closed
  <2>2. tpc'[t] = "done" /\ ~Active(t) /\ ~Active(t)'
    BY <2>1, <1>ty, Zenon DEF Active
  <2>3. left[t] = {}
    BY <2>1, <1>ty, Zenon
  <2>4. ASSUME NEW c \in Wanted PROVE Covered(c)'
    BY <2>1, <2>2, <1>ke
  <2> QED
    BY <1>su, <1>ty, <1>un, <2>1, <2>2, <2>3, <2>4, NoJobIs, Zenon
<1>6. CASE QuitReceived(t)
  <2>1. /\ tpc[t] = "busy" /\ UNCHANGED <<queue, job, left, collected, known>>
        /\ tpc' = [tpc EXCEPT ![t] = "quit"]
    BY <1>6, Zenon DEF QuitReceived, Step, unit
  <2>2. tpc'[t] = "quit" /\ ~Active(t)'
    BY <2>1, <1>ty, Zenon DEF Active
  <2>3. \A c \in Wanted : Covered(c)'
    BY <2>2, Zenon DEF Covered
  <2> QED
    BY <1>su, <1>ty, <1>un, <2>1, <2>2, <2>3, Zenon
<1> QED
  BY <1>1, <1>2, <1>3, <1>4, <1>5, <1>6, Zenon DEF Goroutine

-----------------------------------------------------------------------------
LEMMA KnownStart ==
  ASSUME StoreTypes, Filed, KnownInit
  PROVE  KnownInv
<1>1. KnownTypes
  BY NoJobIs, Zenon DEF KnownInit, KnownTypes
<1>2. UnitInv /\ CoverInv
  BY DEF KnownInit, UnitInv, CoverInv, Active, Wanted
<1> QED
  BY <1>1, <1>2, Zenon DEF KnownInv

LEMMA KnownStep ==
  ASSUME KnownInv, ListOK, (\E t \in Threads : Goroutine(t)) \/ Main \/ Signal
  PROVE  KnownInv'
<1>1. CASE \E t \in Threads : Goroutine(t)
  BY <1>1, GoroutineKeeps
<1>2. CASE Main \/ Signal
  BY <1>2, LoadKeeps, ListKeeps, MainKeeps DEF Main
<1> QED
  BY <1>1, <1>2

LEMMA KnownInvTypes ==
  ASSUME KnownInv
  PROVE  KnownTypeOK
<1>1. \A i \in Issuers : known[i] = <<>> \/ known[i][1] \subseteq Certs
  BY DEF KnownInv, KnownTypes
<1> QED
  BY <1>1, ZenonT(30) DEF KnownInv, KnownTypes, KnownTypeOK

LEMMA KnownInvComplete ==
  ASSUME KnownInv, Threads # {}
  PROVE  KnownComplete
<1> SUFFICES ASSUME \A t \in Threads : tpc[t] = "done", NEW i \in enrolled
             PROVE  /\ \A c \in atListing : Issuer[c] = i /\ now < ExpDate(c) =>
                         known[i] # <<>> /\ c \in known[i][1]
                    /\ known[i] # <<>> => \A c \in known[i][1] : Issuer[c] = i
  BY ZenonT(30) DEF KnownComplete
<1>1. i \in Issuers /\ queue = {}
  BY Zenon DEF KnownInv, KnownTypes, CoverInv
<1>2. known[i] # <<>> => \A c \in known[i][1] : Issuer[c] = i
  BY <1>1 DEF KnownInv, UnitInv
<1>3. ASSUME NEW c \in atListing, Issuer[c] = i, now < ExpDate(c)
      PROVE  known[i] # <<>> /\ c \in known[i][1]
  <2>1. Covered(c)
    BY <1>3 DEF KnownInv, CoverInv, Wanted
  <2>2. \A t \in Threads : ~Active(t) /\ tpc[t] # "quit"
    BY DEF Active
  <2> QED
    BY <1>1, <1>3, <2>1, <2>2, Zenon DEF Covered
<1> QED
  BY <1>2, <1>3

LEMMA KnownHolds == KnownSpec => [](KnownInv /\ ListOK)
<1>1. Init /\ KnownInit => KnownInv
  <2> SUFFICES ASSUME Init, KnownInit PROVE KnownInv
    BY Zenon
  <2>1. serials = [k \in Keys |-> {}]
    BY DEF Init, DbInit, RedisHolds
  <2>2. StoreTypes
    BY InitTypes
  <2> QED
    BY <2>1, <2>2, KnownStart DEF Filed
<1>2. saved \in {<<>>} \cup {<<l>> : l \in SUBSET [issuer : Issuers, cert : STRING, enrolled : BOOLEAN]}
        => ListOK
  <2> SUFFICES ASSUME NEW l \in SUBSET [issuer : Issuers, cert : STRING, enrolled : BOOLEAN],
                      saved = <<l>>
               PROVE  ListOK
    BY Zenon DEF ListOK
  <2> QED
    BY DEF ListOK
<1>3. ListOK /\ [KnownNext]_allVars => ListOK'
  <2>1. [KnownNext]_allVars => saved' = saved
    BY Zenon DEF KnownNext, allVars, knownVars, Goroutine, Main, Load, List, Completed,
       SignalCaught, Signal, TakeUnit, ReadDate, OpenFile, WriteFile, RunsOut, QuitReceived
  <2> QED
    BY <2>1 DEF ListOK
<1>4. KnownInv /\ ListOK /\ [KnownNext]_allVars => KnownInv'
  <2> SUFFICES ASSUME KnownInv, ListOK, [KnownNext]_allVars PROVE KnownInv'
    OBVIOUS
  <2>1. CASE [Next]_dbVars /\ UNCHANGED knownVars
    <3>1. UNCHANGED <<kpc, enrolled, listed, queue, tpc, unit, known, atListing>>
      BY <2>1 DEF knownVars
    <3> QED
      BY <2>1, <3>1, KnownEnvironment
  <2>2. CASE (\E t \in Threads : Goroutine(t)) \/ Main \/ Signal
    BY <2>2, KnownStep
  <2> QED
    BY <2>1, <2>2 DEF KnownNext, allVars
<1> QED
  BY <1>1, <1>2, <1>3, <1>4, PTL DEF KnownSpec

(* Every variable of aggregate-known keeps its type.                       *)
THEOREM KnownTypeCorrect == KnownSpec => []KnownTypeOK
<1>1. KnownInv => KnownTypeOK
  BY KnownInvTypes
<1> QED
  BY <1>1, KnownHolds, PTL

(* A run of aggregate-known that completes leaves nothing out, for any     *)
(* certificates, any number of goroutines and workers of ct-fetch, and any *)
(* list of enrolled issuers.                                               *)
THEOREM KnownIsComplete == Threads # {} => (KnownSpec => []KnownComplete)
<1> SUFFICES ASSUME Threads # {} PROVE KnownSpec => []KnownComplete
  OBVIOUS
<1>1. KnownInv => KnownComplete
  BY KnownInvComplete
<1> QED
  BY <1>1, KnownHolds, PTL

-----------------------------------------------------------------------------
(* One run of crlite-generate.sh.  aggregate-crls in it:                   *)

P == INSTANCE AggregateCrlsProofs WITH
       Threads <- CrlThreads, Signals <- FALSE, queue <- crlQueue, tpc <- crlTpc,
       job <- crlJob, left <- crlLeft, collected <- crlCollected,
       filed <- {k[2] : k \in {j \in Keys : serials[j] # {}}}

-----------------------------------------------------------------------------
(* The invariant, by what it is about.                                     *)

(* The programs run one after the other, aggregate-known takes its issuers *)
(* from the list, and only a signal ends it before its goroutines do.      *)
OrderInv ==
  /\ kpc # "load" => mpc = "exited"
  /\ kpc = "load" => enrolled = {}
  /\ \A i \in enrolled : saved # <<>> /\ \E e \in saved[1] : e.issuer = i /\ e.enrolled
  /\ kpc = "quitting" => signalled
  /\ kpc = "exited" /\ ~signalled => \A t \in Threads : tpc[t] = "done"

(* What Redis had of a certificate when aggregate-crls listed the issuers: *)
(* its URLs are among those that must be fetched, and it is there for      *)
(* aggregate-known to list until its hour of expiry comes.                 *)
StartInv ==
  /\ atStart \subseteq Certs
  /\ \A c \in atStart :
       /\ Range(Dps[c]) \cap WebDps \subseteq begun[Issuer[c]]
       /\ now < ExpDate(c) =>
            Known(c) /\ (kpc \in {"waiting", "quitting", "exited"} => c \in atListing)

(* The lists are made of the files, which nobody writes any more.          *)
ListsInv ==
  lists # <<>> =>
    /\ kpc = "exited"
    /\ lists[1].revoked = UNION {KnownRevoked(i) : i \in Issuers}
    /\ lists[1].valid = UNION {KnownNotRevoked(i) : i \in Issuers}

RunInv == KnownInv /\ OrderInv /\ StartInv /\ ListsInv

-----------------------------------------------------------------------------
(* The database in a run.                                                  *)

LEMMA FetchingIsNext ==
  ASSUME Fetching
  PROVE  Next /\ UNCHANGED <<knownVars, crlVars, lists, atStart>>
BY DEF Fetching, Next

(* The other steps of a run leave the database alone.                      *)
LEMMA DatabaseAlone ==
  ASSUME [RunNext]_runVars, ~Fetching
  PROVE  UNCHANGED dbVars
<1>1. ASSUME NEW t \in Threads, Goroutine(t) PROVE UNCHANGED dbVars
  BY <1>1, Zenon DEF Goroutine, TakeUnit, ReadDate, OpenFile, WriteFile, RunsOut, QuitReceived
<1>2. ASSUME Main \/ Signal PROVE UNCHANGED dbVars
  BY <1>2, Zenon DEF Main, Load, List, Completed, SignalCaught, Signal
<1> QED
  BY <1>1, <1>2, Zenon DEF RunNext, runVars, allVars, AggregateCrlsStep,
     AggregateKnownStep, CreateCertLists, Signalled

LEMMA RunDatabase == RunSpec => [](StoreTypes /\ Filed)
<1>1. RunInit => StoreTypes /\ Filed
  <2> SUFFICES ASSUME RunInit PROVE StoreTypes /\ Filed
    OBVIOUS
  <2>1. StoreTypes
    BY HoldsTypes, RunAssumption, Zenon DEF RunInit
  <2>2. Filed
    BY DEF RunInit, RedisHolds, Filed
  <2> QED
    BY <2>1, <2>2, Zenon
<1>2. StoreTypes /\ Filed /\ [RunNext]_runVars => StoreTypes' /\ Filed'
  <2> SUFFICES ASSUME StoreTypes, Filed, [RunNext]_runVars PROVE StoreTypes' /\ Filed'
    OBVIOUS
  <2>1. [Next]_dbVars
    BY FetchingIsNext, DatabaseAlone, Zenon
  <2> QED
    BY <2>1, DatabaseStep, Zenon
<1> QED
  BY <1>1, <1>2, PTL DEF RunSpec

-----------------------------------------------------------------------------
(* aggregate-crls in a run is aggregate-crls.                              *)

LEMMA SameCrls ==
  /\ C!Main <=> P!Main
  /\ \A t \in CrlThreads : C!Goroutine(t) <=> P!Goroutine(t)
  /\ C!JobInit <=> P!JobInit
BY Zenon DEF C!Main, P!Main, C!Load, P!Load, C!List, P!List, C!Listed, P!Listed,
   C!IdentifyCancelled, P!IdentifyCancelled, C!Identified, P!Identified,
   C!Downloaded, P!Downloaded, C!SaveIssuersList, P!SaveIssuersList,
   C!Acceptable, P!Acceptable, C!ParseCCADB, P!ParseCCADB, C!GoodRows, P!GoodRows,
   C!InsertAll, P!InsertAll, C!Range, P!Range, C!IssuersList, P!IssuersList,
   C!PoolEmpty, P!PoolEmpty, C!InProgram, P!InProgram, C!AllReady, P!AllReady,
   C!Goroutine, P!Goroutine, C!RunsOut, P!RunsOut, C!Find, P!Find, C!Take, P!Take,
   C!Quit, P!Quit, C!Fetch, P!Fetch, C!SendResult, P!SendResult,
   C!Aggregate, P!Aggregate, C!EnrollIssuer, P!EnrollIssuer,
   C!StoreRevoked, P!StoreRevoked, C!StoreInterrupted, P!StoreInterrupted,
   C!Step, P!Step, C!NoJob, P!NoJob, C!UrlsOf, P!UrlsOf,
   C!AnyCrlFailed, P!AnyCrlFailed, C!Fetched, P!Fetched, C!Blank, P!Blank,
   C!Garbled, P!Garbled, C!Crl, P!Crl, C!AuditKind, P!AuditKind,
   C!Enrollable, P!Enrollable, C!Enroll, P!Enroll, C!redis, P!redis, C!main, P!main,
   C!pool, P!pool, C!files, P!files, C!vars, P!vars, C!JobInit, P!JobInit

(* The variables of aggregate-crls that crlite-fetch does not write to.    *)
LEMMA CrlsAlone ==
  ASSUME UNCHANGED <<crlVars, saved>>
  PROVE  UNCHANGED <<P!main, cancelled, crlQueue, crlTpc, found, P!pool, audit, P!files>>
BY DEF crlVars, P!main, P!pool, P!files

(* aggregate-known does not touch the list.                                *)
LEMMA ListAlone ==
  ASSUME (\E t \in Threads : Goroutine(t)) \/ Main \/ Signal
  PROVE  UNCHANGED saved
<1>1. ASSUME NEW t \in Threads, Goroutine(t) PROVE UNCHANGED saved
  BY <1>1, Zenon DEF Goroutine, TakeUnit, ReadDate, OpenFile, WriteFile, RunsOut, QuitReceived
<1>2. ASSUME Main \/ Signal PROVE UNCHANGED saved
  BY <1>2, Zenon DEF Main, Load, List, Completed, SignalCaught, Signal
<1> QED
  BY <1>1, <1>2, Zenon

(* The issuers with a key are issuers.                                     *)
LEMMA KeyIssuers == \A k \in Keys : k[2] \in Issuers
BY CertFacts, ZenonT(30) DEF Keys

LEMMA RunIsCrls == RunSpec => P!Spec
<1>1. RunInit /\ StoreTypes => P!Init
  <2> SUFFICES ASSUME RunInit, StoreTypes PROVE P!Init
    OBVIOUS
  <2>1. P!JobInit
    BY SameCrls, Zenon DEF RunInit
  <2>2. crls \in [Issuers -> SUBSET Urls]
    BY DEF StoreTypes, DbTypeOK
  <2>3. {k[2] : k \in {j \in Keys : serials[j] # {}}} \subseteq Issuers
    BY KeyIssuers, Zenon
  <2> QED
    BY <2>1, <2>2, <2>3, Zenon DEF P!Init
<1>2. StoreTypes /\ Filed /\ [RunNext]_runVars => [P!Next]_(P!vars)
  <2> SUFFICES ASSUME StoreTypes, Filed, [RunNext]_runVars PROVE [P!Next]_(P!vars)
    OBVIOUS
  <2>1. CASE AggregateCrlsStep
    BY <2>1, SameCrls, Zenon DEF AggregateCrlsStep, P!Next, P!JobNext
  <2>2. CASE Fetching
    <3>1. Next /\ UNCHANGED <<crlVars, saved>>
      BY <2>2, FetchingIsNext, Zenon DEF knownVars
    <3>2. StoreTypes' /\ \A i \in Issuers : crls[i] \subseteq crls'[i]
      BY <3>1, DatabaseStep, Zenon
    <3>3. crls' \in [Issuers -> SUBSET Urls]
      BY <3>2, Zenon DEF StoreTypes, DbTypeOK
    <3>4. {k[2] : k \in {j \in Keys : serials'[j] # {}}} \in SUBSET Issuers
      BY KeyIssuers, Zenon
    <3>5. PICK f, c : f = {k[2] : k \in {j \in Keys : serials'[j] # {}}} /\ c = crls'
      BY Zenon
    <3>6. P!RedisBecomes(f, c)
      BY <3>1, <3>2, <3>5, CrlsAlone, Zenon DEF P!RedisBecomes
    <3>7. f \in SUBSET Issuers /\ c \in [Issuers -> SUBSET Urls]
      BY <3>3, <3>4, <3>5, Zenon
    <3> QED
      BY <3>6, <3>7, Zenon DEF P!Next
  <2>3. CASE UNCHANGED <<dbVars, crlVars, saved>>
    BY <2>3, CrlsAlone, Zenon DEF P!vars, P!redis, dbVars, redis
  <2>4. CASE AggregateKnownStep \/ Signalled
    <3>1. UNCHANGED saved
      BY <2>4, ListAlone, Zenon DEF AggregateKnownStep, Signalled
    <3>2. ~Fetching => UNCHANGED dbVars
      BY DatabaseAlone, Zenon
    <3>3. UNCHANGED crlVars
      BY <2>4, Zenon DEF AggregateKnownStep, Signalled
    <3> QED
      BY <2>2, <2>3, <3>1, <3>2, <3>3, ZenonT(30)
  <2> QED
    BY <2>1, <2>2, <2>3, <2>4, ZenonT(30) DEF RunNext, runVars, allVars, knownVars, CreateCertLists
<1> QED
  BY <1>1, <1>2, RunDatabase, PTL DEF RunSpec, P!Spec

(* So what is proved of aggregate-crls holds in a run.                     *)
LEMMA CrlsHold == RunSpec => [](P!Types /\ P!EnrolledSound)
<1>1. PICK c : c \in Certs
  BY KnownAssumption, Zenon
<1>2. Issuers # {}
  BY <1>1, CertFacts, Zenon
<1>3. P!AggregateAssumption
  BY <1>2, Zenon DEF P!AggregateAssumption
<1>4. P!Spec => []P!Types
  BY <1>3, P!TypesHold, Zenon
<1>5. P!Spec => []P!EnrolledSound
  BY <1>3, P!EnrolledIsSound, Zenon
<1> QED
  BY <1>4, <1>5, RunIsCrls, PTL

(* What the list says of an enrolled issuer.                               *)
LEMMA EnrolledFacts ==
  ASSUME P!Types, P!EnrolledSound, saved # <<>>, NEW e \in saved[1], e.enrolled
  PROVE  /\ e.issuer \in Issuers
         /\ begun[e.issuer] \subseteq P!UrlsOf(e.issuer)
         /\ \A u \in P!UrlsOf(e.issuer) : paths[<<e.issuer, u>>].kind = "crl"
         /\ revoked[e.issuer] = P!RevokedOf(e.issuer)
<1>1. /\ begun[e.issuer] \subseteq P!UrlsOf(e.issuer)
      /\ P!Processed(e.issuer)
      /\ revoked[e.issuer] = P!RevokedOf(e.issuer) /\ P!RevokedOf(e.issuer) # {}
  BY Zenon DEF P!EnrolledSound
<1>2. PICK u : u \in P!UrlsOf(e.issuer)
  BY <1>1, Zenon DEF P!RevokedOf
<1>3. PICK p \in merged : p[1] = e.issuer
  BY <1>2, Zenon DEF P!UrlsOf
<1>4. merged \subseteq Issuers \X Urls
  BY Zenon DEF P!Types
<1>5. e.issuer \in Issuers
  BY <1>3, <1>4, Zenon
<1> QED
  BY <1>1, <1>5, Zenon DEF P!Processed

LEMMA ListIsOK ==
  ASSUME P!Types, P!EnrolledSound
  PROVE  ListOK
BY EnrolledFacts, Zenon DEF ListOK

-----------------------------------------------------------------------------
(* The steps of a run keep the invariant.                                  *)

LEMMA RunStart ==
  ASSUME RunInit
  PROVE  RunInv
<1>1. StoreTypes
  BY HoldsTypes, RunAssumption DEF RunInit
<1>2. Filed
  BY DEF RunInit, RedisHolds, Filed
<1>3. KnownInv
  BY <1>1, <1>2, KnownStart, Zenon DEF RunInit
<1>4. OrderInv
  BY Zenon DEF RunInit, KnownInit, OrderInv
<1>5. StartInv /\ ListsInv
  BY Zenon DEF RunInit, StartInv, ListsInv
<1> QED
  BY <1>3, <1>4, <1>5, Zenon DEF RunInv

(* aggregate-crls steps only before it has exited.                         *)
LEMMA CrlsStep ==
  ASSUME AggregateCrlsStep
  PROVE  /\ mpc # "exited"
         /\ mpc # "list" => UNCHANGED begun
         /\ mpc = "list" => begun' = crls
<1>1. ASSUME NEW t \in CrlThreads, C!Goroutine(t)
      PROVE  mpc \in {"identify", "download", "aggregate"} /\ UNCHANGED begun
  BY <1>1, Zenon DEF C!Goroutine, C!RunsOut, C!Find, C!Take, C!Quit, C!Fetch, C!SendResult,
     C!Aggregate, C!EnrollIssuer, C!StoreRevoked, C!StoreInterrupted, C!main
<1>2. ASSUME C!Main
      PROVE  /\ mpc \in {"load", "list", "identify", "download", "aggregate"}
             /\ mpc # "list" => UNCHANGED begun
             /\ mpc = "list" => begun' = crls
  BY <1>2, Zenon DEF C!Main, C!Load, C!List, C!IdentifyCancelled, C!Identified, C!Downloaded,
     C!SaveIssuersList
<1> QED
  BY <1>1, <1>2, Zenon DEF AggregateCrlsStep

LEMMA CrlsKeep ==
  ASSUME RunInv, AggregateCrlsStep
  PROVE  RunInv'
<1>1. /\ kpc = "load" /\ enrolled = {}
      /\ mpc # "list" => UNCHANGED begun
      /\ mpc = "list" => begun' = crls
  BY CrlsStep, Zenon DEF RunInv, OrderInv
<1>2. /\ UNCHANGED <<dbVars, kpc, enrolled, signalled, listed, queue, tpc, unit, known,
                     atListing, lists>>
      /\ atStart' = IF mpc = "list" THEN {c \in Certs : Known(c) /\ Accounted(c)} ELSE atStart
  BY Zenon DEF AggregateCrlsStep
<1>3. KnownInv'
  BY <1>2, KnownEnvironment, Zenon DEF RunInv
<1>4. OrderInv'
  BY <1>1, <1>2, Zenon DEF OrderInv
<1>5. UNCHANGED <<now, serials, crls>>
  BY <1>2, Zenon DEF dbVars, redis
<1>6. StartInv'
  <2>1. CASE mpc = "list"
    BY <2>1, <1>1, <1>2, <1>5, ZenonT(30) DEF StartInv, Known, Accounted
  <2>2. CASE mpc # "list"
    BY <2>2, <1>1, <1>2, <1>5, ZenonT(30) DEF RunInv, StartInv, Known
  <2> QED
    BY <2>1, <2>2, Zenon
<1>7. ListsInv'
  BY <1>1, <1>2, Zenon DEF RunInv, ListsInv
<1> QED
  BY <1>3, <1>4, <1>6, <1>7, ZenonT(30) DEF RunInv

(* crlite-fetch: what the run began with stays until its hour.             *)
LEMMA FetchingKeeps ==
  ASSUME RunInv, Fetching
  PROVE  RunInv'
<1>1. Next /\ UNCHANGED <<knownVars, crlVars, lists, atStart>>
  BY FetchingIsNext, Zenon
<1>2. UNCHANGED <<saved, kpc, enrolled, signalled, listed, queue, tpc, unit, known, atListing,
                  mpc, begun, revoked, lists, atStart>>
  BY <1>1, Zenon DEF knownVars, crlVars
<1>3. KnownInv'
  BY <1>1, <1>2, KnownEnvironment, Zenon DEF RunInv
<1>4. OrderInv' /\ ListsInv'
  <2>1. OrderInv'
    BY <1>2, ZenonT(30) DEF RunInv, OrderInv
  <2>2. UNCHANGED <<lists, kpc, known, revoked>>
    BY <1>2, Zenon
  <2>3. \A i \in Issuers : KnownRevoked(i)' = KnownRevoked(i)
                         /\ KnownNotRevoked(i)' = KnownNotRevoked(i)
    BY <2>2, Zenon DEF KnownRevoked, KnownNotRevoked, KnownSet
  <2>4. ListsInv'
    <3>1. /\ {KnownRevoked(i)' : i \in Issuers} = {KnownRevoked(i) : i \in Issuers}
          /\ {KnownNotRevoked(i)' : i \in Issuers} = {KnownNotRevoked(i) : i \in Issuers}
      BY <2>3, Zenon
    <3> QED
      BY <2>2, <3>1, Zenon DEF RunInv, ListsInv
  <2> QED
    BY <2>1, <2>4, Zenon
<1>5. /\ now <= now' /\ now \in Int /\ now' \in Int
      /\ \A c \in Certs : Known(c) /\ now' < ExpDate(c) => Known(c)'
  <2>1. now \in 0..MaxTime /\ now' \in 0..MaxTime
    BY <1>3, Zenon DEF RunInv, KnownInv, StoreTypes, DbTypeOK
  <2>2. /\ now <= now'
        /\ \A c \in Certs : Known(c) /\ now' < ExpDate(c) => Known(c)'
    BY <1>1, DatabaseStep, Zenon DEF RunInv, KnownInv
  <2> QED
    BY <2>1, <2>2, DatabaseAssumption
<1>6. \A c \in Certs : now' < ExpDate(c) => now < ExpDate(c)
  BY <1>5, CertFacts
<1>7. StartInv'
  BY <1>2, <1>5, <1>6, Zenon DEF RunInv, StartInv
<1> QED
  BY <1>3, <1>4, <1>7, Zenon DEF RunInv

(* aggregate-known: it lists what the run began with, and its goroutines   *)
(* end before it does.                                                     *)
LEMMA KnownKeeps ==
  ASSUME RunInv, ListOK, AggregateKnownStep \/ Signalled
  PROVE  RunInv'
<1>1. /\ (\E t \in Threads : Goroutine(t)) \/ Main \/ Signal
      /\ UNCHANGED <<crlVars, lists, atStart>>
  BY DEF AggregateKnownStep, Signalled
<1>2. UNCHANGED saved
  BY <1>1, ListAlone, Zenon
<1>3. UNCHANGED <<mpc, begun, revoked, lists, atStart>>
  BY <1>1, Zenon DEF crlVars
<1>4. KnownInv'
  BY <1>1, KnownStep, ZenonT(30) DEF RunInv
<1>5. ASSUME NEW t \in Threads, Goroutine(t)
      PROVE  /\ kpc \in {"waiting", "quitting"} /\ kpc' \in {kpc, "exited"}
             /\ kpc' = "exited" => kpc = "quitting"
             /\ UNCHANGED <<dbVars, enrolled, signalled, atListing>>
  BY <1>5, Zenon DEF Goroutine, Alive, TakeUnit, ReadDate, OpenFile, WriteFile, RunsOut, QuitReceived
<1>6. kpc # "exited" /\ (kpc = "load" => mpc = "exited")
  BY <1>1, <1>5, ZenonT(30) DEF Main, Load, List, Completed, SignalCaught, Signal, AggregateKnownStep, Signalled
<1>7. ListsInv'
  BY <1>3, <1>6, Zenon DEF RunInv, ListsInv
<1>8. mpc' = "exited"
  BY <1>3, <1>6, Zenon DEF RunInv, OrderInv
<1>9. OrderInv'
  <2>1. CASE \E t \in Threads : Goroutine(t)
    BY <2>1, <1>2, <1>5, <1>8, ZenonT(30) DEF RunInv, OrderInv
  <2>2. CASE Load
    <3>1. \/ enrolled' = enrolled
          \/ saved # <<>> /\ enrolled' = Enrolled(LoadEnrolledIssuers(saved[1]))
      BY <2>2, Zenon DEF Load
    <3>2. \A i \in enrolled' : saved # <<>> /\ \E e \in saved[1] : e.issuer = i /\ e.enrolled
      BY <3>1, LoadedEnrolled DEF RunInv, OrderInv
    <3> QED
      BY <2>2, <3>2, <1>2, <1>8, ZenonT(30) DEF Load, OrderInv
  <2>3. CASE List \/ Completed \/ SignalCaught \/ Signal
    BY <2>3, <1>2, <1>8, Zenon DEF List, Completed, SignalCaught, Signal, RunInv, OrderInv
  <2> QED
    BY <1>1, <2>1, <2>2, <2>3, ZenonT(30) DEF Main
<1>10. StartInv'
  <2>1. UNCHANGED dbVars
    BY <1>1, <1>5, Zenon DEF Main, Load, List, Completed, SignalCaught, Signal
  <2>2. UNCHANGED <<now, serials>>
    BY <2>1, Zenon DEF dbVars, redis
  <2>3. CASE List
    BY <2>2, <2>3, <1>3, Zenon DEF List, RunInv, StartInv, Known
  <2>4. CASE ~List
    <3>1. /\ UNCHANGED atListing
          /\ kpc' \in {"waiting", "quitting", "exited"} => kpc \in {"waiting", "quitting", "exited"}
      BY <2>4, <1>1, <1>5, Zenon DEF Main, Load, Completed, SignalCaught, Signal
    <3> QED
      BY <2>2, <3>1, <1>3, Zenon DEF RunInv, StartInv, Known
  <2> QED
    BY <2>3, <2>4, Zenon
<1> QED
  BY <1>4, <1>7, <1>9, <1>10, ZenonT(30) DEF RunInv

LEMMA ListsKeep ==
  ASSUME RunInv, CreateCertLists
  PROVE  RunInv'
<1>1. UNCHANGED <<dbVars, knownVars, crlVars, atStart>> /\ kpc = "exited"
  BY Zenon DEF CreateCertLists, allVars
<1>2. UNCHANGED <<saved, kpc, enrolled, signalled, listed, queue, tpc, unit, known, atListing,
                  mpc, begun, revoked, atStart, now, serials>>
  BY <1>1, Zenon DEF knownVars, crlVars, dbVars, redis
<1>3. KnownInv'
  BY <1>1, <1>2, KnownEnvironment, Zenon DEF RunInv
<1>4. OrderInv' /\ StartInv'
  BY <1>2, Zenon DEF RunInv, OrderInv, StartInv, Known
<1>5. ListsInv'
  BY <1>2, <1>1, Zenon DEF CreateCertLists, ListsInv, KnownRevoked, KnownNotRevoked, KnownSet
<1> QED
  BY <1>3, <1>4, <1>5, Zenon DEF RunInv

LEMMA RunHolds == RunSpec => [](RunInv /\ P!Types /\ P!EnrolledSound)
<1>1. RunInit => RunInv
  BY RunStart, Zenon
<1>2. RunInv /\ P!Types /\ P!EnrolledSound /\ [RunNext]_runVars => RunInv'
  <2> SUFFICES ASSUME RunInv, P!Types, P!EnrolledSound, [RunNext]_runVars PROVE RunInv'
    OBVIOUS
  <2>1. ListOK
    BY ListIsOK, Zenon
  <2>2. CASE UNCHANGED runVars
    <3>1. UNCHANGED <<dbVars, saved, kpc, enrolled, signalled, listed, queue, tpc, unit, known,
                      atListing, mpc, begun, revoked, lists, atStart, now, serials>>
      BY <2>2, Zenon DEF runVars, allVars, knownVars, crlVars, dbVars, redis
    <3>2. KnownInv'
      BY <3>1, KnownEnvironment, Zenon DEF RunInv
    <3>3. OrderInv' /\ StartInv' /\ ListsInv'
      BY <3>1 DEF RunInv, OrderInv, StartInv, Known, ListsInv, KnownRevoked, KnownNotRevoked,
         KnownSet
    <3> QED
      BY <3>2, <3>3, Zenon DEF RunInv
  <2> QED
    BY <2>1, <2>2, CrlsKeep, FetchingKeeps, KnownKeeps, ListsKeep, ZenonT(30) DEF RunNext
<1> QED
  BY <1>1, <1>2, CrlsHold, PTL DEF RunSpec

-----------------------------------------------------------------------------
(* In a run, every variable of aggregate-known keeps its type: the list it *)
(* reads is the one aggregate-crls saved.                                  *)
THEOREM RunKnownTypes == RunSpec => []KnownTypeOK
<1>1. RunInv => KnownTypeOK
  BY KnownInvTypes, Zenon DEF RunInv
<1> QED
  BY <1>1, RunHolds, PTL

(* In a run, aggregate-known leaves nothing out if it completes.           *)
THEOREM RunKnownComplete == Threads # {} => (RunSpec => []KnownComplete)
<1> SUFFICES ASSUME Threads # {} PROVE RunSpec => []KnownComplete
  OBVIOUS
<1>1. RunInv => KnownComplete
  BY KnownInvComplete, Zenon DEF RunInv
<1> QED
  BY <1>1, RunHolds, PTL

(* A key is listed as revoked on the word of a CRL of its enrolled issuer, *)
(* and as valid, if the run could know its URLs, only when every CRL it    *)
(* names was fetched and none revokes it: for any certificates, CRLs,      *)
(* goroutines and workers, and however crlite-fetch interleaves.           *)
THEOREM VerdictsHold == RunSpec => []VerdictsVouched
<1>1. RunInv /\ P!Types /\ P!EnrolledSound => VerdictsVouched
  <2> SUFFICES ASSUME RunInv, P!Types, P!EnrolledSound, lists # <<>>
               PROVE  /\ \A c \in lists[1].revoked :
                           Issuer[c] \in enrolled /\ c \in C!RevokedOf(Issuer[c])
                      /\ \A c \in lists[1].valid \cap atStart :
                           \A u \in Range(Dps[c]) \cap WebDps :
                             LET crl == paths[<<Issuer[c], u>>]
                             IN crl.kind = "crl" /\ c \notin crl.revoked
    BY Zenon DEF VerdictsVouched
  <2>1. /\ lists[1].revoked = UNION {KnownRevoked(i) : i \in Issuers}
        /\ lists[1].valid = UNION {KnownNotRevoked(i) : i \in Issuers}
    BY Zenon DEF RunInv, ListsInv
  <2>2. ASSUME NEW i \in Issuers, NEW c \in KnownSet(i)
        PROVE  i \in enrolled /\ Issuer[c] = i
    BY <2>2, Zenon DEF KnownSet, RunInv, KnownInv, UnitInv
  <2>3. ASSUME NEW i \in enrolled
        PROVE  /\ begun[i] \subseteq P!UrlsOf(i)
               /\ \A u \in P!UrlsOf(i) : paths[<<i, u>>].kind = "crl"
               /\ revoked[i] = P!RevokedOf(i)
    <3>1. PICK e \in saved[1] : saved # <<>> /\ e.issuer = i /\ e.enrolled
      BY <2>3, Zenon DEF RunInv, OrderInv
    <3> QED
      BY <3>1, EnrolledFacts, Zenon
  <2>4. ASSUME NEW c \in lists[1].revoked
        PROVE  Issuer[c] \in enrolled /\ c \in C!RevokedOf(Issuer[c])
    <3>1. PICK i \in Issuers : c \in KnownSet(i) /\ c \in revoked[i]
      BY <2>1, <2>4, Zenon DEF KnownRevoked
    <3>2. i \in enrolled /\ Issuer[c] = i /\ c \in P!RevokedOf(i)
      BY <3>1, <2>2, <2>3, ZenonT(30)
    <3>3. C!RevokedOf(i) = P!RevokedOf(i)
      BY Zenon DEF C!RevokedOf, P!RevokedOf, C!UrlsOf, P!UrlsOf
    <3> QED
      BY <3>2, <3>3, Zenon
  <2>5. ASSUME NEW c \in lists[1].valid \cap atStart, NEW u \in Range(Dps[c]) \cap WebDps
        PROVE  /\ paths[<<Issuer[c], u>>].kind = "crl"
               /\ c \notin paths[<<Issuer[c], u>>].revoked
    <3>1. PICK i \in Issuers : c \in KnownSet(i) /\ c \notin revoked[i]
      BY <2>1, <2>5, Zenon DEF KnownNotRevoked
    <3>2. i \in enrolled /\ Issuer[c] = i
      BY <3>1, <2>2, ZenonT(30)
    <3>3. u \in P!UrlsOf(i)
      BY <3>2, <2>3, Zenon DEF RunInv, StartInv
    <3>4. paths[<<i, u>>].kind = "crl" /\ c \notin P!RevokedOf(i)
      BY <3>1, <3>2, <3>3, <2>3, ZenonT(30)
    <3> QED
      BY <3>2, <3>3, <3>4, ZenonT(30) DEF P!RevokedOf
  <2> QED
    BY <2>4, <2>5, Zenon
<1> QED
  BY <1>1, RunHolds, PTL

(* A certificate of an enrolled issuer that Redis knew when the run began  *)
(* gets a verdict, for any certificates, goroutines and workers, unless a  *)
(* signal came or its hour did.                                            *)
THEOREM RunLeavesNoneOut == Threads # {} => (RunSpec => []RunCovers)
<1> SUFFICES ASSUME Threads # {} PROVE RunSpec => []RunCovers
  BY Zenon
<1>1. RunInv => RunCovers
  <2> SUFFICES ASSUME RunInv, lists # <<>>, ~signalled, NEW c \in atStart,
                      Issuer[c] \in enrolled, now < ExpDate(c)
               PROVE  c \in lists[1].revoked \cup lists[1].valid
    BY Zenon DEF RunCovers
  <2>1. /\ kpc = "exited"
        /\ lists[1].revoked = UNION {KnownRevoked(i) : i \in Issuers}
        /\ lists[1].valid = UNION {KnownNotRevoked(i) : i \in Issuers}
    BY Zenon DEF RunInv, ListsInv
  <2>2. c \in atListing /\ \A t \in Threads : tpc[t] = "done"
    BY <2>1, Zenon DEF RunInv, StartInv, OrderInv
  <2>3. KnownComplete
    BY KnownInvComplete, Zenon DEF RunInv
  <2>4. known[Issuer[c]] # <<>> /\ c \in known[Issuer[c]][1]
    BY <2>1, <2>2, <2>3, Zenon DEF KnownComplete
  <2>5. Issuer[c] \in Issuers /\ c \in KnownSet(Issuer[c])
    BY <2>4, CertFacts, Zenon DEF KnownSet, RunInv, StartInv
  <2> QED
    BY <2>1, <2>5 DEF KnownRevoked, KnownNotRevoked
<1> QED
  BY <1>1, RunHolds, PTL
=============================================================================
