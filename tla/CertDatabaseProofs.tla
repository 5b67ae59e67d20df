------------------------- MODULE CertDatabaseProofs -------------------------
(***************************************************************************)
(* What Store and Redis keep, for any number of workers, certificates,     *)
(* issuers and distribution points.  The lemmas are about single steps of  *)
(* CertDatabase, so that ct-fetch and aggregate-known can use them too.    *)
(***************************************************************************)
EXTENDS CertDatabase, TLAPS

(* The types, with where in Store each local variable is in use.           *)
StoreTypes ==
  /\ DbTypeOK
  /\ pc \in [Workers -> StorePcs \cup {"new", "idle", "gone"}]
  /\ todo \in [Workers -> Seq(Urls)]
  /\ \A w \in Workers :
       /\ pc[w] \in StorePcs <=> cert[w] \in Certs
       /\ pc[w] \in {"insert", "expire"} => kc[w] \in Workers
       /\ pc[w] \in {"accumulate", "dps", "addCRL", "addDN"} => im[w] \in Workers
       /\ pc[w] = "addCRL" => todo[w] # <<>>
       /\ pc[w] \in {"dps", "addCRL"} =>
            \A k \in 1..Len(todo[w]) : todo[w][k] \in Range(Dps[cert[w]])

-----------------------------------------------------------------------------
(* The parts of a certificate.                                             *)
LEMMA CertFacts ==
  ASSUME NEW c \in Certs
  PROVE  /\ Key(c) \in Keys /\ Key(c)[1] = ExpDate(c) /\ Key(c)[2] = Issuer[c]
         /\ ExpDate(c) \in Int
         /\ Issuer[c] \in Issuers /\ Dn[c] \in DNs
         /\ Dps[c] \in Seq(Urls) /\ Range(Dps[c]) \subseteq Urls
         /\ \A k \in 1..Len(Dps[c]) : Dps[c][k] \in Range(Dps[c])
<1>1. Key(c) \in Keys /\ Key(c)[1] = ExpDate(c) /\ Key(c)[2] = Issuer[c]
  BY DEF Keys, Key
<1>2. ExpDate(c) \in Int
  <2>1. NotAfter[c] \in Int /\ Hour \in Nat \ {0}
    BY DatabaseAssumption
  <2>2. NotAfter[c] % Hour \in Int
    BY <2>1
  <2> QED
    BY <2>1, <2>2 DEF ExpDate
<1>3. Issuer[c] \in Issuers /\ Dn[c] \in DNs
  BY DatabaseAssumption DEF Issuers, DNs, Range
<1>4. Range(Dps[c]) \subseteq Urls
  BY DEF Urls
<1>5. Dps[c] \in Seq(Range(Dps[c]))
  BY DatabaseAssumption
<1>6. \A k \in 1..Len(Dps[c]) : Dps[c][k] \in Range(Dps[c])
  BY <1>5
<1>7. Dps[c] \in Seq(Urls)
  BY <1>4, <1>5, <1>6
<1> QED
  BY <1>1, <1>2, <1>3, <1>4, <1>6, <1>7

(* Keys carry an hour and an issuer.                                       *)
LEMMA KeyFacts ==
  ASSUME NEW k \in Keys
  PROVE  k[1] \in Int /\ k[2] \in Issuers
BY CertFacts DEF Keys

-----------------------------------------------------------------------------
(* What EXPIREAT and the end of the distribution points come to.           *)
LEMMA ExpireAtCases ==
  ASSUME NEW k, ExpireAt(k)
  PROVE  \/ /\ Due(k, now)
            /\ serials' = [serials EXCEPT ![k] = {}]
            /\ ttl' = ttl \ {k}
         \/ /\ ~Due(k, now)
            /\ ttl' = ttl \cup {j \in {k} : serials[j] # {}}
            /\ UNCHANGED serials
BY Zenon DEF ExpireAt

LEMMA ExpireAtTypes ==
  ASSUME serials \in [Keys -> SUBSET Certs],
         ttl \subseteq {k \in Keys : serials[k] # {}},
         NEW k \in Keys, ExpireAt(k)
  PROVE  /\ serials' \in [Keys -> SUBSET Certs]
         /\ ttl' \subseteq {j \in Keys : serials'[j] # {}}
<1>1. CASE /\ serials' = [serials EXCEPT ![k] = {}]
           /\ ttl' = ttl \ {k}
  BY <1>1
<1>2. CASE /\ ttl' = ttl \cup {j \in {k} : serials[j] # {}}
           /\ UNCHANGED serials
  BY <1>2
<1> QED
  BY <1>1, <1>2, ExpireAtCases

LEMMA DpsDoneCases ==
  ASSUME NEW w, DpsDone(w)
  PROVE  \/ seenDn[w] /\ Return(w) /\ UNCHANGED knownDNs
         \/ /\ knownDNs' = [knownDNs EXCEPT ![ImOf(w)] = @ \cup {Dn[cert[w]]}]
            /\ Continue(w, "addDN")
BY Zenon DEF DpsDone

LEMMA SetExpiryCases ==
  ASSUME NEW w, SetExpiry(w)
  PROVE  /\ \/ UNCHANGED <<serials, ttl>> /\ (ExpiryIsSet(w) \/ RedisFaults)
            \/ ExpireAt(Key(cert[w]))
         /\ \/ unknown[w] /\ Continue(w, "metadata")
            \/ ~unknown[w] /\ Return(w)
BY Zenon DEF SetExpiry, WasUnknown

(* The variables of the workers, when Store returns or goes on.            *)
LocalTypes ==
  /\ pc \in [Workers -> StorePcs \cup {"new", "idle", "gone"}]
  /\ cert \in [Workers -> Certs \cup {Nobody}]
  /\ kc \in [Workers -> Workers \cup {Nobody}] /\ im \in [Workers -> Workers \cup {Nobody}]
  /\ unknown \in [Workers -> BOOLEAN] /\ seenDn \in [Workers -> BOOLEAN]
  /\ todo \in [Workers -> Seq(Urls)]
  /\ \A w \in Workers :
       /\ pc[w] \in StorePcs <=> cert[w] \in Certs
       /\ pc[w] \in {"insert", "expire"} => kc[w] \in Workers
       /\ pc[w] \in {"accumulate", "dps", "addCRL", "addDN"} => im[w] \in Workers
       /\ pc[w] = "addCRL" => todo[w] # <<>>
       /\ pc[w] \in {"dps", "addCRL"} =>
            \A k \in 1..Len(todo[w]) : todo[w][k] \in Range(Dps[cert[w]])

LEMMA ReturnTypes ==
  ASSUME StoreTypes, NEW w \in Workers, Return(w)
  PROVE  LocalTypes'
BY DatabaseAssumption DEF StoreTypes, DbTypeOK, LocalTypes, Return, Goto, StorePcs

LEMMA ContinueTypes ==
  ASSUME StoreTypes, NEW w \in Workers, NEW p, Continue(w, p), cert[w] \in Certs,
         p = "metadata" \/ (p = "addDN" /\ im[w] \in Workers)
  PROVE  LocalTypes'
BY DEF StoreTypes, DbTypeOK, LocalTypes, Continue, Goto, locals, StorePcs

(* The marking of a DN, or of distribution points.                         *)
LEMMA AddedTypes ==
  ASSUME NEW D, NEW S, NEW f \in [D -> SUBSET S], NEW d \in D, NEW X \in SUBSET S
  PROVE  /\ [f EXCEPT ![d] = @ \cup X] \in [D -> SUBSET S]
         /\ \A e \in D : \A x \in [f EXCEPT ![d] = @ \cup X][e] :
              x \in f[e] \/ (e = d /\ x \in X)
OBVIOUS

LEMMA DpsDoneTypes ==
  ASSUME StoreTypes, NEW w \in Workers, DpsDone(w)
  PROVE  StoreTypes'
<1>1. cert[w] \in Certs /\ im[w] \in Workers
  BY DEF DpsDone, StoreTypes, StorePcs
<1>2. LocalTypes'
  BY <1>1, DpsDoneCases, ContinueTypes, ReturnTypes, Zenon
<1>3. knownDNs' \in [Issuers \X Workers -> SUBSET DNs]
  <2>1. ImOf(w) \in Issuers \X Workers /\ {Dn[cert[w]]} \in SUBSET DNs
    BY <1>1, CertFacts DEF ImOf
  <2>2. knownDNs \in [Issuers \X Workers -> SUBSET DNs]
    BY DEF StoreTypes, DbTypeOK
  <2>3. CASE UNCHANGED knownDNs
    BY <2>2, <2>3
  <2>4. CASE knownDNs' = [knownDNs EXCEPT ![ImOf(w)] = @ \cup {Dn[cert[w]]}]
    BY <2>1, <2>2, <2>4, AddedTypes, SMTT(30)
  <2> QED
    BY <2>3, <2>4, DpsDoneCases, Zenon
<1>4. UNCHANGED <<now, redis, kcOf, expirySet, metaOf, knownDPs>>
  BY DEF DpsDone
<1> QED
  BY <1>2, <1>3, <1>4, Zenon DEF LocalTypes, StoreTypes, DbTypeOK, redis

(* Store is called.                                                        *)
LEMMA CalledTypes ==
  ASSUME StoreTypes, NEW w \in Workers, NEW c \in Certs, StoreCalled(w, c)
  PROVE  StoreTypes'
BY DatabaseAssumption DEF StoreTypes, DbTypeOK, StoreCalled, Goto, redis, memory, StorePcs, Known

(* Store goes on.                                                          *)
LEMMA StepTypes ==
  ASSUME StoreTypes, NEW w \in Workers, StoreStep(w)
  PROVE  StoreTypes'
<1> USE DatabaseAssumption DEF StoreTypes, DbTypeOK, Goto, Continue, Return, redis,
        memory, locals, StorePcs
<1>1. CASE LookupKnown(w)
  BY <1>1, CertFacts DEF LookupKnown
<1>2. CASE NewKnown(w)
  BY <1>2, CertFacts DEF NewKnown
<1>3. CASE InsertSerial(w)
  BY <1>3, CertFacts DEF InsertSerial
<1>4. CASE SetExpiry(w)
  <2>1. cert[w] \in Certs /\ kc[w] \in Workers /\ Key(cert[w]) \in Keys
    BY <1>4, CertFacts, Zenon DEF SetExpiry
  <2>2. /\ serials' \in [Keys -> SUBSET Certs]
        /\ ttl' \subseteq {k \in Keys : serials'[k] # {}}
    <3>1. CASE UNCHANGED <<serials, ttl>>
      BY <3>1, Zenon
    <3>2. CASE ExpireAt(Key(cert[w]))
      BY <2>1, <3>2, ExpireAtTypes, Zenon
    <3> QED
      BY <1>4, <3>1, <3>2, SetExpiryCases, Zenon
  <2>3. expirySet' \subseteq Keys \X Workers
    BY <1>4, <2>1 DEF SetExpiry, KcOf
  <2> QED
    <3>1. LocalTypes'
      BY <1>4, <2>1, SetExpiryCases, ContinueTypes, ReturnTypes, Zenon
    <3>2. UNCHANGED <<now, crls, issuerDNs, kcOf, metaOf, knownDPs, knownDNs>>
      BY <1>4, Zenon DEF SetExpiry
    <3> QED
      BY <2>2, <2>3, <3>1, <3>2 DEF LocalTypes
<1>5. CASE LookupMetadata(w)
  BY <1>5, CertFacts DEF LookupMetadata
<1>6. CASE NewMetadata(w)
  BY <1>6, CertFacts DEF NewMetadata
<1>7. CASE ReadSeen(w)
  BY <1>7, CertFacts DEF ReadSeen
<1>8. CASE SkipDp(w)
  BY <1>8, SMTT(30) DEF SkipDp
<1>9. CASE MarkDp(w)
  BY <1>9, CertFacts DEF MarkDp, Marked, ImOf
<1>10. CASE AddCRL(w)
  BY <1>10, CertFacts, SMTT(30) DEF AddCRL
<1>11. CASE DpsDone(w)
  BY <1>11, DpsDoneTypes, Zenon
<1>12. CASE AddDN(w)
  BY <1>12, CertFacts, SMTT(30) DEF AddDN
<1> QED
  BY <1>1, <1>2, <1>3, <1>4, <1>5, <1>6, <1>7, <1>8, <1>9, <1>10, <1>11, <1>12, Zenon
     DEF StoreStep

(* Store fails.                                                            *)
LEMMA FailTypes ==
  ASSUME StoreTypes, NEW w \in Workers, StoreFails(w)
  PROVE  StoreTypes'
<1> USE DatabaseAssumption DEF StoreTypes, DbTypeOK, Goto, Return, redis, memory, StorePcs
<1>1. CASE InsertSerialFails(w)
  BY <1>1, CertFacts, SMTT(30) DEF InsertSerialFails, SaddFailed
<1>2. CASE AddCRLFails(w)
  BY <1>2, SMTT(30) DEF AddCRLFails
<1>3. CASE AddDNFails(w)
  BY <1>3 DEF AddDNFails
<1> QED
  BY <1>1, <1>2, <1>3, Zenon DEF StoreFails

(* Time passes.                                                            *)
LEMMA TickTypes ==
  ASSUME StoreTypes, Tick
  PROVE  StoreTypes'
BY DatabaseAssumption DEF StoreTypes, DbTypeOK, Tick, TtlWithout, memory, locals, StorePcs

-----------------------------------------------------------------------------
(* A known serial is dropped only when its hour has begun, by EXPIREAT or  *)
(* by the clock.                                                           *)
LEMMA StepKeepsKnown ==
  ASSUME StoreTypes, NEW w \in Workers, NEW c \in Certs,
         StoreStep(w) \/ StoreFails(w), Known(c), now < ExpDate(c)
  PROVE  Known(c)'
<1> USE DEF Known
<1>1. CASE InsertSerial(w)
  BY <1>1, CertFacts, Zenon DEF InsertSerial, StoreTypes, DbTypeOK, StorePcs
<1>2. CASE InsertSerialFails(w)
  BY <1>2, CertFacts, SMTT(30) DEF InsertSerialFails, SaddFailed, StoreTypes, DbTypeOK, StorePcs
<1>3. CASE SetExpiry(w)
  <2>1. CASE ExpireAt(Key(cert[w])) /\ ~UNCHANGED serials
    <3>1. /\ Due(Key(cert[w]), now)
          /\ serials' = [serials EXCEPT ![Key(cert[w])] = {}]
      BY <2>1, ExpireAtCases, Zenon
    <3>2. Key(c) # Key(cert[w])
      BY <3>1, CertFacts DEF Due, StoreTypes, DbTypeOK
    <3> QED
      BY <3>1, <3>2, CertFacts DEF StoreTypes, DbTypeOK
  <2> QED
    BY <1>3, <2>1, SetExpiryCases, Zenon
<1>4. CASE UNCHANGED serials
  BY <1>4
<1>5. InsertSerial(w) \/ InsertSerialFails(w) \/ SetExpiry(w) \/ UNCHANGED serials
  BY Zenon DEF StoreStep, StoreFails, LookupKnown, NewKnown, LookupMetadata, NewMetadata,
         ReadSeen, SkipDp, MarkDp, AddCRL, DpsDone, AddDN, AddCRLFails, AddDNFails, redis
<1> QED
  BY <1>1, <1>2, <1>3, <1>4, <1>5, Zenon

LEMMA TickKeepsKnown ==
  ASSUME StoreTypes, NEW c \in Certs, Tick, Known(c), now' < ExpDate(c)
  PROVE  Known(c)'
<1>1. ~Due(Key(c), now + 1) /\ Key(c) \in Keys
  BY CertFacts, SMTT(30) DEF Tick, Due, StoreTypes, DbTypeOK
<1> QED
  BY <1>1, Zenon DEF Tick, Known

LEMMA HoldsTypes ==
  ASSUME NEW stored \in SUBSET Certs, now = 0, RedisHolds(stored), MemoryInit,
         pc = [w \in Workers |-> "idle"]
  PROVE  StoreTypes
<1>1. /\ serials \in [Keys -> SUBSET Certs] /\ issuerDNs \in [Issuers -> SUBSET DNs]
      /\ ttl \subseteq {k \in Keys : serials[k] # {}}
  BY CertFacts DEF RedisHolds
<1>2. crls \in [Issuers -> SUBSET Urls]
  <2>1. \A c \in Certs : Range(Dps[c]) \subseteq Urls
    BY CertFacts
  <2> QED
    BY <2>1 DEF RedisHolds
<1> QED
  BY <1>1, <1>2, DatabaseAssumption, SMTT(30) DEF MemoryInit, StoreTypes, DbTypeOK, StorePcs

LEMMA InitTypes ==
  ASSUME Init
  PROVE  StoreTypes
BY HoldsTypes DEF Init, DbInit

-----------------------------------------------------------------------------
(* The types hold in every state of the database.                          *)
THEOREM StoreTypesHold == Spec => []StoreTypes
<1>1. Init => StoreTypes
  BY InitTypes
<1>2. StoreTypes /\ [Next]_dbVars => StoreTypes'
  <2> SUFFICES ASSUME StoreTypes, [Next]_dbVars PROVE StoreTypes'
    BY Zenon
  <2>1. CASE UNCHANGED dbVars
    BY <2>1 DEF StoreTypes, DbTypeOK, dbVars, redis, memory, locals
  <2> QED
    BY <2>1, CalledTypes, StepTypes, TickTypes DEF Next
<1> QED
  BY <1>1, <1>2, PTL DEF Spec

(* Every variable of the database keeps its type.                          *)
THEOREM DbTypeCorrect == Spec => []DbTypeOK
<1>1. StoreTypes => DbTypeOK
  BY DEF StoreTypes
<1> QED
  BY <1>1, StoreTypesHold, PTL

(* A known serial stays known until its certificate's hour of expiry.      *)
THEOREM KnownUntilExpiry == Spec => KnownUntilItsHour
<1>1. StoreTypes /\ [Next]_dbVars =>
        [\A c \in Certs : Known(c) /\ now' < ExpDate(c) => Known(c)']_dbVars
  <2> SUFFICES ASSUME StoreTypes, Next, NEW c \in Certs, Known(c), now' < ExpDate(c)
               PROVE  Known(c)'
    OBVIOUS
  <2>1. CASE Tick
    BY <2>1, TickKeepsKnown
  <2>2. ASSUME NEW w \in Workers, StoreStep(w) PROVE Known(c)'
    <3>1. now' = now
      BY <2>2, Zenon DEF StoreStep, LookupKnown, NewKnown, InsertSerial, SetExpiry,
         LookupMetadata, NewMetadata, ReadSeen, SkipDp, MarkDp, AddCRL, DpsDone, AddDN
    <3> QED
      BY <2>2, <3>1, StepKeepsKnown
  <2>3. ASSUME NEW w \in Workers, NEW d \in Certs, StoreCalled(w, d) PROVE Known(c)'
    BY <2>3 DEF StoreCalled, redis, Known
  <2> QED
    BY <2>1, <2>2, <2>3 DEF Next
<1> QED
  BY <1>1, StoreTypesHold, PTL DEF Spec, KnownUntilItsHour

-----------------------------------------------------------------------------
(* Why an expiry is never missing at rest: an object that has set it left  *)
(* it on the key, and a key without one is in the hands of a worker that   *)
(* has just inserted into it.                                              *)
TtlInv ==
  /\ \A o \in expirySet : now < o[1][1] => o[1] \in ttl
  /\ \A w \in Workers :
       pc[w] = "expire" /\ now < ExpDate(cert[w]) => Known(cert[w])
  /\ \A k \in Keys :
       serials[k] # {} /\ now < k[1] /\ k \notin ttl =>
         \E w \in Workers : pc[w] = "expire" /\ Key(cert[w]) = k

(* The step of WasUnknown after the insertion, with a Redis that answers.  *)
LEMMA SetExpiryTtl ==
  ASSUME StoreTypes, TtlInv, ~RedisFaults, NEW w \in Workers, SetExpiry(w)
  PROVE  TtlInv'
<1> DEFINE k == Key(cert[w])
<1>1. /\ cert[w] \in Certs /\ kc[w] \in Workers /\ k \in Keys
      /\ k[1] = ExpDate(cert[w]) /\ k[1] \in Int /\ now \in Int
      /\ pc[w] = "expire" /\ now' = now
      /\ expirySet' = expirySet \cup {KcOf(w)} /\ KcOf(w)[1] = k
  BY CertFacts DEF SetExpiry, StoreTypes, DbTypeOK, StorePcs, KcOf
<1>2. \A v \in Workers \ {w} : pc'[v] = pc[v] /\ cert'[v] = cert[v]
  <2>1. Continue(w, "metadata") \/ Return(w)
    BY SetExpiryCases
  <2>2. pc \in [Workers -> StorePcs \cup {"new", "idle", "gone"}]
        /\ cert \in [Workers -> Certs \cup {Nobody}]
    BY Zenon DEF StoreTypes, DbTypeOK
  <2> QED
    BY <2>1, <2>2, Zenon DEF Return, Continue, Goto, locals
<1>3. pc'[w] # "expire"
  BY SetExpiryCases, SMTT(30) DEF Return, Continue, Goto, StoreTypes
<1>4. now < k[1] => k \in ttl' /\ serials' = serials /\ ttl \subseteq ttl'
  <2> SUFFICES ASSUME now < k[1] PROVE k \in ttl' /\ serials' = serials /\ ttl \subseteq ttl'
    OBVIOUS
  <2>1. CASE UNCHANGED <<serials, ttl>> /\ ExpiryIsSet(w)
    BY <1>1, <2>1 DEF TtlInv, ExpiryIsSet
  <2>2. CASE ExpireAt(k)
    <3>1. Known(cert[w]) /\ ~Due(k, now)
      BY <1>1, SMTT(30) DEF TtlInv, Due
    <3> QED
      BY <2>2, <3>1, ExpireAtCases DEF Known
  <2> QED
    BY <2>1, <2>2, SetExpiryCases
<1>5. \A j \in Keys : j # k => serials'[j] = serials[j] /\ (j \in ttl <=> j \in ttl')
  <2>1. CASE UNCHANGED <<serials, ttl>>
    BY <2>1, Zenon
  <2>2. CASE ExpireAt(k)
    <3>1. serials \in [Keys -> SUBSET Certs]
      BY DEF StoreTypes, DbTypeOK
    <3> QED
      BY <1>1, <2>2, <3>1, ExpireAtCases
  <2> QED
    BY <2>1, <2>2, SetExpiryCases
<1>6. \A j \in Keys : j[1] \in Int
  BY KeyFacts
<1>7. \A o \in expirySet' : now' < o[1][1] => o[1] \in ttl'
  <2> SUFFICES ASSUME NEW o \in expirySet', now < o[1][1] PROVE o[1] \in ttl'
    BY <1>1
  <2>1. CASE o[1] = k
    BY <1>4, <2>1, Zenon
  <2>2. CASE o[1] # k
    BY <1>1, <1>5, <2>2, Zenon DEF TtlInv, StoreTypes, DbTypeOK
  <2> QED
    BY <2>1, <2>2, Zenon
<1>8. ASSUME NEW v \in Workers, pc'[v] = "expire", now' < ExpDate(cert'[v])
      PROVE  cert'[v] \in serials'[Key(cert'[v])]
  <2>1. /\ v # w /\ cert'[v] = cert[v] /\ cert[v] \in Certs
        /\ now < ExpDate(cert[v]) /\ pc[v] = "expire"
    BY <1>1, <1>2, <1>3, <1>8, Zenon DEF StoreTypes, StorePcs
  <2>2. Known(cert[v]) /\ Key(cert[v]) \in Keys /\ Key(cert[v])[1] = ExpDate(cert[v])
    BY <2>1, CertFacts, Zenon DEF TtlInv
  <2>3. serials'[Key(cert[v])] = serials[Key(cert[v])]
    BY <1>4, <1>5, <2>1, <2>2
  <2> QED
    BY <2>1, <2>2, <2>3, Zenon DEF Known
<1>9. ASSUME NEW j \in Keys, serials'[j] # {}, now' < j[1], j \notin ttl'
      PROVE  \E v \in Workers : pc'[v] = "expire" /\ Key(cert'[v]) = j
  <2>1. j # k /\ serials[j] # {} /\ now < j[1] /\ j \notin ttl
    BY <1>1, <1>4, <1>5, <1>9, Zenon
  <2>2. PICK v \in Workers : pc[v] = "expire" /\ Key(cert[v]) = j
    BY <2>1 DEF TtlInv
  <2> QED
    BY <1>2, <2>1, <2>2, Zenon
<1> QED
  BY <1>7, <1>8, <1>9, ZenonT(30) DEF TtlInv, Known, Key, ExpDate

(* The other steps of Store leave expiries alone.                          *)
LEMMA StepTtl ==
  ASSUME StoreTypes, TtlInv, ~RedisFaults, NEW w \in Workers, StoreStep(w)
  PROVE  TtlInv'
<1>1. CASE SetExpiry(w)
  BY <1>1, SetExpiryTtl, Zenon
<1>2. CASE InsertSerial(w)
  <2>1. /\ cert[w] \in Certs /\ Key(cert[w]) \in Keys /\ pc' = [pc EXCEPT ![w] = "expire"]
        /\ serials' = [serials EXCEPT ![Key(cert[w])] = @ \cup {cert[w]}]
        /\ UNCHANGED <<now, ttl, cert, expirySet>>
    BY <1>2, CertFacts, Zenon DEF InsertSerial, Goto, StoreTypes, StorePcs, memory
  <2>2. \A k \in Keys : k # Key(cert[w]) => serials'[k] = serials[k]
    BY <2>1 DEF StoreTypes, DbTypeOK
  <2>3. \A v \in Workers : pc'[v] = "expire" <=> v = w \/ pc[v] = "expire"
    BY <2>1, Zenon DEF StoreTypes
  <2>4. \A v \in Workers : cert[v] \in Certs /\ cert[v] \in serials[Key(cert[v])]
                             => cert[v] \in serials'[Key(cert[v])]
    BY <2>1, CertFacts DEF StoreTypes, DbTypeOK
  <2>5. cert[w] \in serials'[Key(cert[w])]
    BY <2>1, Zenon DEF StoreTypes, DbTypeOK
  <2>6. \A v \in Workers : pc[v] = "expire" => cert[v] \in Certs
    BY SMTT(20) DEF StoreTypes, StorePcs
  <2> QED
    BY <2>1, <2>2, <2>3, <2>4, <2>5, <2>6, Zenon DEF TtlInv, Known
<1>3. CASE ~SetExpiry(w) /\ ~InsertSerial(w)
  <2>1. UNCHANGED <<now, serials, ttl, expirySet>> /\ pc[w] # "expire"
    BY <1>3, Zenon DEF StoreStep, LookupKnown, NewKnown, LookupMetadata, NewMetadata, ReadSeen,
       SkipDp, MarkDp, AddCRL, DpsDone, AddDN, redis, memory
  <2>2. /\ \A v \in Workers \ {w} : pc'[v] = pc[v] /\ cert'[v] = cert[v]
        /\ pc'[w] # "expire"
    <3>1. /\ pc \in [Workers -> StorePcs \cup {"new", "idle", "gone"}]
          /\ cert \in [Workers -> Certs \cup {Nobody}]
      BY DEF StoreTypes, DbTypeOK
    <3>2. \/ UNCHANGED cert \/ cert' = [cert EXCEPT ![w] = Nobody]
      BY <1>3, DpsDoneCases, Zenon DEF StoreStep, LookupKnown, NewKnown, LookupMetadata,
         NewMetadata, ReadSeen, SkipDp, MarkDp, AddCRL, AddDN, Continue, Return, locals
    <3>3. \E p \in {"newKc", "insert", "newIm", "accumulate", "dps", "addCRL", "addDN", "idle"} :
            pc' = [pc EXCEPT ![w] = p]
      <4>1. CASE SkipDp(w)
        BY <3>1, <4>1 DEF SkipDp
      <4>2. CASE ~SkipDp(w)
        BY <1>3, <4>2, DpsDoneCases, Zenon DEF StoreStep, LookupKnown, NewKnown, LookupMetadata,
           NewMetadata, ReadSeen, MarkDp, AddCRL, AddDN, Goto, Continue, Return
      <4> QED
        BY <4>1, <4>2
    <3> QED
      BY <3>1, <3>2, <3>3
  <2> QED
    BY <2>1, <2>2, Zenon DEF TtlInv, Known, Key, ExpDate
<1> QED
  BY <1>1, <1>2, <1>3

(* With a Redis that answers, a key whose hour has not begun carries an    *)
(* expiry whenever no Store is running.                                    *)
THEOREM TtlHolds == ~RedisFaults => (Spec => []TtlAtRest)
<1> SUFFICES ASSUME ~RedisFaults PROVE Spec => []TtlAtRest
  OBVIOUS
<1>1. Init => TtlInv
  <2> SUFFICES ASSUME Init PROVE TtlInv
    OBVIOUS
  <2>1. expirySet = {} /\ \A w \in Workers : pc[w] = "idle"
    BY DEF Init, DbInit, MemoryInit
  <2>2. \A k \in Keys : serials[k] = {}
    BY DEF Init, DbInit, RedisHolds
  <2> QED
    BY <2>1, <2>2 DEF TtlInv
<1>2. StoreTypes /\ TtlInv /\ [Next]_dbVars => TtlInv'
  <2> SUFFICES ASSUME StoreTypes, TtlInv, [Next]_dbVars PROVE TtlInv'
    BY Zenon
  <2>1. ASSUME NEW w \in Workers, NEW c \in Certs, StoreCalled(w, c) PROVE TtlInv'
    <3>1. /\ UNCHANGED <<now, serials, ttl, expirySet>>
          /\ \A v \in Workers \ {w} : pc'[v] = pc[v] /\ cert'[v] = cert[v]
          /\ pc[w] # "expire" /\ pc'[w] # "expire"
      BY <2>1 DEF StoreCalled, Goto, redis, memory, StoreTypes, DbTypeOK
    <3> QED
      BY <3>1, ZenonT(30) DEF TtlInv, Known, Key, ExpDate
  <2>2. CASE Tick
    <3>1. /\ now \in Int /\ now' = now + 1 /\ UNCHANGED <<expirySet, pc, cert>>
          /\ \A k \in Keys : serials'[k] = IF k \in ttl /\ k[1] <= now + 1 THEN {} ELSE serials[k]
          /\ ttl' = {k \in ttl : ~(k[1] <= now + 1)}
      BY <2>2 DEF Tick, Due, TtlWithout, memory, locals, StoreTypes, DbTypeOK
    <3>2. \A k \in Keys : k[1] \in Int
      BY KeyFacts, Zenon
    <3>3. \A o \in expirySet : o[1] \in Keys
      BY DEF StoreTypes, DbTypeOK
    <3>4. \A w \in Workers : pc[w] = "expire" =>
            /\ Key(cert[w]) \in Keys /\ Key(cert[w])[1] = ExpDate(cert[w])
            /\ ExpDate(cert[w]) \in Int
      BY CertFacts, ZenonT(30) DEF StoreTypes, StorePcs
    <3>5. \A o \in expirySet' : now' < o[1][1] => o[1] \in ttl'
      <4> SUFFICES ASSUME NEW o \in expirySet, now' < o[1][1] PROVE o[1] \in ttl'
        BY <3>1, Zenon
      <4>1. now < o[1][1]
        BY <3>1, <3>2, <3>3
      <4>2. o[1] \in ttl
        BY <4>1, Zenon DEF TtlInv
      <4> QED
        BY <3>1, <3>2, <3>3, <4>2
    <3>6. ASSUME NEW w \in Workers, pc[w] = "expire", now + 1 < ExpDate(cert[w])
          PROVE  cert[w] \in serials'[Key(cert[w])]
      BY <3>1, <3>4, <3>6 DEF TtlInv, Known
    <3>7. ASSUME NEW k \in Keys, serials'[k] # {}, now + 1 < k[1], k \notin ttl'
          PROVE  \E w \in Workers : pc[w] = "expire" /\ Key(cert[w]) = k
      BY <3>1, <3>2, <3>7, SMTT(30) DEF TtlInv
    <3> QED
      BY <3>1, <3>5, <3>6, <3>7, ZenonT(30) DEF TtlInv, Known, Key, ExpDate
  <2>3. CASE UNCHANGED dbVars
    BY <2>3 DEF dbVars, redis, memory, locals, TtlInv, Known, Key, ExpDate
  <2> QED
    BY <2>1, <2>2, <2>3, StepTtl DEF Next
<1>3. TtlInv => TtlAtRest
  BY Zenon DEF TtlInv, TtlAtRest, AtRest, StorePcs
<1> QED
  BY <1>1, <1>2, <1>3, StoreTypesHold, PTL DEF Spec

-----------------------------------------------------------------------------
(* What a worker has still to bring into Redis of a certificate it found   *)
(* to be unknown.                                                          *)
Fresh(w) ==
  \/ pc[w] = "expire" /\ unknown[w]
  \/ pc[w] \in {"metadata", "newIm", "accumulate"}

Owes(w, i, u) ==
  /\ cert[w] \in Certs /\ Issuer[cert[w]] = i
  /\ \/ Fresh(w) /\ u \in Range(Dps[cert[w]])
     \/ pc[w] \in {"dps", "addCRL"} /\ \E k \in 1..Len(todo[w]) : todo[w][k] = u

Adds(w, i, u) ==
  cert[w] \in Certs /\ Issuer[cert[w]] = i /\ pc[w] = "addCRL" /\ todo[w][1] = u

OwesDn(w, i, n) ==
  /\ cert[w] \in Certs /\ Issuer[cert[w]] = i /\ Dn[cert[w]] = n
  /\ Fresh(w) \/ (pc[w] \in {"dps", "addCRL"} /\ ~seenDn[w]) \/ pc[w] = "addDN"

AddsDn(w, i, n) ==
  cert[w] \in Certs /\ Issuer[cert[w]] = i /\ pc[w] = "addDN" /\ Dn[cert[w]] = n

(* A distribution point of an issuer that is marked in memory, or belongs  *)
(* to a known serial, is in Redis or owed by a worker; so is a DN.         *)
CoherentDp(i, u) ==
  /\ (\E v \in Workers : u \in knownDPs[<<i, v>>]) =>
       u \in crls[i] \/ \E w \in Workers : Adds(w, i, u)
  /\ (\E c \in Certs : Known(c) /\ Issuer[c] = i /\ u \in Range(Dps[c])) =>
       u \in crls[i] \/ \E w \in Workers : Owes(w, i, u)

CoherentDn(i, n) ==
  /\ (\E v \in Workers : n \in knownDNs[<<i, v>>]) =>
       n \in issuerDNs[i] \/ \E w \in Workers : AddsDn(w, i, n)
  /\ (\E c \in Certs : Known(c) /\ Issuer[c] = i /\ Dn[c] = n) =>
       n \in issuerDNs[i] \/ \E w \in Workers : OwesDn(w, i, n)

(* A step of one worker leaves the others where they are.                  *)
LEMMA Others ==
  ASSUME StoreTypes, NEW w \in Workers, NEW v \in Workers \ {w},
         StoreStep(w) \/ StoreFails(w) \/ \E c \in Certs : StoreCalled(w, c)
  PROVE  /\ pc'[v] = pc[v] /\ cert'[v] = cert[v] /\ todo'[v] = todo[v]
         /\ unknown'[v] = unknown[v] /\ seenDn'[v] = seenDn[v]
<1> DEFINE Kept == /\ pc'[v] = pc[v] /\ cert'[v] = cert[v] /\ todo'[v] = todo[v]
                   /\ unknown'[v] = unknown[v] /\ seenDn'[v] = seenDn[v]
<1>1. /\ pc \in [Workers -> StorePcs \cup {"new", "idle", "gone"}]
      /\ cert \in [Workers -> Certs \cup {Nobody}] /\ todo \in [Workers -> Seq(Urls)]
      /\ unknown \in [Workers -> BOOLEAN] /\ seenDn \in [Workers -> BOOLEAN]
  BY DEF StoreTypes, DbTypeOK
<1>2. Return(w) => Kept
  BY <1>1 DEF Return, Goto
<1>3. \A p : Continue(w, p) => Kept
  BY <1>1 DEF Continue, Goto, locals
<1>4. CASE StoreStep(w)
  <2>1. CASE LookupKnown(w) \/ NewKnown(w) \/ InsertSerial(w)
    BY <1>1, <2>1 DEF LookupKnown, NewKnown, InsertSerial, Goto
  <2>2. CASE LookupMetadata(w) \/ NewMetadata(w) \/ ReadSeen(w)
    BY <1>1, <2>2, Zenon DEF LookupMetadata, NewMetadata, ReadSeen, Goto
  <2>3. CASE SkipDp(w) \/ MarkDp(w) \/ AddCRL(w)
    BY <1>1, <2>3 DEF SkipDp, MarkDp, AddCRL, Goto, locals
  <2>4. CASE SetExpiry(w)
    BY <1>2, <1>3, <2>4, SetExpiryCases, Zenon
  <2>5. CASE DpsDone(w)
    BY <1>2, <1>3, <2>5, DpsDoneCases, Zenon
  <2>6. CASE AddDN(w)
    BY <1>2, <2>6, Zenon DEF AddDN
  <2> QED
    BY <1>4, <2>1, <2>2, <2>3, <2>4, <2>5, <2>6, Zenon DEF StoreStep
<1>5. CASE StoreFails(w)
  BY <1>2, <1>5, Zenon DEF StoreFails, InsertSerialFails, AddCRLFails, AddDNFails
<1>6. ASSUME NEW c \in Certs, StoreCalled(w, c) PROVE Kept
  BY <1>1, <1>6 DEF StoreCalled, Goto
<1> QED
  BY <1>4, <1>5, <1>6, Zenon

LEMMA OthersOwe ==
  ASSUME StoreTypes, NEW w \in Workers, NEW v \in Workers \ {w}, NEW i, NEW x,
         StoreStep(w) \/ StoreFails(w) \/ \E c \in Certs : StoreCalled(w, c)
  PROVE  /\ Owes(v, i, x)' <=> Owes(v, i, x)
         /\ Adds(v, i, x)' <=> Adds(v, i, x)
         /\ OwesDn(v, i, x)' <=> OwesDn(v, i, x)
         /\ AddsDn(v, i, x)' <=> AddsDn(v, i, x)
BY Others, Zenon DEF Owes, Adds, OwesDn, AddsDn, Fresh

(* Only WasUnknown makes a serial known, and answers that it was unknown.  *)
LEMMA NewlyKnown ==
  ASSUME StoreTypes, NEW w \in Workers, StoreStep(w),
         NEW c \in Certs, Known(c)', ~Known(c)
  PROVE  /\ cert[w] = c /\ cert' = cert
         /\ pc'[w] = "expire" /\ unknown'[w] = TRUE
<1>1. InsertSerial(w) /\ cert[w] = c
  <2>1. CASE InsertSerial(w)
    BY <2>1, CertFacts, Zenon DEF InsertSerial, Known, StoreTypes, DbTypeOK, StorePcs
  <2>2. CASE SetExpiry(w)
    <3>1. cert[w] \in Certs /\ Key(cert[w]) \in Keys
      BY <2>2, CertFacts, Zenon DEF SetExpiry, StoreTypes, StorePcs
    <3>2. serials' = serials \/ serials' = [serials EXCEPT ![Key(cert[w])] = {}]
      BY <2>2, SetExpiryCases, ExpireAtCases, Zenon
    <3>3. serials \in [Keys -> SUBSET Certs]
      BY ZenonT(30) DEF StoreTypes, DbTypeOK
    <3>4. serials'[Key(c)] \subseteq serials[Key(c)]
      BY <3>1, <3>2, <3>3, CertFacts, Zenon
    <3> QED
      BY <3>4, Zenon DEF Known
  <2>3. CASE UNCHANGED serials
    BY <2>3, Zenon DEF Known
  <2> QED
    BY <2>1, <2>2, <2>3, Zenon DEF StoreStep, LookupKnown, NewKnown, LookupMetadata,
       NewMetadata, ReadSeen, SkipDp, MarkDp, AddCRL, DpsDone, AddDN, redis
<1>2. /\ pc \in [Workers -> StorePcs \cup {"new", "idle", "gone"}]
      /\ unknown \in [Workers -> BOOLEAN]
  BY Zenon DEF StoreTypes, DbTypeOK
<1>3. /\ pc' = [pc EXCEPT ![w] = "expire"] /\ cert' = cert
      /\ unknown' = [unknown EXCEPT ![w] = ~Known(cert[w])]
  BY <1>1 DEF InsertSerial, Goto
<1>4. pc'[w] = "expire"
  BY <1>2, <1>3
<1>5. unknown'[w] = ~Known(cert[w])
  BY <1>2, <1>3, ZenonT(30)
<1> QED
  BY <1>1, <1>3, <1>4, <1>5, Zenon

(* A step of Store loses no distribution point: what it no longer owes is  *)
(* in Redis, or another worker is about to insert it.                      *)
LEMMA StepKeepsDp ==
  ASSUME StoreTypes, NEW w \in Workers, StoreStep(w),
         NEW i \in Issuers, NEW u \in WebDps, CoherentDp(i, u)
  PROVE  CoherentDp(i, u)'
<1>1. u \in crls[i] => u \in crls'[i]
  <2>1. CASE AddCRL(w)
    BY <2>1, CertFacts, Zenon DEF AddCRL, StoreTypes, DbTypeOK, StorePcs
  <2>2. CASE ~AddCRL(w)
    BY <2>2, Zenon DEF StoreStep, LookupKnown, NewKnown, InsertSerial, SetExpiry,
       LookupMetadata, NewMetadata, ReadSeen, SkipDp, MarkDp, DpsDone, AddDN, redis
  <2> QED
    BY <2>1, <2>2
<1>2. ASSUME AddCRL(w), Adds(w, i, u) PROVE u \in crls'[i]
  <2>1. crls \in [Issuers -> SUBSET Urls] /\ todo[w] \in Seq(Urls) /\ todo[w] # <<>>
    BY <1>2, Zenon DEF Adds, StoreTypes, DbTypeOK
  <2>2. Head(todo[w]) = u /\ Issuer[cert[w]] = i
    <3>1. todo[w][1] = u /\ Issuer[cert[w]] = i
      BY <1>2, Zenon DEF Adds
    <3> QED
      BY <2>1, <3>1
  <2>3. crls' = [crls EXCEPT ![i] = crls[i] \cup ({u} \cap WebDps)]
    BY <1>2, <2>2, ZenonT(30) DEF AddCRL
  <2> QED
    BY <2>1, <2>3
<1>3. ASSUME NEW v \in Workers, Adds(v, i, u)
      PROVE  u \in crls'[i] \/ Adds(v, i, u)'
  <2>1. CASE v # w
    BY <1>3, <2>1, OthersOwe, Zenon
  <2>2. CASE v = w
    <3>1. pc[w] = "addCRL"
      BY <1>3, <2>2 DEF Adds
    <3>2. AddCRL(w)
      BY <3>1, Zenon DEF StoreStep, LookupKnown, NewKnown, InsertSerial, SetExpiry,
         LookupMetadata, NewMetadata, ReadSeen, SkipDp, MarkDp, DpsDone, AddDN
    <3> QED
      BY <1>2, <1>3, <2>2, <3>2, Zenon
  <2> QED
    BY <2>1, <2>2
<1>4. ASSUME Owes(w, i, u) PROVE u \in crls'[i] \/ \E v \in Workers : Owes(v, i, u)'
  <2>1. cert[w] \in Certs /\ Issuer[cert[w]] = i
    BY <1>4 DEF Owes
  <2>2. CASE Fresh(w)
    <3>1. u \in Range(Dps[cert[w]])
      BY <1>4, <2>2, Zenon DEF Owes, Fresh
    <3>2. CASE SetExpiry(w)
      BY <2>1, <2>2, <3>1, <3>2, SetExpiryCases, Zenon
         DEF SetExpiry, Fresh, Continue, Goto, locals, Owes, StoreTypes
    <3>3. CASE LookupMetadata(w) \/ NewMetadata(w)
      BY <2>1, <3>1, <3>3, ZenonT(30) DEF LookupMetadata, NewMetadata, Goto, Owes, Fresh, StoreTypes
    <3>4. CASE ReadSeen(w)
      <4>a. /\ pc' = [pc EXCEPT ![w] = "dps"] /\ cert' = cert
            /\ todo' = [todo EXCEPT ![w] = Dps[cert[w]]]
        BY <3>4, Zenon DEF ReadSeen, Goto
      <4>b. w \in DOMAIN pc /\ w \in DOMAIN todo
        BY Zenon DEF StoreTypes
      <4>1. /\ pc'[w] = "dps" /\ cert' = cert
            /\ todo'[w] = Dps[cert[w]]
        BY <4>a, <4>b, Zenon
      <4>2. \E k \in 1..Len(Dps[cert[w]]) : Dps[cert[w]][k] = u
        <5>1. PICK s : s = Dps[cert[w]]
          BY Zenon
        <5>2. s \in Seq(Urls) /\ u \in Range(s)
          BY <2>1, <3>1, <5>1, CertFacts, Zenon
        <5>3. DOMAIN s = 1..Len(s)
          BY <5>2
        <5>4. \E k \in 1..Len(s) : s[k] = u
          BY <5>2, <5>3, Zenon DEF Range
        <5> QED
          BY <5>1, <5>4, Zenon
      <4> QED
        BY <2>1, <4>1, <4>2, Zenon DEF Owes
    <3> QED
      BY <2>2, <3>2, <3>3, <3>4, Zenon DEF Fresh, StoreStep, LookupKnown, NewKnown, InsertSerial,
         SkipDp, MarkDp, AddCRL, DpsDone, AddDN
  <2>3. CASE pc[w] \in {"dps", "addCRL"}
    <3>1. PICK k \in 1..Len(todo[w]) : todo[w][k] = u
      BY <1>4, <2>3, Zenon DEF Owes, Fresh
    <3>2. todo[w] \in Seq(Urls) /\ todo[w] # <<>> /\ Head(todo[w]) = todo[w][1]
      BY <3>1 DEF StoreTypes
    <3>3. k # 1 => \E j \in 1..Len(Tail(todo[w])) : Tail(todo[w])[j] = u
      <4> SUFFICES ASSUME k # 1 PROVE \E j \in 1..Len(Tail(todo[w])) : Tail(todo[w])[j] = u
        OBVIOUS
      <4>1. k - 1 \in 1..Len(Tail(todo[w])) /\ Tail(todo[w])[k - 1] = todo[w][k]
        BY <3>1, <3>2
      <4> QED
        BY <3>1, <4>1, Zenon
    <3>4. CASE SkipDp(w)
      <4>1. pc'[w] = "dps" /\ cert' = cert /\ todo'[w] = Tail(todo[w])
        BY <2>3, <3>4 DEF SkipDp, StoreTypes
      <4>2. CASE k # 1
        BY <2>1, <3>3, <4>1, <4>2, Zenon DEF Owes
      <4>3. CASE k = 1
        <5>1. im[w] \in Workers /\ u \in knownDPs[<<i, im[w]>>]
          BY <2>1, <3>1, <3>2, <3>4, <4>3, Zenon DEF SkipDp, ImOf, StoreTypes
        <5>2. CASE u \in crls[i]
          BY <1>1, <5>2
        <5>3. ASSUME NEW v \in Workers, Adds(v, i, u)
              PROVE  Owes(v, i, u)'
          <6>1. v # w
            BY <3>4, <5>3, Zenon DEF SkipDp, Adds
          <6>2. todo[v] \in Seq(Urls) /\ todo[v] # <<>>
            BY <5>3, Zenon DEF Adds, StoreTypes
          <6>3. 1 \in 1..Len(todo[v])
            BY <6>2
          <6>4. Owes(v, i, u)
            BY <5>3, <6>3, ZenonT(30) DEF Adds, Owes
          <6> QED
            BY <6>1, <6>4, OthersOwe
        <5> QED
          BY <5>1, <5>2, <5>3, Zenon DEF CoherentDp
      <4> QED
        BY <4>2, <4>3, Zenon
    <3>5. CASE MarkDp(w)
      BY <2>1, <3>1, <3>5, Zenon DEF MarkDp, Goto, locals, Owes, StoreTypes
    <3>6. CASE AddCRL(w)
      <4>1. pc'[w] = "dps" /\ cert' = cert /\ todo'[w] = Tail(todo[w])
        BY <3>6, Zenon DEF AddCRL, Goto, StoreTypes
      <4>2. CASE k # 1
        BY <2>1, <3>3, <4>1, <4>2, Zenon DEF Owes
      <4>3. CASE k = 1
        BY <1>2, <2>1, <3>1, <3>6, <4>3, Zenon DEF Adds, AddCRL
      <4> QED
        BY <4>2, <4>3
    <3>7. ~DpsDone(w)
      BY <3>2, Zenon DEF DpsDone
    <3> QED
      BY <2>3, <3>4, <3>5, <3>6, <3>7, Zenon DEF StoreStep, LookupKnown, NewKnown, InsertSerial,
         SetExpiry, LookupMetadata, NewMetadata, ReadSeen, AddDN
  <2> QED
    BY <1>4, <2>2, <2>3, Zenon DEF Owes
<1>5. ASSUME NEW v \in Workers, u \in knownDPs'[<<i, v>>]
      PROVE  u \in knownDPs[<<i, v>>] \/ Adds(w, i, u)'
  <2>1. CASE MarkDp(w)
    <3>1. cert[w] \in Certs /\ todo[w] \in Seq(Urls) /\ todo[w] # <<>>
      BY <2>1, Zenon DEF MarkDp, StoreTypes, StorePcs
    <3>2. cert' = cert /\ todo' = todo /\ pc'[w] = "addCRL"
      BY <2>1, Zenon DEF MarkDp, Goto, locals, StoreTypes
    <3>3. knownDPs' = [knownDPs EXCEPT ![ImOf(w)] = @ \cup Marked(w)]
      BY <2>1, Zenon DEF MarkDp
    <3>4. knownDPs \in [Issuers \X Workers -> SUBSET Urls] /\ <<i, v>> \in Issuers \X Workers
      BY SMTT(30) DEF StoreTypes, DbTypeOK
    <3>5. CASE u \notin knownDPs[<<i, v>>]
      <4>1. <<i, v>> = ImOf(w) /\ u \in Marked(w)
        BY <1>5, <3>3, <3>4, <3>5
      <4> QED
        <5>1. Head(todo[w]) = todo[w][1]
          BY <3>1
        <5>2. Issuer[cert[w]] = i /\ Head(todo[w]) = u
          BY <4>1 DEF ImOf, Marked
        <5> QED
          BY <3>1, <3>2, <5>1, <5>2, Zenon DEF Adds
    <3> QED
      BY <3>5
  <2>2. CASE ~MarkDp(w)
    BY <1>5, <2>2, Zenon DEF StoreStep, LookupKnown, NewKnown, InsertSerial, SetExpiry,
       LookupMetadata, NewMetadata, ReadSeen, SkipDp, AddCRL, DpsDone, AddDN, memory
  <2> QED
    BY <2>1, <2>2, ZenonT(30)
<1>6. ASSUME NEW c \in Certs, Known(c)', ~Known(c), Issuer[c] = i, u \in Range(Dps[c])
      PROVE  Owes(w, i, u)'
  <2>1. cert'[w] = c /\ pc'[w] = "expire" /\ unknown'[w]
    BY <1>6, NewlyKnown, Zenon
  <2> QED
    BY <1>6, <2>1, Zenon DEF Owes, Fresh
<1>7. ASSUME NEW v \in Workers, Owes(v, i, u)
      PROVE  u \in crls'[i] \/ \E x \in Workers : Owes(x, i, u)'
  BY <1>4, <1>7, OthersOwe, Zenon
<1> QED
  BY <1>1, <1>3, <1>5, <1>6, <1>7, Zenon DEF CoherentDp

(* Nor does it lose a DN.                                                  *)
LEMMA StepKeepsDn ==
  ASSUME StoreTypes, NEW w \in Workers, StoreStep(w),
         NEW i \in Issuers, NEW n, CoherentDn(i, n)
  PROVE  CoherentDn(i, n)'
<1>1. n \in issuerDNs[i] => n \in issuerDNs'[i]
  <2>1. CASE AddDN(w)
    BY <2>1, CertFacts, Zenon DEF AddDN, StoreTypes, DbTypeOK, StorePcs
  <2>2. CASE ~AddDN(w)
    BY <2>2, Zenon DEF StoreStep, LookupKnown, NewKnown, InsertSerial, SetExpiry,
       LookupMetadata, NewMetadata, ReadSeen, SkipDp, MarkDp, AddCRL, DpsDone, redis
  <2> QED
    BY <2>1, <2>2
<1>2. ASSUME pc[w] = "addDN", cert[w] \in Certs, Issuer[cert[w]] = i, Dn[cert[w]] = n
      PROVE  n \in issuerDNs'[i]
  <2>1. AddDN(w)
    BY <1>2, Zenon DEF StoreStep, LookupKnown, NewKnown, InsertSerial, SetExpiry,
       LookupMetadata, NewMetadata, ReadSeen, SkipDp, MarkDp, AddCRL, DpsDone
  <2> QED
    BY <1>2, <2>1, Zenon DEF AddDN, StoreTypes, DbTypeOK
<1>3. ASSUME NEW v \in Workers, AddsDn(v, i, n)
      PROVE  n \in issuerDNs'[i] \/ AddsDn(v, i, n)'
  <2>1. CASE v = w
    BY <1>2, <1>3, <2>1 DEF AddsDn
  <2>2. CASE v # w
    BY <1>3, <2>2, OthersOwe, Zenon
  <2> QED
    BY <2>1, <2>2, Zenon
<1>4. ASSUME OwesDn(w, i, n) PROVE n \in issuerDNs'[i] \/ \E v \in Workers : OwesDn(v, i, n)'
  <2>1. cert[w] \in Certs /\ Issuer[cert[w]] = i /\ Dn[cert[w]] = n
    BY <1>4 DEF OwesDn
  <2>2. CASE Fresh(w)
    <3>1. CASE SetExpiry(w)
      BY <2>1, <2>2, <3>1, SetExpiryCases, Zenon
         DEF SetExpiry, Fresh, Continue, Goto, locals, OwesDn, StoreTypes
    <3>2. CASE LookupMetadata(w) \/ NewMetadata(w)
      BY <2>1, <3>2, Zenon DEF LookupMetadata, NewMetadata, Goto, OwesDn, Fresh, StoreTypes
    <3>3. CASE ReadSeen(w)
      <4>1. pc'[w] = "dps" /\ cert' = cert
        BY <3>3 DEF ReadSeen, Goto, StoreTypes
      <4>2. seenDn'[w] = (n \in knownDNs[<<i, im[w]>>])
        BY <2>1, <3>3, Zenon DEF ReadSeen, ImOf, StoreTypes, DbTypeOK
      <4>3. CASE n \notin knownDNs[<<i, im[w]>>]
        BY <2>1, <4>1, <4>2, <4>3, ZenonT(30) DEF OwesDn
      <4>4. CASE n \in knownDNs[<<i, im[w]>>]
        <5>1. im[w] \in Workers
          BY <3>3, Zenon DEF ReadSeen, StoreTypes
        <5>2. CASE n \in issuerDNs[i]
          BY <1>1, <5>2
        <5>3. ASSUME NEW v \in Workers, AddsDn(v, i, n) PROVE OwesDn(v, i, n)'
          <6>1. v # w
            BY <3>3, <5>3, ZenonT(30) DEF ReadSeen, AddsDn
          <6>2. OwesDn(v, i, n)
            BY <5>3 DEF AddsDn, OwesDn
          <6> QED
            BY <6>1, <6>2, OthersOwe, Zenon
        <5> QED
          BY <4>4, <5>1, <5>2, <5>3, Zenon DEF CoherentDn
      <4> QED
        BY <4>3, <4>4, Zenon
    <3> QED
      BY <2>2, <3>1, <3>2, <3>3, Zenon DEF Fresh, StoreStep, LookupKnown, NewKnown, InsertSerial,
         SkipDp, MarkDp, AddCRL, DpsDone, AddDN
  <2>3. CASE pc[w] \in {"dps", "addCRL"} /\ ~seenDn[w]
    <3>1. CASE SkipDp(w) \/ MarkDp(w) \/ AddCRL(w)
      <4>1. pc'[w] \in {"dps", "addCRL"} /\ cert' = cert /\ seenDn' = seenDn
        BY <3>1, Zenon DEF SkipDp, MarkDp, AddCRL, Goto, locals, StoreTypes
      <4> QED
        BY <2>1, <2>3, <4>1, ZenonT(30) DEF OwesDn
    <3>2. CASE DpsDone(w)
      <4>1. Continue(w, "addDN")
        BY <2>3, <3>2, DpsDoneCases, Zenon
      <4> QED
        BY <2>1, <4>1, Zenon DEF Continue, Goto, locals, OwesDn, StoreTypes
    <3> QED
      BY <2>3, <3>1, <3>2, Zenon DEF StoreStep, LookupKnown, NewKnown, InsertSerial,
         SetExpiry, LookupMetadata, NewMetadata, ReadSeen, AddDN
  <2>4. CASE pc[w] = "addDN"
    BY <1>2, <2>1, <2>4, Zenon
  <2> QED
    BY <1>4, <2>2, <2>3, <2>4, Zenon DEF OwesDn
<1>5. ASSUME NEW v \in Workers, n \in knownDNs'[<<i, v>>]
      PROVE  n \in knownDNs[<<i, v>>] \/ AddsDn(w, i, n)'
  <2>1. knownDNs \in [Issuers \X Workers -> SUBSET DNs] /\ <<i, v>> \in Issuers \X Workers
    BY DEF StoreTypes, DbTypeOK
  <2>2. CASE DpsDone(w) /\ ~UNCHANGED knownDNs
    <3>1. cert[w] \in Certs
      BY <2>2, Zenon DEF DpsDone, StoreTypes, StorePcs
    <3>2. /\ knownDNs' = [knownDNs EXCEPT ![ImOf(w)] = @ \cup {Dn[cert[w]]}]
          /\ Continue(w, "addDN")
      BY <2>2, DpsDoneCases, Zenon
    <3>3. cert' = cert /\ pc'[w] = "addDN"
      BY <3>2, Zenon DEF Continue, Goto, locals, StoreTypes
    <3>4. CASE n \notin knownDNs[<<i, v>>]
      <4>1. <<i, v>> = ImOf(w) /\ n = Dn[cert[w]]
        BY <1>5, <2>1, <3>2, <3>4, Zenon
      <4> QED
        BY <3>1, <3>3, <4>1, Zenon DEF ImOf, AddsDn
    <3> QED
      BY <3>4, Zenon
  <2>3. CASE UNCHANGED knownDNs
    BY <1>5, <2>3, Zenon
  <2> QED
    BY <2>2, <2>3, Zenon DEF StoreStep, LookupKnown, NewKnown, InsertSerial, SetExpiry,
       LookupMetadata, NewMetadata, ReadSeen, SkipDp, MarkDp, AddCRL, AddDN, memory
<1>6. ASSUME NEW c \in Certs, Known(c)', ~Known(c), Issuer[c] = i, Dn[c] = n
      PROVE  OwesDn(w, i, n)'
  <2>1. cert'[w] = c /\ pc'[w] = "expire" /\ unknown'[w]
    BY <1>6, NewlyKnown, Zenon
  <2> QED
    BY <1>6, <2>1, Zenon DEF OwesDn, Fresh
<1>7. ASSUME NEW v \in Workers, OwesDn(v, i, n)
      PROVE  n \in issuerDNs'[i] \/ \E x \in Workers : OwesDn(x, i, n)'
  BY <1>4, <1>7, OthersOwe, Zenon
<1> QED
  BY <1>1, <1>3, <1>5, <1>6, <1>7, Zenon DEF CoherentDn

(* The call of Store, and the passing of time, owe nothing new.            *)
LEMMA CalledKeepsCoherent ==
  ASSUME StoreTypes, NEW w \in Workers, NEW c \in Certs, StoreCalled(w, c), NEW i, NEW x
  PROVE  /\ CoherentDp(i, x) => CoherentDp(i, x)'
         /\ CoherentDn(i, x) => CoherentDn(i, x)'
<1>1. pc[w] = "idle" /\ UNCHANGED <<redis, memory>>
  BY DEF StoreCalled
<1>2. /\ ~Owes(w, i, x) /\ ~Adds(w, i, x) /\ ~OwesDn(w, i, x) /\ ~AddsDn(w, i, x)
  BY <1>1, Zenon DEF Owes, Adds, OwesDn, AddsDn, Fresh
<1>3. \A v \in Workers : /\ Owes(v, i, x) => Owes(v, i, x)'
                         /\ Adds(v, i, x) => Adds(v, i, x)'
                         /\ OwesDn(v, i, x) => OwesDn(v, i, x)'
                         /\ AddsDn(v, i, x) => AddsDn(v, i, x)'
  BY <1>2, OthersOwe
<1> QED
  BY <1>1, <1>3, Zenon DEF CoherentDp, CoherentDn, redis, memory, Known

LEMMA TickKeepsCoherent ==
  ASSUME StoreTypes, Tick, NEW i, NEW x
  PROVE  /\ CoherentDp(i, x) => CoherentDp(i, x)'
         /\ CoherentDn(i, x) => CoherentDn(i, x)'
<1>1. \A c \in Certs : Known(c)' => Known(c)
  BY CertFacts, Zenon DEF Tick, Known, StoreTypes, DbTypeOK
<1>2. UNCHANGED <<crls, issuerDNs, memory, pc, locals>>
  BY Zenon DEF Tick
<1> QED
  BY <1>1, <1>2, ZenonT(30) DEF CoherentDp, CoherentDn, memory, locals, Owes, Adds, OwesDn, AddsDn, Fresh

(* Store that returns an error loses at most what its certificate has.     *)
LEMMA FailsKeepsCoherent ==
  ASSUME StoreTypes, NEW w \in Workers, StoreFails(w), NEW i, NEW x
  PROVE  /\ CoherentDp(i, x) =>
              CoherentDp(i, x)' \/ (Issuer[cert[w]] = i /\ x \in Range(Dps[cert[w]]))
         /\ CoherentDn(i, x) =>
              CoherentDn(i, x)' \/ (Issuer[cert[w]] = i /\ x = Dn[cert[w]])
<1>1. pc[w] \in StorePcs /\ cert[w] \in Certs
  BY SMTT(20) DEF StoreFails, InsertSerialFails, AddCRLFails, AddDNFails, StoreTypes, StorePcs
<1>2. UNCHANGED <<crls, issuerDNs, memory>>
  BY ZenonT(30) DEF StoreFails, InsertSerialFails, AddCRLFails, AddDNFails, redis
<1>3. \A c \in Certs \ {cert[w]} : Known(c)' => Known(c)
  <2>1. CASE InsertSerialFails(w)
    <3>1. PICK S \in SaddFailed(w) : serials' = [serials EXCEPT ![Key(cert[w])] = S]
      BY <2>1, Zenon DEF InsertSerialFails
    <3>2. \A c \in Certs \ {cert[w]} : c \in S => c \in serials[Key(cert[w])]
      BY Zenon DEF SaddFailed
    <3>3. serials \in [Keys -> SUBSET Certs]
      BY DEF StoreTypes, DbTypeOK
    <3> QED
      BY <3>1, <3>2, <3>3, CertFacts DEF Known
  <2>2. CASE UNCHANGED serials
    BY <2>2, Zenon DEF Known
  <2> QED
    BY <2>1, <2>2, ZenonT(30) DEF StoreFails, AddCRLFails, AddDNFails, redis
<1>4. \A v \in Workers \ {w} : /\ Owes(v, i, x) => Owes(v, i, x)'
                               /\ Adds(v, i, x) => Adds(v, i, x)'
                               /\ OwesDn(v, i, x) => OwesDn(v, i, x)'
                               /\ AddsDn(v, i, x) => AddsDn(v, i, x)'
  BY OthersOwe
<1>5. ASSUME ~(Issuer[cert[w]] = i /\ x \in Range(Dps[cert[w]])), CoherentDp(i, x)
      PROVE  CoherentDp(i, x)'
  <2>1. ~Owes(w, i, x)
    BY <1>5, Zenon DEF Owes, StoreTypes
  <2>2. ~Adds(w, i, x)
    <3> SUFFICES ASSUME Adds(w, i, x) PROVE FALSE
      OBVIOUS
    <3>1. todo[w] \in Seq(Urls) /\ todo[w] # <<>>
      BY Zenon DEF Adds, StoreTypes
    <3>2. 1 \in 1..Len(todo[w])
      BY <3>1
    <3> QED
      BY <1>5, <3>2, Zenon DEF Adds, StoreTypes
  <2> QED
    BY <1>2, <1>3, <1>4, <1>5, <2>1, <2>2, Zenon DEF CoherentDp, memory
<1>6. ASSUME ~(Issuer[cert[w]] = i /\ x = Dn[cert[w]]), CoherentDn(i, x)
      PROVE  CoherentDn(i, x)'
  <2>1. ~OwesDn(w, i, x) /\ ~AddsDn(w, i, x)
    BY <1>6, Zenon DEF OwesDn, AddsDn
  <2> QED
    BY <1>2, <1>3, <1>4, <1>6, <2>1, Zenon DEF CoherentDn, memory
<1> QED
  BY <1>5, <1>6, Zenon

LEMMA StillCoherent ==
  ASSUME UNCHANGED <<redis, memory, pc, locals>>, NEW i, NEW x
  PROVE  /\ CoherentDp(i, x) => CoherentDp(i, x)'
         /\ CoherentDn(i, x) => CoherentDn(i, x)'
<1>1. \A c \in Certs : Known(c)' <=> Known(c)
  BY DEF redis, Known
<1>2. \A v \in Workers : /\ Owes(v, i, x)' <=> Owes(v, i, x)
                         /\ Adds(v, i, x)' <=> Adds(v, i, x)
                         /\ OwesDn(v, i, x)' <=> OwesDn(v, i, x)
                         /\ AddsDn(v, i, x)' <=> AddsDn(v, i, x)
  BY Zenon DEF locals, Owes, Adds, OwesDn, AddsDn, Fresh
<1> QED
  BY <1>1, <1>2, Zenon DEF CoherentDp, CoherentDn, redis, memory

(* At rest nothing is owed.                                                *)
LEMMA RestOwesNothing ==
  ASSUME AtRest, NEW c \in Certs, Known(c),
         \A u \in Range(Dps[c]) \cap WebDps : CoherentDp(Issuer[c], u),
         CoherentDn(Issuer[c], Dn[c])
  PROVE  Accounted(c)
<1>1. \A w \in Workers : \A x : ~Owes(w, Issuer[c], x) /\ ~OwesDn(w, Issuer[c], x)
  BY Zenon DEF AtRest, StorePcs, Owes, OwesDn, Fresh
<1> QED
  BY <1>1, Zenon DEF Accounted, CoherentDp, CoherentDn

Coherent ==
  \A i \in Issuers : /\ \A u \in WebDps : CoherentDp(i, u)
                     /\ \A n \in DNs : CoherentDn(i, n)

(* The database with a Redis that answers: whenever no Store is running,   *)
(* the distribution points and the DN of every serial that is known are in *)
(* Redis, for any number of workers, certificates and URLs.                *)
THEOREM CoherentHolds == Spec => []CoherentAtRest
<1>1. Init => Coherent
  <2> SUFFICES ASSUME Init PROVE Coherent
    OBVIOUS
  <2>1. \A c \in Certs : ~Known(c)
    BY CertFacts, Zenon DEF Init, DbInit, RedisHolds, Known
  <2>2. \A i \in Issuers, v \in Workers : knownDPs[<<i, v>>] = {} /\ knownDNs[<<i, v>>] = {}
    BY DEF Init, DbInit, MemoryInit
  <2> QED
    BY <2>1, <2>2, Zenon DEF Coherent, CoherentDp, CoherentDn
<1>2. StoreTypes /\ Coherent /\ [Next]_dbVars => Coherent'
  <2> SUFFICES ASSUME StoreTypes, Coherent, [Next]_dbVars PROVE Coherent'
    OBVIOUS
  <2>1. ASSUME NEW w \in Workers, NEW c \in Certs, StoreCalled(w, c) PROVE Coherent'
    BY <2>1, CalledKeepsCoherent DEF Coherent
  <2>2. ASSUME NEW w \in Workers, StoreStep(w) PROVE Coherent'
    BY <2>2, StepKeepsDp, StepKeepsDn DEF Coherent
  <2>3. CASE Tick
    BY <2>3, TickKeepsCoherent DEF Coherent
  <2>4. CASE UNCHANGED dbVars
    BY <2>4, StillCoherent, Zenon DEF dbVars, Coherent
  <2> QED
    BY <2>1, <2>2, <2>3, <2>4 DEF Next
<1>3. Coherent => CoherentAtRest
  BY RestOwesNothing, CertFacts DEF Coherent, CoherentAtRest
<1> QED
  BY <1>1, <1>2, <1>3, StoreTypesHold, PTL DEF Spec
=============================================================================
