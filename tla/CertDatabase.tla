---------------------------- MODULE CertDatabase ----------------------------
(***************************************************************************)
(* The certificate database of the Go tools: FilesystemDatabase over a     *)
(* RemoteCache, with the NoopBackend that engine.go always configures, so  *)
(* that Redis is the only store.  Several goroutines of ct-fetch call      *)
(* Store at once.  A step of this module is one Redis command or one       *)
(* critical section of a mutex; everything else a Store does is local.     *)
(*                                                                         *)
(* Time is counted in ticks, Hour of them to the hour, because a           *)
(* certificate is filed under its NotAfter truncated to the hour.          *)
(***************************************************************************)
EXTENDS Integers, Sequences, Functions

CONSTANTS
  Workers,      \* the goroutines that call Store
  Certs,        \* the certificates, each standing for its serial number
  Issuer,       \* Certs -> the issuing certificate
  NotAfter,     \* Certs -> the tick its validity ends
  Dps,          \* Certs -> the sequence of its CRL distribution points
  WebDps,       \* the distribution points with an http or https scheme
  Dn,           \* Certs -> the issuer's distinguished name
  Nobody,       \* no object in an in-memory map
  Hour,         \* ticks to the hour
  MaxTime,      \* bound on the clock
  RedisFaults   \* whether a Redis command may fail

ASSUME DatabaseAssumption ==
  /\ Nobody \notin Workers \cup Certs
  /\ DOMAIN Issuer = Certs /\ DOMAIN Dn = Certs
  /\ \A c \in Certs : Dps[c] \in Seq(Range(Dps[c]))
  /\ NotAfter \in [Certs -> Nat]
  /\ Hour \in Nat \ {0}
  /\ MaxTime \in Nat
  /\ RedisFaults \in BOOLEAN

VARIABLES
  now,        \* the clock
  serials,    \* Redis: serials::<expDate>::<issuer> -> set of serials
  ttl,        \* Redis: the serials keys that carry an expiry
  crls,       \* Redis: crls::<issuer> -> set of URLs
  issuerDNs,  \* Redis: issuer::<issuer> -> set of DNs
  kcOf,       \* knownCertsCache: key -> creator of the cached object
  expirySet,  \* the KnownCertificates objects whose expirySet is true
  metaOf,     \* meta: issuer -> creator of the current IssuerMetadata
  knownDPs,   \* IssuerMetadata object -> knownCrlDPs
  knownDNs,   \* IssuerMetadata object -> knownIssuerDNs
  pc, cert,   \* each worker: where it is in Store, and with what
  kc, im,     \* the objects it holds, named by their creators
  unknown,    \* what WasUnknown is about to answer
  todo,       \* the distribution points Accumulate has left
  seenDn      \* seenIssuerDn of Accumulate

redis  == <<serials, ttl, crls, issuerDNs>>
memory == <<kcOf, expirySet, metaOf, knownDPs, knownDNs>>
locals == <<cert, kc, im, unknown, todo, seenDn>>
dbVars == <<now, redis, memory, pc, locals>>

Issuers == Range(Issuer)
Urls    == UNION {Range(Dps[c]) : c \in Certs}
DNs     == Range(Dn)

(* NewExpDateFromTime truncates NotAfter to the hour; ExpireTime is the    *)
(* start of that hour.                                                     *)
ExpDate(c) == NotAfter[c] - (NotAfter[c] % Hour)

(* The Redis key, and the key of the in-memory cache.                      *)
Key(c) == <<ExpDate(c), Issuer[c]>>

Keys == {Key(c) : c \in Certs}

Known(c) == c \in serials[Key(c)]

StorePcs ==
  {"lookup", "newKc", "insert", "expire", "metadata", "newIm", "accumulate",
   "dps", "addCRL", "addDN"}

(* An object in memory is named by its place in the map and the worker     *)
(* that created it.  A worker creates the object of a place at most once   *)
(* in the life of the process, since a place once filled stays filled.     *)
KcOf(w) == <<Key(cert[w]), kc[w]>>
ImOf(w) == <<Issuer[cert[w]], im[w]>>

(* Redis after certificates have been stored.                              *)
RedisHolds(stored) ==
  /\ serials = [k \in Keys |-> {c \in stored : Key(c) = k}]
  /\ ttl = {Key(c) : c \in stored}
  /\ crls = [i \in Issuers |->
               UNION {Range(Dps[c]) \cap WebDps : c \in {d \in stored : Issuer[d] = i}}]
  /\ issuerDNs = [i \in Issuers |-> {Dn[c] : c \in {d \in stored : Issuer[d] = i}}]

(* NewFilesystemDatabase: a process begins with nothing in memory.         *)
MemoryInit ==
  /\ kcOf = [k \in Keys |-> Nobody]
  /\ expirySet = {}
  /\ metaOf = [i \in Issuers |-> Nobody]
  /\ knownDPs = [o \in Issuers \X Workers |-> {}]
  /\ knownDNs = [o \in Issuers \X Workers |-> {}]
  /\ cert = [w \in Workers |-> Nobody]
  /\ kc = [w \in Workers |-> Nobody]
  /\ im = [w \in Workers |-> Nobody]
  /\ unknown = [w \in Workers |-> FALSE]
  /\ todo = [w \in Workers |-> <<>>]
  /\ seenDn = [w \in Workers |-> FALSE]

DbInit == now = 0 /\ RedisHolds({}) /\ MemoryInit

Goto(w, where) == pc' = [pc EXCEPT ![w] = where]

(* Store returns, and its local variables are gone.                        *)
Return(w) ==
  /\ Goto(w, "idle")
  /\ cert' = [cert EXCEPT ![w] = Nobody]
  /\ kc' = [kc EXCEPT ![w] = Nobody]
  /\ im' = [im EXCEPT ![w] = Nobody]
  /\ unknown' = [unknown EXCEPT ![w] = FALSE]
  /\ todo' = [todo EXCEPT ![w] = <<>>]
  /\ seenDn' = [seenDn EXCEPT ![w] = FALSE]

Continue(w, where) == Goto(w, where) /\ UNCHANGED locals

(* Store is called with certificate c.                                     *)
StoreCalled(w, c) ==
  /\ pc[w] = "idle"
  /\ Goto(w, "lookup")
  /\ cert' = [cert EXCEPT ![w] = c]
  /\ UNCHANGED <<now, redis, memory, kc, im, unknown, todo, seenDn>>

(* GetKnownCertificates: look the object up ...                            *)
LookupKnown(w) ==
  /\ pc[w] = "lookup"
  /\ kc' = [kc EXCEPT ![w] = kcOf[Key(cert[w])]]
  /\ Goto(w, IF kc'[w] = Nobody THEN "newKc" ELSE "insert")
  /\ UNCHANGED <<now, redis, memory, cert, im, unknown, todo, seenDn>>

(* ... and create it when absent, not knowing what others did meanwhile.   *)
NewKnown(w) ==
  /\ pc[w] = "newKc"
  /\ kcOf' = [kcOf EXCEPT ![Key(cert[w])] = w]
  /\ kc' = [kc EXCEPT ![w] = w]
  /\ Goto(w, "insert")
  /\ UNCHANGED <<now, redis, expirySet, metaOf, knownDPs, knownDNs, cert, im,
                 unknown, todo, seenDn>>

(* WasUnknown: SADD of the serial.                                         *)
InsertSerial(w) ==
  /\ pc[w] = "insert"
  /\ unknown' = [unknown EXCEPT ![w] = ~Known(cert[w])]
  /\ serials' = [serials EXCEPT ![Key(cert[w])] = @ \cup {cert[w]}]
  /\ Goto(w, "expire")
  /\ UNCHANGED <<now, ttl, crls, issuerDNs, memory, cert, kc, im, todo, seenDn>>

(* Mutant of SaddFailed: the failed insertion is undone.                   *)
SaddUndone(w) == {serials[Key(cert[w])] \ {cert[w]}}

(* What a SADD that fails may leave: Redis executed it or did not.         *)
SaddFailed(w) == {serials[Key(cert[w])], serials[Key(cert[w])] \cup {cert[w]}}

(* The SADD fails, and so does Store.                                      *)
InsertSerialFails(w) ==
  /\ RedisFaults
  /\ pc[w] = "insert"
  /\ \E S \in SaddFailed(w) : serials' = [serials EXCEPT ![Key(cert[w])] = S]
  /\ Return(w)
  /\ UNCHANGED <<now, ttl, crls, issuerDNs, memory>>

(* Mutant of Due: a key expires one tick early.                            *)
DueEarly(k, t) == k[1] <= t + 1

(* The expiry of a key: the hour in it has begun at time t.                *)
Due(k, t) == k[1] <= t

(* Redis deletes a key whose expiry lies in the past, and sets none on a   *)
(* key that does not exist.                                                *)
ExpireAt(k) ==
  IF Due(k, now)
  THEN /\ serials' = [serials EXCEPT ![k] = {}]
       /\ ttl' = ttl \ {k}
  ELSE /\ ttl' = ttl \cup {j \in {k} : serials[j] # {}}
       /\ UNCHANGED serials

(* Mutant of ExpiryIsSet: a new serial sets no expiry.                     *)
ExpiryIsSetOrNew(w) == KcOf(w) \in expirySet \/ unknown[w]

ExpiryIsSet(w) == KcOf(w) \in expirySet

(* Mutant of WasUnknown: the answer is negated.                            *)
WasKnown(w) == ~unknown[w]

WasUnknown(w) == unknown[w]

(* The rest of WasUnknown: the expiry is set once per object.              *)
SetExpiry(w) ==
  /\ pc[w] = "expire"
  /\ IF ExpiryIsSet(w)
     THEN UNCHANGED <<serials, ttl>>
     ELSE \/ ExpireAt(Key(cert[w]))
          \/ RedisFaults /\ UNCHANGED <<serials, ttl>>
  /\ expirySet' = expirySet \cup {KcOf(w)}
  /\ IF WasUnknown(w) THEN Continue(w, "metadata") ELSE Return(w)
  /\ UNCHANGED <<now, crls, issuerDNs, kcOf, metaOf, knownDPs, knownDNs>>

(* GetIssuerMetadata: under the read lock ...                              *)
LookupMetadata(w) ==
  /\ pc[w] = "metadata"
  /\ im' = [im EXCEPT ![w] = metaOf[Issuer[cert[w]]]]
  /\ Goto(w, IF im'[w] = Nobody THEN "newIm" ELSE "accumulate")
  /\ UNCHANGED <<now, redis, memory, cert, kc, unknown, todo, seenDn>>

(* ... then under the write lock, without looking again.                   *)
NewMetadata(w) ==
  /\ pc[w] = "newIm"
  /\ metaOf' = [metaOf EXCEPT ![Issuer[cert[w]]] = w]
  /\ im' = [im EXCEPT ![w] = w]
  /\ Goto(w, "accumulate")
  /\ UNCHANGED <<now, redis, kcOf, expirySet, knownDPs, knownDNs, cert, kc,
                 unknown, todo, seenDn>>

(* Accumulate reads whether the DN was seen before it handles the CRLs.    *)
ReadSeen(w) ==
  /\ pc[w] = "accumulate"
  /\ seenDn' = [seenDn EXCEPT ![w] = Dn[cert[w]] \in knownDNs[ImOf(w)]]
  /\ todo' = [todo EXCEPT ![w] = Dps[cert[w]]]
  /\ Goto(w, "dps")
  /\ UNCHANGED <<now, redis, memory, cert, kc, im, unknown>>

(* A distribution point this object knows is passed over.                  *)
SkipDp(w) ==
  /\ pc[w] = "dps"
  /\ todo[w] # <<>>
  /\ Head(todo[w]) \in knownDPs[ImOf(w)]
  /\ todo' = [todo EXCEPT ![w] = Tail(@)]
  /\ UNCHANGED <<now, redis, memory, pc, cert, kc, im, unknown, seenDn>>

(* Mutant of Marked: all distribution points are marked with the first.    *)
MarkedAll(w) == Range(todo[w])

Marked(w) == {Head(todo[w])}

(* Any other is first marked known, in memory.  Two workers that both saw  *)
(* it unmarked would both insert it, which a Redis set absorbs.            *)
MarkDp(w) ==
  /\ pc[w] = "dps"
  /\ todo[w] # <<>>
  /\ Head(todo[w]) \notin knownDPs[ImOf(w)]
  /\ knownDPs' = [knownDPs EXCEPT ![ImOf(w)] = @ \cup Marked(w)]
  /\ Goto(w, "addCRL")
  /\ UNCHANGED <<now, redis, kcOf, expirySet, metaOf, knownDNs, locals>>

(* addCRL: SADD of the URL, unless its scheme is not http or https.        *)
AddCRL(w) ==
  /\ pc[w] = "addCRL"
  /\ crls' = [crls EXCEPT ![Issuer[cert[w]]] =
                @ \cup ({Head(todo[w])} \cap WebDps)]
  /\ todo' = [todo EXCEPT ![w] = Tail(@)]
  /\ Goto(w, "dps")
  /\ UNCHANGED <<now, serials, ttl, issuerDNs, memory, cert, kc, im, unknown,
                 seenDn>>

(* A failed SADD ends Accumulate and Store; the mark stays.                *)
AddCRLFails(w) ==
  /\ RedisFaults
  /\ pc[w] = "addCRL"
  /\ Head(todo[w]) \in WebDps
  /\ Return(w)
  /\ UNCHANGED <<now, redis, memory>>

(* After the last distribution point comes the DN, marked before added.    *)
DpsDone(w) ==
  /\ pc[w] = "dps"
  /\ todo[w] = <<>>
  /\ IF seenDn[w]
     THEN Return(w) /\ UNCHANGED knownDNs
     ELSE /\ knownDNs' = [knownDNs EXCEPT ![ImOf(w)] = @ \cup {Dn[cert[w]]}]
          /\ Continue(w, "addDN")
  /\ UNCHANGED <<now, redis, kcOf, expirySet, metaOf, knownDPs>>

(* addIssuerDN; NoopBackend and markDirty then do nothing.                 *)
AddDN(w) ==
  /\ pc[w] = "addDN"
  /\ issuerDNs' = [issuerDNs EXCEPT ![Issuer[cert[w]]] = @ \cup {Dn[cert[w]]}]
  /\ Return(w)
  /\ UNCHANGED <<now, serials, ttl, crls, memory>>

AddDNFails(w) ==
  /\ RedisFaults
  /\ pc[w] = "addDN"
  /\ Return(w)
  /\ UNCHANGED <<now, redis, memory>>

StoreStep(w) ==
  \/ LookupKnown(w)    \/ NewKnown(w)    \/ InsertSerial(w) \/ SetExpiry(w)
  \/ LookupMetadata(w) \/ NewMetadata(w) \/ ReadSeen(w)
  \/ SkipDp(w)         \/ MarkDp(w)      \/ AddCRL(w)
  \/ DpsDone(w)        \/ AddDN(w)

(* Store returns an error.                                                 *)
StoreFails(w) == InsertSerialFails(w) \/ AddCRLFails(w) \/ AddDNFails(w)

(* Mutant of TtlWithout: a key that is gone keeps its expiry.              *)
TtlKept(gone) == ttl

TtlWithout(gone) == ttl \ gone

(* Time passes, and Redis drops the keys whose expiry has come.            *)
Tick ==
  /\ now < MaxTime
  /\ now' = now + 1
  /\ LET gone == {k \in ttl : Due(k, now + 1)} IN
       /\ serials' = [k \in Keys |-> IF k \in gone THEN {} ELSE serials[k]]
       /\ ttl' = TtlWithout(gone)
  /\ UNCHANGED <<crls, issuerDNs, memory, pc, locals>>

(* The database alone, with callers that store any unexpired certificate   *)
(* at any time, again and again, and a Redis that answers; CtFetch adds    *)
(* the calls that fail.                                                    *)
Init == DbInit /\ pc = [w \in Workers |-> "idle"]

Next ==
  \/ \E w \in Workers, c \in Certs : NotAfter[c] >= now /\ StoreCalled(w, c)
  \/ \E w \in Workers : StoreStep(w)
  \/ Tick

Spec == Init /\ [][Next]_dbVars

-----------------------------------------------------------------------------
(* Every variable keeps its type.                                          *)
DbTypeOK ==
  /\ now \in 0..MaxTime
  /\ serials \in [Keys -> SUBSET Certs]
  /\ ttl \subseteq {k \in Keys : serials[k] # {}}
  /\ crls \in [Issuers -> SUBSET Urls]
  /\ issuerDNs \in [Issuers -> SUBSET DNs]
  /\ kcOf \in [Keys -> Workers \cup {Nobody}]
  /\ expirySet \subseteq Keys \X Workers
  /\ metaOf \in [Issuers -> Workers \cup {Nobody}]
  /\ knownDPs \in [Issuers \X Workers -> SUBSET Urls]
  /\ knownDNs \in [Issuers \X Workers -> SUBSET DNs]
  /\ cert \in [Workers -> Certs \cup {Nobody}]
  /\ kc \in [Workers -> Workers \cup {Nobody}]
  /\ im \in [Workers -> Workers \cup {Nobody}]
  /\ unknown \in [Workers -> BOOLEAN]
  /\ seenDn \in [Workers -> BOOLEAN]

AtRest == \A w \in Workers : pc[w] \notin StorePcs

(* What aggregate-crls will need of a certificate is in Redis.             *)
Accounted(c) ==
  /\ Range(Dps[c]) \cap WebDps \subseteq crls[Issuer[c]]
  /\ Dn[c] \in issuerDNs[Issuer[c]]

(* Whenever no Store is running, every serial that Redis knows has its     *)
(* CRL distribution points and its issuer's DN in Redis too, although      *)
(* workers share the marks of Accumulate, skip what another has marked     *)
(* and not yet inserted, and may work on two IssuerMetadata objects of one *)
(* issuer (GetIssuerMetadata does not look again under the write lock).    *)
CoherentAtRest == AtRest => \A c \in Certs : Known(c) => Accounted(c)

(* Whenever no Store is running, a serials key whose hour has not begun    *)
(* carries an expiry: WasUnknown sets it once per object, and an object    *)
(* that was replaced in the cache by a second one loses nothing.           *)
TtlAtRest ==
  AtRest => \A k \in Keys : serials[k] # {} /\ now < k[1] => k \in ttl

(* A serial that Redis knows stays known until the hour in which its       *)
(* certificate ends begins, which is how far the expiry of WasUnknown      *)
(* reaches: whichever worker set it, on whichever object, and whichever    *)
(* calls have failed.  "Subsequent calls with the same serial will return  *)
(* false, as it will be known then."                                       *)
KnownUntilItsHour ==
  [][\A c \in Certs : Known(c) /\ now' < ExpDate(c) => Known(c)']_dbVars
=============================================================================
