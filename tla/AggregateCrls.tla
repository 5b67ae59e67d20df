--------------------------- MODULE AggregateCrls ---------------------------
(***************************************************************************)
(* aggregate-crls: three phases, each a pool of goroutines that empties a  *)
(* closed channel.  They find the CRL URLs of the root program's issuers   *)
(* in Redis, download every CRL (a call of the Downloader, seen here by    *)
(* what it promises: VerifiedFile), and collect the revoked serials of     *)
(* each issuer into a file; main then saves which issuers are enrolled.    *)
(* A signal cancels the context that the goroutines look at.  Meanwhile    *)
(* crlite-fetch goes on adding to Redis, and keys of serials expire.       *)
(***************************************************************************)
EXTENDS RootProgram

CONSTANTS
  Threads,   \* the goroutines of a pool
  Issuers,   \* the issuers that Redis may hold serials of
  Urls,      \* the CRL URLs
  Crls,      \* URL -> the sets of serials its CRL may revoke
  Reports,   \* the CCADB reports that may be on disk after the download
  Signals    \* whether a signal may come

ASSUME AggregateAssumption == Signals \in BOOLEAN /\ Issuers # {}

VARIABLES
  filed,     \* Redis: the issuers with a serials key
  crls,      \* Redis: crl::<issuer> -> set of URLs
  mpc,       \* main: the phase, "exited", or "died" in glog.Fatalf
  cancelled, \* ctx is done
  issuers,   \* mozIssuers.issuerMap
  queue,     \* the issuers in the channel of the phase
  tpc,       \* goroutine -> "ready", "busy", "store", "quit" or "done"
  job,       \* goroutine -> the issuer it works on
  left,      \* goroutine -> the URLs of it that are left
  found,     \* goroutine -> issuerCrls of findCrlWorker, as <<issuer, URL>>
  merged,    \* mergedCrls, as <<issuer, URL>>
  results,   \* the issuers crlFetchWorker sent on
  paths,     \* <<issuer, URL>> -> what is at the path in the result
  failed,    \* goroutine -> anyCrlFailed
  collected, \* goroutine -> the serials collected for its issuer
  audit,     \* auditor.Entries of the aggregation, as <<issuer, URL, kind>>
  revoked,   \* issuer -> its file under revokedpath
  saved,     \* enrolledpath: <<>>, or <<the entries of the list>>
  begun      \* history: crls when main listed the issuers

redis  == <<filed, crls>>
main   == <<mpc, issuers, merged, results, begun>>
pool   == <<job, left, failed, collected>>
files  == <<paths, revoked, saved>>
vars   == <<redis, main, cancelled, queue, tpc, found, pool, audit, files>>

(* A path is blank when the download failed and no valid file was there;   *)
(* a CRL that verifies may still not decode.                               *)
Blank    == [kind |-> "blank", revoked |-> {}]
Garbled  == [kind |-> "garbled", revoked |-> {}]
Crl(S)   == [kind |-> "crl", revoked |-> S]

Fetched(u) == {Blank, Garbled} \cup {Crl(S) : S \in Crls[u]}

AllReady == [t \in Threads |-> "ready"]

NoJob == CHOOSE i \in Issuers : TRUE

JobInit ==
  /\ tpc = AllReady
  /\ job = [t \in Threads |-> NoJob]
  /\ left = [t \in Threads |-> {}]
  /\ found = [t \in Threads |-> {}]
  /\ failed = [t \in Threads |-> FALSE]
  /\ collected = [t \in Threads |-> {}]
  /\ mpc = "load" /\ cancelled = FALSE
  /\ issuers = InsertAll({})
  /\ queue = {} /\ merged = {} /\ results = {} /\ audit = {}
  /\ paths = [p \in Issuers \X Urls |-> Blank]
  /\ revoked = [i \in Issuers |-> {}]
  /\ saved = <<>>
  /\ begun = [i \in Issuers |-> {}]

(* main loads the report, which an earlier download may have left on disk. *)
Load ==
  /\ mpc = "load"
  /\ \/ \E r \in {r \in Reports : Acceptable(r)} :
          issuers' = ParseCCADB(r) /\ mpc' = "list"
     \/ mpc' = "died" /\ UNCHANGED issuers
  /\ UNCHANGED <<redis, merged, results, begun, cancelled, queue, tpc, found, pool,
                 audit, files>>

(* Mutant of Listed: issuers outside the root program are queued too.      *)
ListedAll == filed

InProgram == DOMAIN issuers

Listed == filed \cap InProgram

(* identifyCrlsByIssuer lists the issuers and queues those of the program; *)
(* once ctx is done, a select picks those that are still queued.           *)
List ==
  /\ mpc = "list"
  /\ mpc' = "identify"
  /\ \E S \in SUBSET Listed : (cancelled \/ S = Listed) /\ queue' = S
  /\ begun' = crls
  /\ UNCHANGED <<redis, issuers, merged, results, cancelled, tpc, found, pool, audit, files>>

Signal ==
  /\ Signals /\ ~cancelled
  /\ mpc \notin {"load", "exited", "died"}
  /\ cancelled' = TRUE
  /\ UNCHANGED <<redis, main, queue, tpc, found, pool, audit, files>>

Step(t, to) == tpc' = [tpc EXCEPT ![t] = to]

(* The channel is closed and empty: the goroutine ends, its locals with it.*)
RunsOut(t) ==
  /\ mpc \in {"identify", "download", "aggregate"}
  /\ tpc[t] = "ready" /\ queue = {}
  /\ Step(t, "done")
  /\ job' = [job EXCEPT ![t] = NoJob]
  /\ failed' = [failed EXCEPT ![t] = FALSE]
  /\ collected' = [collected EXCEPT ![t] = {}]
  /\ UNCHANGED <<redis, main, cancelled, queue, found, left, audit, files>>

(* findCrlWorker takes an issuer and looks at ctx before it reads Redis.   *)
(* One that quits sends no result at all.                                  *)
Find(t, i) ==
  /\ mpc = "identify" /\ tpc[t] = "ready"
  /\ i \in queue /\ queue' = queue \ {i}
  /\ IF cancelled
     THEN Step(t, "quit") /\ UNCHANGED found
     ELSE /\ found' = [found EXCEPT ![t] = @ \cup {<<i, u>> : u \in crls[i]}]
          /\ UNCHANGED tpc
  /\ UNCHANGED <<redis, main, cancelled, pool, audit, files>>

(* Mutant of PoolEmpty: a goroutine that quits is waited for.              *)
PoolDone == \A t \in Threads : tpc[t] = "done"

PoolEmpty == \A t \in Threads : tpc[t] \in {"quit", "done"}

(* main, in the select of identifyCrlsByIssuer: ctx is done, and it leaves *)
(* with exit status 0 and nothing saved, ...                               *)
IdentifyCancelled ==
  /\ mpc = "identify" /\ cancelled
  /\ mpc' = "exited"
  /\ UNCHANGED <<redis, issuers, merged, results, begun, cancelled, queue, tpc, found,
                 pool, audit, files>>

(* ... or the pool is done, perhaps at the same time.  The results merge,  *)
(* and downloadCRLs queues the issuers that have a URL.                    *)
Identified ==
  /\ mpc = "identify" /\ PoolEmpty
  /\ mpc' = "download"
  /\ merged' = UNION {found[t] : t \in {s \in Threads : tpc[s] = "done"}}
  /\ queue' = {p[1] : p \in merged'}
  /\ tpc' = AllReady
  /\ found' = [t \in Threads |-> {}]
  /\ UNCHANGED <<redis, issuers, results, begun, cancelled, pool, audit, files>>

UrlsOf(i) == {p[2] : p \in {q \in merged : q[1] = i}}

(* Mutant of AnyCrlFailed: it is not reset for the next issuer.            *)
AnyCrlFailedBefore(t) == failed[t]

AnyCrlFailed(t) == FALSE

(* crlFetchWorker and aggregateCRLWorker take an issuer.                   *)
Take(t, i) ==
  /\ mpc \in {"download", "aggregate"} /\ tpc[t] = "ready"
  /\ i \in queue /\ queue' = queue \ {i}
  /\ Step(t, "busy")
  /\ job' = [job EXCEPT ![t] = i]
  /\ left' = [left EXCEPT ![t] = UrlsOf(i)]
  /\ failed' = [failed EXCEPT ![t] = AnyCrlFailed(t)]
  /\ collected' = [collected EXCEPT ![t] = {}]
  /\ UNCHANGED <<redis, main, cancelled, found, audit, files>>

(* Before each URL both look at ctx, and drop the issuer when it is done.  *)
Quit(t) ==
  /\ mpc \in {"download", "aggregate"} /\ tpc[t] = "busy"
  /\ left[t] # {} /\ cancelled
  /\ Step(t, "quit")
  /\ UNCHANGED <<redis, main, cancelled, queue, found, pool, audit, files>>

(* crlFetchWorkerProcessOne; also a failed URL goes into the result.       *)
Fetch(t, u) ==
  /\ mpc = "download" /\ tpc[t] = "busy"
  /\ u \in left[t] /\ ~cancelled
  /\ \E f \in Fetched(u) : paths' = [paths EXCEPT ![<<job[t], u>>] = f]
  /\ left' = [left EXCEPT ![t] = @ \ {u}]
  /\ UNCHANGED <<redis, main, cancelled, queue, tpc, found, job, failed, collected,
                 audit, revoked, saved>>

SendResult(t) ==
  /\ mpc = "download" /\ tpc[t] = "busy" /\ left[t] = {}
  /\ results' = results \cup {job[t]}
  /\ Step(t, "ready")
  /\ UNCHANGED <<redis, mpc, issuers, merged, begun, cancelled, queue, found, pool, audit, files>>

(* downloadCRLs returns; main leaves if ctx is done.                       *)
Downloaded ==
  /\ mpc = "download" /\ PoolEmpty
  /\ mpc' = IF cancelled THEN "exited" ELSE "aggregate"
  /\ queue' = results
  /\ tpc' = AllReady
  /\ UNCHANGED <<redis, issuers, merged, results, begun, cancelled, found, pool, audit, files>>

(* Mutant of AuditKind: a CRL that does not decode is reported as empty.   *)
AuditKindByCount(crl) == IF crl.revoked = {} THEN "Empty" ELSE "Valid"

(* What the auditor is told of a path: FailedProcessLocal, NoRevocations,  *)
(* or ValidAndProcessed.                                                   *)
AuditKind(crl) ==
  IF crl.kind = "garbled" THEN "Failed"
  ELSE IF crl.revoked = {} THEN "Empty" ELSE "Valid"

(* One URL of aggregateCRLWorker: a blank path, or a CRL that does not     *)
(* decode, fails the issuer; an empty CRL adds nothing.  The download has  *)
(* told the auditor of a blank path.                                       *)
Aggregate(t, u) ==
  LET crl == paths[<<job[t], u>>] IN
  /\ mpc = "aggregate" /\ tpc[t] = "busy"
  /\ u \in left[t] /\ ~cancelled
  /\ left' = [left EXCEPT ![t] = @ \ {u}]
  /\ failed' = [failed EXCEPT ![t] = @ \/ crl.kind # "crl"]
  /\ collected' = [collected EXCEPT ![t] = @ \cup crl.revoked]
  /\ audit' = IF crl.kind = "blank" THEN audit
              ELSE audit \cup {<<job[t], u, AuditKind(crl)>>}
  /\ UNCHANGED <<redis, main, cancelled, queue, tpc, found, job, files>>

(* Mutant of Enrollable: a failed CRL does not matter.                     *)
EnrollableFailed(t) == collected[t] # {}

(* "Issuer is considered enrolled if no CRLs failed to download or         *)
(* process, and at least one revocation was collected"                     *)
Enrollable(t) == ~failed[t] /\ collected[t] # {}

(* After the last URL the issuer may be enrolled; then its file is written.*)
EnrollIssuer(t) ==
  /\ mpc = "aggregate" /\ tpc[t] = "busy" /\ left[t] = {}
  /\ IF Enrollable(t)
     THEN issuers' = Enroll(issuers, job[t]) /\ Step(t, "store")
     ELSE UNCHANGED issuers /\ Step(t, "ready")
  /\ UNCHANGED <<redis, mpc, merged, results, begun, cancelled, queue, found, pool, audit, files>>

(* StoreKnownCertificateList writes the serials one by one ...             *)
StoreRevoked(t) ==
  /\ mpc = "aggregate" /\ tpc[t] = "store" /\ ~cancelled
  /\ revoked' = [revoked EXCEPT ![job[t]] = collected[t]]
  /\ Step(t, "ready")
  /\ UNCHANGED <<redis, main, cancelled, queue, found, pool, audit, paths, saved>>

(* ... and stops when ctx is done, which is fatal to the process.          *)
StoreInterrupted(t) ==
  /\ mpc = "aggregate" /\ tpc[t] = "store" /\ cancelled
  /\ \E S \in SUBSET collected[t] : revoked' = [revoked EXCEPT ![job[t]] = S]
  /\ mpc' = "died"
  /\ UNCHANGED <<redis, issuers, merged, results, begun, cancelled, queue, tpc, found,
                 pool, audit, paths, saved>>

(* main saves the list of issuers and exits with status 0, even when an    *)
(* error of the encoder, which is only logged, has left a file that nobody *)
(* can parse; a file that cannot be opened is fatal.                       *)
SaveIssuersList ==
  /\ mpc = "aggregate" /\ PoolEmpty
  /\ \/ saved' = <<IssuersList(issuers)>> /\ mpc' = "exited"
     \/ UNCHANGED saved /\ mpc' \in {"exited", "died"}
  /\ UNCHANGED <<redis, issuers, merged, results, begun, cancelled, queue, tpc, found,
                 pool, audit, paths, revoked>>

Goroutine(t) ==
  \/ RunsOut(t)
  \/ \E i \in queue : Find(t, i) \/ Take(t, i)
  \/ Quit(t)
  \/ \E u \in left[t] : Fetch(t, u) \/ Aggregate(t, u)
  \/ SendResult(t) \/ EnrollIssuer(t) \/ StoreRevoked(t) \/ StoreInterrupted(t)

Main ==
  Load \/ List \/ IdentifyCancelled \/ Identified \/ Downloaded \/ SaveIssuersList

JobNext == (\E t \in Threads : Goroutine(t)) \/ Main \/ Signal

(* Redis beside the program: serials come and expire, URLs come.           *)
RedisBecomes(f, c) ==
  /\ \A i \in Issuers : crls[i] \subseteq c[i]
  /\ filed' = f /\ crls' = c
  /\ UNCHANGED <<main, cancelled, queue, tpc, found, pool, audit, files>>

Init ==
  /\ JobInit
  /\ filed \subseteq Issuers
  /\ crls \in [Issuers -> SUBSET Urls]

Next ==
  JobNext \/ \E f \in SUBSET Issuers, c \in [Issuers -> SUBSET Urls] : RedisBecomes(f, c)

Spec == Init /\ [][Next]_vars

(* Goroutines are scheduled fairly and every download ends (MaxRetries).   *)
FairSpec == Spec /\ WF_vars(Main) /\ \A t \in Threads : WF_vars(Goroutine(t))

-----------------------------------------------------------------------------
(* Every variable keeps its type.                                          *)
TypeOK ==
  /\ mpc \in {"load", "list", "identify", "download", "aggregate", "exited", "died"}
  /\ cancelled \in BOOLEAN
  /\ queue \subseteq InProgram /\ results \subseteq InProgram
  /\ filed \subseteq Issuers /\ crls \in [Issuers -> SUBSET Urls]
  /\ tpc \in [Threads -> {"ready", "busy", "store", "quit", "done"}]
  /\ job \in [Threads -> Issuers]
  /\ left \in [Threads -> SUBSET Urls]
  /\ found \in [Threads -> SUBSET (InProgram \X Urls)]
  /\ merged \subseteq InProgram \X Urls
  /\ DOMAIN paths = Issuers \X Urls
  /\ failed \in [Threads -> BOOLEAN]

Processed(i) == \A u \in UrlsOf(i) : paths[<<i, u>>].kind = "crl"

RevokedOf(i) == UNION {paths[<<i, u>>].revoked : u \in UrlsOf(i)}

(* An issuer that a saved list calls enrolled is of the root program, every*)
(* CRL that Redis knew for it when the issuers were listed was downloaded, *)
(* verified and decoded, and its file of revoked serials holds what all of *)
(* them revoke, which is not nothing: although it is marked enrolled before*)
(* the file is written, while Redis changes, and whenever a signal comes.  *)
EnrolledSound ==
  saved # <<>> =>
    \A e \in saved[1] : e.enrolled =>
      /\ e.issuer \in InProgram
      /\ begun[e.issuer] \subseteq UrlsOf(e.issuer)
      /\ Processed(e.issuer)
      /\ revoked[e.issuer] = RevokedOf(e.issuer) /\ RevokedOf(e.issuer) # {}

(* "Issuer is considered enrolled if no CRLs failed to download or         *)
(* process, and at least one revocation was collected" (the comment in     *)
(* aggregateCRLWorker) holds of a run that no signal disturbs.             *)
UndisturbedComplete ==
  saved # <<>> /\ ~cancelled =>
    \A i \in InProgram :
      Processed(i) /\ RevokedOf(i) # {} =>
        \E e \in saved[1] : e.issuer = i /\ e.enrolled

Kinds(i, u) == {k \in {"Valid", "Empty", "Failed"} : <<i, u, k>> \in audit}

(* The report has an entry for each CRL of issuer i, none of a failure,    *)
(* and one at least with revocations.                                      *)
ReportedGood(i) ==
  /\ \A u \in UrlsOf(i) : Kinds(i, u) \in {{"Valid"}, {"Empty"}}
  /\ \E u \in UrlsOf(i) : Kinds(i, u) = {"Valid"}

(* In a run that no signal disturbs, the audit report and the saved list   *)
(* agree, whichever goroutines wrote to them: an issuer is enrolled if and *)
(* only if the report has an entry for each of its CRLs, none of a failure,*)
(* and one at least with revocations.                                      *)
AuditAgrees ==
  saved # <<>> /\ ~cancelled =>
    \A e \in saved[1] : e.enrolled <=> ReportedGood(e.issuer)

(* The process ends, with or without a signal.                             *)
Terminates == <>(mpc \in {"exited", "died"})
=============================================================================
