--------------------------- MODULE AggregateKnown ---------------------------
(***************************************************************************)
(* aggregate-known, reading the serials of the enrolled issuers out of     *)
(* Redis while ct-fetch stores certificates (CertDatabase) and Redis lets  *)
(* keys expire.  main lists the keys, queues one work unit per issuer, and *)
(* waits for the pool of goroutines or for a signal.                       *)
(***************************************************************************)
EXTENDS CertDatabase, RootProgram

CONSTANTS
  Threads,       \* the goroutines of knownWorker.run
  KnownSignals   \* whether a signal may come

ASSUME KnownAssumption == KnownSignals \in BOOLEAN /\ Certs # {}

VARIABLES
  saved,     \* enrolledpath: <<>>, or <<the entries of the list>>
  kpc,       \* main: "load", "list", "waiting", "quitting", "exited", "died"
  enrolled,  \* the issuers of mozIssuers that are enrolled
  signalled, \* a signal has come
  listed,    \* the keys GetIssuerAndDatesFromCache returned, enrolled ones
  queue,     \* the issuers in workChan
  tpc,       \* goroutine -> "ready", "busy", "writing", "quit" or "done"
  job,       \* goroutine -> the issuer of its work unit
  left,      \* goroutine -> the expDates of it that are left
  collected, \* goroutine -> serials
  known,     \* issuer -> <<>>, or <<the serials in its file>>
  atListing  \* history: the certificates Redis knew when main listed them

unit      == <<job, left, collected>>
knownVars == <<saved, kpc, enrolled, signalled, listed, queue, tpc, unit, known,
               atListing>>
allVars   == <<dbVars, knownVars>>

NoJob == CHOOSE i \in Issuers : TRUE

KnownInit ==
  /\ kpc = "load" /\ signalled = FALSE /\ enrolled = {}
  /\ listed = {} /\ queue = {}
  /\ tpc = [t \in Threads |-> "ready"]
  /\ job = [t \in Threads |-> NoJob]
  /\ left = [t \in Threads |-> {}]
  /\ collected = [t \in Threads |-> {}]
  /\ known = [i \in Issuers |-> <<>>]
  /\ atListing = {}

(* A list that is missing or does not parse is fatal.                      *)
Load ==
  /\ kpc = "load"
  /\ IF saved = <<>>
     THEN kpc' = "died" /\ UNCHANGED enrolled
     ELSE kpc' = "list" /\ enrolled' = Enrolled(LoadEnrolledIssuers(saved[1]))
  /\ UNCHANGED <<dbVars, saved, signalled, listed, queue, tpc, unit, known, atListing>>

(* The keys of one SCAN: one work unit per enrolled issuer, in a channel   *)
(* that has room for one per key.                                          *)
List ==
  /\ kpc = "list"
  /\ listed' = {k \in Keys : serials[k] # {} /\ k[2] \in enrolled}
  /\ queue' = {k[2] : k \in listed'}
  /\ atListing' = {c \in Certs : Known(c)}
  /\ kpc' = "waiting"
  /\ UNCHANGED <<dbVars, saved, enrolled, signalled, tpc, unit, known>>

Alive == kpc \in {"waiting", "quitting"}

Step(t, to) == tpc' = [tpc EXCEPT ![t] = to]

(* Mutant of DatesOf: the dates of all issuers are taken.                  *)
AllDates(i) == {k[1] : k \in listed}

DatesOf(i) == {k[1] : k \in {j \in listed : j[2] = i}}

TakeUnit(t, i) ==
  /\ Alive /\ tpc[t] = "ready"
  /\ i \in queue /\ queue' = queue \ {i}
  /\ Step(t, "busy")
  /\ job' = [job EXCEPT ![t] = i]
  /\ left' = [left EXCEPT ![t] = DatesOf(i)]
  /\ collected' = [collected EXCEPT ![t] = {}]
  /\ UNCHANGED <<dbVars, saved, kpc, enrolled, signalled, listed, known, atListing>>

(* Mutant of IsExpired: a date expires an hour before it begins.           *)
IsExpiredEarly(d) == d - Hour <= now

(* NewExpDate: a date read back from a key is good to the end of its hour. *)
IsExpired(d) == d + Hour <= now

(* One date: unless it has expired, what its key holds now, perhaps        *)
(* nothing any more, is added.                                             *)
ReadDate(t, d) ==
  /\ kpc = "waiting" /\ tpc[t] = "busy"
  /\ d \in left[t]
  /\ left' = [left EXCEPT ![t] = @ \ {d}]
  /\ collected' = [collected EXCEPT ![t] =
                     @ \cup IF IsExpired(d) THEN {} ELSE serials[<<d, job[t]>>]]
  /\ UNCHANGED <<dbVars, saved, kpc, enrolled, signalled, listed, queue, tpc, job, known,
                 atListing>>

(* After the last date the file is truncated and written.                  *)
OpenFile(t) ==
  /\ Alive /\ tpc[t] = "busy" /\ left[t] = {}
  /\ known' = [known EXCEPT ![job[t]] = <<{}>>]
  /\ Step(t, "writing")
  /\ UNCHANGED <<dbVars, saved, kpc, enrolled, signalled, listed, queue, unit, atListing>>

WriteFile(t) ==
  /\ Alive /\ tpc[t] = "writing"
  /\ known' = [known EXCEPT ![job[t]] = <<collected[t]>>]
  /\ Step(t, "ready")
  /\ UNCHANGED <<dbVars, saved, kpc, enrolled, signalled, listed, queue, unit, atListing>>

(* Mutant of Closed: the channel is not closed when there was no work.     *)
ClosedAfterWork == queue = {} /\ listed # {}

(* workChan is closed, and empty.                                          *)
Closed == queue = {}

(* The goroutine ends, its locals with it.                                 *)
RunsOut(t) ==
  /\ Alive /\ tpc[t] = "ready" /\ Closed
  /\ Step(t, "done")
  /\ job' = [job EXCEPT ![t] = NoJob]
  /\ collected' = [collected EXCEPT ![t] = {}]
  /\ UNCHANGED <<dbVars, saved, kpc, enrolled, signalled, listed, queue, left, known,
                 atListing>>

Signal ==
  /\ KnownSignals /\ ~signalled
  /\ kpc = "waiting"
  /\ signalled' = TRUE
  /\ UNCHANGED <<dbVars, saved, kpc, enrolled, listed, queue, tpc, unit, known, atListing>>

(* main's select: every goroutine has ended, ...                           *)
Completed ==
  /\ kpc = "waiting"
  /\ \A t \in Threads : tpc[t] = "done"
  /\ kpc' = "exited"
  /\ UNCHANGED <<dbVars, saved, enrolled, signalled, listed, queue, tpc, unit, known,
                 atListing>>

(* ... or a signal was caught, and main sends on the unbuffered quitChan.  *)
SignalCaught ==
  /\ kpc = "waiting" /\ signalled
  /\ kpc' = "quitting"
  /\ UNCHANGED <<dbVars, saved, enrolled, signalled, listed, queue, tpc, unit, known,
                 atListing>>

(* One goroutine, about to read a date, receives it and returns; main      *)
(* returns too, and with it the process, whatever the others are doing.    *)
QuitReceived(t) ==
  /\ kpc = "quitting" /\ tpc[t] = "busy" /\ left[t] # {}
  /\ Step(t, "quit")
  /\ kpc' = "exited"
  /\ UNCHANGED <<dbVars, saved, enrolled, signalled, listed, queue, unit, known,
                 atListing>>

Goroutine(t) ==
  \/ \E i \in Issuers : TakeUnit(t, i)
  \/ \E d \in left[t] : ReadDate(t, d)
  \/ OpenFile(t) \/ WriteFile(t) \/ RunsOut(t) \/ QuitReceived(t)

Main == Load \/ List \/ Completed \/ SignalCaught

KnownNext ==
  \/ Next /\ UNCHANGED knownVars
  \/ \E t \in Threads : Goroutine(t)
  \/ Main \/ Signal

(* aggregate-known by itself, with any list of issuers.                    *)
KnownSpec ==
  /\ Init /\ KnownInit
  /\ saved \in {<<>>} \cup {<<l>> : l \in SUBSET [issuer : Issuers, cert : STRING, enrolled : BOOLEAN]}
  /\ [][KnownNext]_allVars

-----------------------------------------------------------------------------
(* Every variable keeps its type.                                          *)
KnownTypeOK ==
  /\ kpc \in {"load", "list", "waiting", "quitting", "exited", "died"}
  /\ enrolled \subseteq Issuers
  /\ listed \subseteq Keys /\ queue \subseteq enrolled
  /\ tpc \in [Threads -> {"ready", "busy", "writing", "quit", "done"}]
  /\ \A t \in Threads : \A d \in left[t] : <<d, job[t]>> \in listed
  /\ \A i \in Issuers : known[i] = <<>> \/ known[i][1] \subseteq Certs

(* A run that completes has, for every enrolled issuer, a file with every  *)
(* certificate that Redis knew at the listing and whose hour of expiry has *)
(* not begun, and with certificates of that issuer only: although Redis    *)
(* drops keys and gains serials between the listing and the reading.       *)
KnownComplete ==
  kpc = "exited" /\ (\A t \in Threads : tpc[t] = "done") =>
    \A i \in enrolled :
      /\ \A c \in atListing :
           Issuer[c] = i /\ now < ExpDate(c) =>
             known[i] # <<>> /\ c \in known[i][1]
      /\ known[i] # <<>> => \A c \in known[i][1] : Issuer[c] = i
=============================================================================
