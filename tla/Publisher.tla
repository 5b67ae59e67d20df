------------------------------- MODULE Publisher -------------------------------
(***************************************************************************)
(* crlite-publish: main.py --crlite --request-review, one job at a time.   *)
(* Each request to the bucket or to Kinto is one step; the job may die     *)
(* between any two of them and is started again by the next cron tick.     *)
(***************************************************************************)
EXTENDS CrliteStores

CONSTANTS
    StashesPerFilter,  \* how many stashes weigh no more than one filter
    PubFaults          \* the faults that may happen, among PubFaultKinds

(* "job": the job dies between two requests; "attach": it dies, or a       *)
(* request raises something that is not a KintoException, after a record   *)
(* was created and before its file was attached; "kinto": Kinto refuses    *)
(* the attachment.                                                         *)
PubFaultKinds == {"job", "attach", "kinto"}

ASSUME PublisherAssumption ==
    /\ StashesPerFilter \in Nat
    /\ PubFaults \subseteq PubFaultKinds

VARIABLES
    ppc,          \* next request of the job
    existing,     \* existing_records
    listed,       \* run_identifiers of PublishedRunDB, an interval
    clearAll,     \* "clear_all" in result
    upload,       \* result["upload"], an interval of runs
    at,           \* the run the loops over result["upload"] are at
    previousId    \* previous_id

pubVars == <<ppc, existing, listed, clearAll, upload, at, previousId>>

PubStates == {"idle", "clearInsane", "list", "determine", "clear", "measure",
              "download", "decide", "clearFull", "createFull", "attachFull", "stash",
              "attachStash", "dropRecord", "review"}

AllowedDelta == 8

First(S) == CHOOSE r \in S : \A q \in S : r <= q
Last(S) == CHOOSE r \in S : \A q \in S : q <= r

-----------------------------------------------------------------------------
(* The order of the records is that of details.name, "<time>Z-diff" or     *)
(* "<time>Z-full".                                                         *)

Time(rec) == runs[rec.run].time

Before(p, q) ==
    \/ Time(p) < Time(q)
    \/ Time(p) = Time(q) /\ p.incremental /\ ~q.incremental

(* existing_records[-1] *)
LastRecord(S) == CHOOSE r \in S : \A q \in S : ~Before(r, q)

Filters(S) == {r \in S : IsFilter(r)}
Stashes(S) == {r \in S : r.incremental}

(* crlite_verify_record_sanity raises no SanityException *)
RecordsSane(S) ==
    /\ S # {} => Filters(S) # {}
    /\ \A f, g \in Filters(S) : f = g
    /\ \A r \in Stashes(S) : \E p \in S : p.id = r.parent /\ ~Before(r, p)
    /\ \A r \in S : \/ \A q \in S : ~Before(q, r)
                    \/ \E q \in S : Before(q, r) /\ Time(r) - Time(q) <= AllowedDelta

(* crlite_verify_run_id_sanity raises no SanityException *)
RunValid(r) == FileExists(r, "filter") /\ FileExists(r, "stash")

RunsSane(R) ==
    \A r \in R :
        /\ RunValid(r)
        /\ r - 1 \in R => /\ runs[r - 1].time <= runs[r].time
                          /\ runs[r].time - runs[r - 1].time <= AllowedDelta

(* run_id in existing_records[-1]["attachment"]["filename"]: the file name *)
(* starts with the identifier of the record's run, so an identifier of the *)
(* same day matches when its index is a prefix of that run's index.        *)
DecimalPrefix(i, j) ==
    \/ i = j
    \/ i # 0 /\ \E p \in {10, 100, 1000, 10000, 100000} : i = j \div p

NameMatches(r, s) ==
    /\ runs[r].date = runs[s].date
    /\ DecimalPrefix(runs[r].idx, runs[s].idx)

(* split_run_ids_by: the runs after the first match *)
PublishedMatches == {r \in listed : NameMatches(r, LastRecord(existing).run)}

(* Mutant of Unpublished: only the newest run is uploaded.                 *)
UnpublishedNewest ==
    {r \in listed : r = Last(listed) /\ \E m \in PublishedMatches : m < r}

(* Mutant of Unpublished: the run already published is uploaded again.     *)
UnpublishedFromMatch == {r \in listed : \E m \in PublishedMatches : m <= r}

Unpublished == {r \in listed : \E m \in PublishedMatches : m < r}

-----------------------------------------------------------------------------
PubInit ==
    /\ ppc = "idle"
    /\ existing = {}
    /\ listed = {}
    /\ clearAll = FALSE
    /\ upload = {}
    /\ at = 0
    /\ previousId = NoParent

(* The job ends, normally or by an exception.                              *)
JobEnds ==
    /\ ppc' = "idle"
    /\ existing' = {}
    /\ listed' = {}
    /\ clearAll' = FALSE
    /\ upload' = {}
    /\ at' = 0
    /\ previousId' = NoParent

(* publish_crlite: read the collection and check it.                       *)
ReadRecords ==
    /\ ppc = "idle"
    /\ IF RecordsSane(ReadOnlyView)
         THEN existing' = ReadOnlyView /\ ppc' = "list"
         ELSE existing' = {} /\ ppc' = "clearInsane"
    /\ UNCHANGED <<listed, clearAll, upload, at, previousId, stores>>

(* clear_crlite_filters, then clear_crlite_stashes: one request per record *)
ClearRecord ==
    /\ ppc \in {"clearInsane", "clear", "clearFull"}
    /\ \E rec \in records :
         /\ Filters(records) # {} => IsFilter(rec)
         /\ WriteRecords(records \ {rec})
    /\ UNCHANGED <<pubVars, runs, firstRun, replica, signed>>

ClearDone ==
    /\ ppc \in {"clearInsane", "clear", "clearFull"}
    /\ records = {}
    /\ ppc' = CASE ppc = "clearInsane" -> "list"
              [] ppc = "clear" -> "measure"
              [] ppc = "clearFull" -> "createFull"
    /\ UNCHANGED <<existing, listed, clearAll, upload, at, previousId, stores>>

(* PublishedRunDB lists the bucket; with nothing in it the job asserts.    *)
ListRuns ==
    /\ ppc = "list"
    /\ \/ /\ RunIdentifiers # {}
          /\ listed' = RunIdentifiers
          /\ ppc' = "determine"
          /\ UNCHANGED <<existing, clearAll, upload, at, previousId>>
       \/ RunIdentifiers = {} /\ JobEnds
    /\ UNCHANGED stores

(* crlite_determine_publish: start over from the most recent run ...       *)
StartOver ==
    \/ existing = {}
    \/ /\ existing # {}
       /\ LastRecord(existing).attached
       /\ PublishedMatches = {} \/ ~RunsSane(Unpublished)

(* Mutant of DetermineStartOver: the oldest run is taken for the newest.   *)
DetermineStartOverOldest ==
    /\ ppc = "determine"
    /\ StartOver
    /\ clearAll' = TRUE
    /\ upload' = {First(listed)}
    /\ ppc' = "clear"
    /\ UNCHANGED <<existing, listed, at, previousId, stores>>

DetermineStartOver ==
    /\ ppc = "determine"
    /\ StartOver
    /\ clearAll' = TRUE
    /\ upload' = {Last(listed)}
    /\ ppc' = "clear"
    /\ UNCHANGED <<existing, listed, at, previousId, stores>>

(* Mutant of DetermineAdd: with nothing to upload the job ends at once.    *)
DetermineAddOrEnd ==
    /\ ppc = "determine"
    /\ existing # {}
    /\ LastRecord(existing).attached
    /\ ~StartOver
    /\ \/ /\ Unpublished # {}
          /\ upload' = Unpublished
          /\ ppc' = "measure"
          /\ UNCHANGED <<existing, listed, clearAll, at, previousId>>
       \/ Unpublished = {} /\ JobEnds
    /\ UNCHANGED stores

(* ... or add what is not published yet.                                   *)
DetermineAdd ==
    /\ ppc = "determine"
    /\ existing # {}
    /\ LastRecord(existing).attached
    /\ ~StartOver
    /\ upload' = Unpublished
    /\ ppc' = IF Unpublished = {} THEN "review" ELSE "measure"
    /\ UNCHANGED <<existing, listed, clearAll, at, previousId, stores>>

(* existing_records[-1]["attachment"] raises a KeyError.                   *)
DetermineKeyError ==
    /\ ppc = "determine"
    /\ existing # {}
    /\ ~LastRecord(existing).attached
    /\ JobEnds
    /\ UNCHANGED stores

(* The sum of the sizes of the published stashes; a stash without an       *)
(* attachment raises a KeyError.                                           *)
Measure ==
    /\ ppc = "measure"
    /\ \/ /\ \A r \in Stashes(existing) : r.attached
          /\ ppc' = "download"
          /\ at' = First(upload)
          /\ UNCHANGED <<existing, listed, clearAll, upload, previousId>>
       \/ /\ \E r \in Stashes(existing) : ~r.attached
          /\ JobEnds
    /\ UNCHANGED stores

(* Mutant of DownloadStash: await_run_ready is left out.                   *)
DownloadStashEarly ==
    /\ ppc = "download"
    /\ FileExists(at, "stash")
    /\ IF at = Last(upload) THEN ppc' = "decide" /\ UNCHANGED at
                            ELSE at' = at + 1 /\ UNCHANGED ppc
    /\ UNCHANGED <<existing, listed, clearAll, upload, previousId, stores>>

(* await_run_ready and the download of the stash, for each run to upload.  *)
DownloadStash ==
    /\ ppc = "download"
    /\ FileExists(at, "completed") /\ FileExists(at, "stash")
    /\ IF at = Last(upload) THEN ppc' = "decide" /\ UNCHANGED at
                            ELSE at' = at + 1 /\ UNCHANGED ppc
    /\ UNCHANGED <<existing, listed, clearAll, upload, previousId, stores>>

(* Mutant of NeedsFull: the stashes published before are not counted.      *)
NeedsFullForgets ==
    \/ clearAll
    \/ Cardinality(upload) > StashesPerFilter
    \/ existing = {}

(* The stashes would weigh more than the filter, or start anew.            *)
NeedsFull ==
    \/ clearAll
    \/ Cardinality(Stashes(existing)) + Cardinality(upload) > StashesPerFilter
    \/ existing = {}

(* The filter of the final run, and its timestamp, are read: replace       *)
(* everything by it, or add the stashes to what is published.              *)
Decide ==
    /\ ppc = "decide"
    /\ FileExists(Last(upload), "filter")
    /\ IF NeedsFull
         THEN ppc' = "clearFull" /\ UNCHANGED <<at, previousId>>
         ELSE /\ ppc' = "stash"
              /\ at' = First(upload)
              /\ previousId' = LastRecord(existing).id
    /\ UNCHANGED <<existing, listed, clearAll, upload, stores>>

(* A file that is not there after five minutes ends the job.               *)
DownloadTimesOut ==
    /\ \/ ppc = "download" /\ ~(FileExists(at, "completed") /\ FileExists(at, "stash"))
       \/ ppc = "decide" /\ ~FileExists(Last(upload), "filter")
    /\ JobEnds
    /\ UNCHANGED stores

-----------------------------------------------------------------------------
(* publish_crlite_record: create the record, then attach the file.         *)

(* Kinto's identifiers are never used twice: a fresh one is one that       *)
(* nothing refers to.                                                      *)
LiveIds ==
    LET S == records \cup replica \cup existing
    IN {r.id : r \in S} \cup {r.parent : r \in S} \cup {previousId}

FreshId == CHOOSE i \in Ids : i \notin LiveIds

CreateRecord(run, incremental, parent) ==
    /\ FreshId \in Ids \ LiveIds
    /\ WriteRecords(records \cup
            {[id |-> FreshId, run |-> run, incremental |-> incremental,
              parent |-> parent, attached |-> FALSE]})
    /\ previousId' = FreshId

CreateFull ==
    /\ ppc = "createFull"
    /\ CreateRecord(Last(upload), FALSE, NoParent)
    /\ ppc' = "attachFull"
    /\ UNCHANGED <<existing, listed, clearAll, upload, at, runs, firstRun, replica, signed>>

CreateStash ==
    /\ ppc = "stash"
    /\ CreateRecord(at, TRUE, previousId)
    /\ ppc' = "attachStash"
    /\ UNCHANGED <<existing, listed, clearAll, upload, at, runs, firstRun, replica, signed>>

AttachFile ==
    WriteRecords({IF r.id = previousId THEN [r EXCEPT !.attached = TRUE] ELSE r :
                  r \in records})

AttachFull ==
    /\ ppc = "attachFull"
    /\ AttachFile
    /\ ppc' = "review"
    /\ UNCHANGED <<existing, listed, clearAll, upload, at, previousId, runs, firstRun, replica, signed>>

AttachStash ==
    /\ ppc = "attachStash"
    /\ AttachFile
    /\ IF at = Last(upload) THEN ppc' = "review" /\ UNCHANGED at
                            ELSE ppc' = "stash" /\ at' = at + 1
    /\ UNCHANGED <<existing, listed, clearAll, upload, previousId, runs, firstRun, replica, signed>>

(* attach_file raised a KintoException: delete the record and raise again. *)
AttachRefused ==
    /\ "kinto" \in PubFaults
    /\ ppc \in {"attachFull", "attachStash"}
    /\ ppc' = "dropRecord"
    /\ UNCHANGED <<existing, listed, clearAll, upload, at, previousId, stores>>

DropRecord ==
    /\ ppc = "dropRecord"
    /\ WriteRecords({r \in records : r.id # previousId})
    /\ JobEnds
    /\ UNCHANGED <<runs, firstRun, replica, signed>>

(* main: request_review_of_collection, when publish_crlite returned.       *)
RequestReview ==
    /\ ppc = "review"
    /\ status' = IF status = "work-in-progress" THEN "to-review" ELSE status
    /\ JobEnds
    /\ UNCHANGED <<runs, firstRun, records, replica, signed>>

(* The pod is killed, or a request raises.                                 *)
JobDies ==
    /\ ppc # "idle"
    /\ IF ppc \in {"attachFull", "attachStash", "dropRecord"}
         THEN "attach" \in PubFaults
         ELSE "job" \in PubFaults
    /\ JobEnds
    /\ UNCHANGED stores

PubFault == AttachRefused \/ JobDies

PubStep ==
    \/ ReadRecords
    \/ ClearRecord
    \/ ClearDone
    \/ ListRuns
    \/ DetermineStartOver
    \/ DetermineAdd
    \/ DetermineKeyError
    \/ Measure
    \/ DownloadStash
    \/ Decide
    \/ DownloadTimesOut
    \/ CreateFull
    \/ CreateStash
    \/ AttachFull
    \/ AttachStash
    \/ DropRecord
    \/ RequestReview

PubTypeOK ==
    /\ ppc \in PubStates
    /\ existing \subseteq Record
    /\ listed \subseteq 1 .. MaxRuns
    /\ clearAll \in BOOLEAN
    /\ upload \subseteq 1 .. MaxRuns
    /\ at \in 0 .. MaxRuns
    /\ previousId \in Ids \cup {NoParent}
=============================================================================
