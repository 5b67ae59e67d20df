----------------------------- MODULE CrliteStores -----------------------------
(***************************************************************************)
(* The stores the periodic jobs of CRLite share: the Google Cloud Storage  *)
(* bucket that crlite-generate fills with one folder per run, and the      *)
(* Kinto collection that crlite-publish edits and crlite-signoff signs.    *)
(*                                                                         *)
(* A run is known by its position in the bucket listing.  Its folder name  *)
(* is "<date>-<idx>", kept as the pair date, idx.                          *)
(***************************************************************************)
EXTENDS Integers, FiniteSets, Sequences

CONSTANTS
    Certs,        \* keys (issuer and serial) that can be revoked
    Revoked,      \* Revoked[n]: the known revoked keys the n-th run collects
    MaxRuns,      \* bound: runs that reach the bucket
    Ids,          \* record identifiers Kinto hands out
    Lagging       \* TRUE: the read-only Kinto server may trail the read-write one

ASSUME StoresAssumption ==
    /\ MaxRuns \in Nat \ {0}
    /\ Revoked \in [1 .. MaxRuns -> SUBSET Certs]
    /\ 0 \notin Ids
    /\ Lagging \in BOOLEAN

VARIABLES
    runs,         \* every run that reached the bucket, in listing order
    firstRun,     \* the oldest run whose folder has not been expired
    records,      \* the records of the collection on the read-write server
    replica,      \* what the read-only server answers when it lags
    status,       \* review status of the collection
    signed        \* the records that were signed: what Firefox downloads

stores == <<runs, firstRun, records, replica, status, signed>>

-----------------------------------------------------------------------------
(* The bucket.                                                             *)

Files == {"timestamp", "keys", "filter", "stash", "completed"}

Run == [date : Nat, idx : Nat, time : Nat, files : SUBSET Files, prev : Nat]

(* google_cloud_file_exists *)
FileExists(r, f) ==
    /\ r \in firstRun .. Len(runs)
    /\ f \in runs[r].files

(* get_run_identifiers, as the interval of the runs listed *)
RunIdentifiers == firstRun .. Len(runs)

(* Mutant of StashKeys: the two sides of the difference are swapped.       *)
StashKeysSwapped(r) == Revoked[runs[r].prev] \ Revoked[r]

(* The keys a stash adds: those revoked now and not in the run it was      *)
(* diffed against.                                                         *)
StashKeys(r) == Revoked[r] \ Revoked[runs[r].prev]

-----------------------------------------------------------------------------
(* The collection.  A record is created first and gets its attachment by a *)
(* second request.                                                         *)

NoParent == 0

Record == [id : Ids, run : 1 .. MaxRuns, incremental : BOOLEAN,
           parent : Ids \cup {NoParent}, attached : BOOLEAN]

Statuses == {"work-in-progress", "to-review", "signed"}

IsFilter(rec) == ~rec.incremental

(* What a client that holds the records S takes as revoked.                *)
Content(rec) == IF IsFilter(rec) THEN Revoked[rec.run] ELSE StashKeys(rec.run)

Cover(S) == UNION {Content(rec) : rec \in {r \in S : r.attached}}

(* Every edit of a record puts the collection back to work-in-progress.    *)
WriteRecords(S) ==
    /\ records' = S
    /\ status' = "work-in-progress"

(* The read-only server catches up.                                        *)
Sync ==
    /\ Lagging
    /\ replica # records
    /\ replica' = records
    /\ UNCHANGED <<runs, firstRun, records, status, signed>>

ReadOnlyView == IF Lagging THEN replica ELSE records

(* The bucket's retention removes the oldest folder; the newest stays.     *)
ExpireRun ==
    /\ firstRun < Len(runs)
    /\ firstRun' = firstRun + 1
    /\ UNCHANGED <<runs, records, replica, status, signed>>

StoresInit ==
    /\ runs = <<>>
    /\ firstRun = 1
    /\ records = {}
    /\ replica = {}
    /\ status = "signed"
    /\ signed = {}

StoresTypeOK ==
    /\ runs \in Seq(Run)
    /\ firstRun \in Nat \ {0}
    /\ records \subseteq Record
    /\ replica \subseteq Record
    /\ status \in Statuses
    /\ signed \subseteq Record
=============================================================================
