------------------------------- MODULE Generate -------------------------------
(***************************************************************************)
(* crlite-generate: the cron job that allocates a run identifier, builds   *)
(* the filter and the stash, and uploads them.  Kubernetes never runs two  *)
(* of these jobs at once and does not restart a failed one.                *)
(***************************************************************************)
EXTENDS CrliteStores

CONSTANTS
    Cadence,      \* hours between two starts of the job
    Horizon,      \* bound: hours during which the job is started
    GenFaults     \* the faults that may happen, among GenFaultKinds

GenFaultKinds == {"generate", "diff", "upload"}

ASSUME GenerateAssumption ==
    /\ Cadence \in Nat \ {0}
    /\ Horizon \in Nat
    /\ GenFaults \subseteq GenFaultKinds

VARIABLES
    clock,        \* hour at which the job was last started
    gpc,          \* "idle", "allocated" or "uploading"
    draft         \* the run in /processing, not all of it in the bucket yet

genVars == <<clock, gpc, draft>>

NoRun == [date |-> 0, idx |-> 0, time |-> 0, files |-> {}, prev |-> 0]

-----------------------------------------------------------------------------
(* 0-allocate_identifier: next index of the day after the most recent      *)
(* identifier of the bucket.                                               *)
NextIdx(date) ==
    IF RunIdentifiers # {} /\ runs[Len(runs)].date = date
      THEN runs[Len(runs)].idx + 1
      ELSE 0

Allocate ==
    /\ gpc = "idle"
    /\ clock + Cadence <= Horizon
    /\ Len(runs) < MaxRuns
    /\ clock' = clock + Cadence
    /\ LET date == clock' \div 24 IN
       draft' = [date |-> date, idx |-> NextIdx(date), time |-> clock',
                 files |-> {"timestamp"}, prev |-> 0]
    /\ gpc' = "allocated"
    /\ UNCHANGED stores

(* 1-generate_mlbf downloads the key lists of the latest run of the bucket *)
(* and certs_to_crlite writes key lists, filter and, when the lists were   *)
(* there, the difference.                                                  *)
GenerateWithStash ==
    /\ gpc = "allocated"
    /\ FileExists(Len(runs), "keys")
    /\ draft' = [draft EXCEPT !.files = @ \cup {"keys", "filter", "stash"},
                              !.prev = Len(runs)]
    /\ gpc' = "uploading"
    /\ UNCHANGED <<clock, stores>>

(* No earlier run, its lists are missing or could not be fetched, or the   *)
(* diff raised: the run goes on without a stash.                           *)
GenerateWithoutStash ==
    /\ gpc = "allocated"
    /\ FileExists(Len(runs), "keys") => "diff" \in GenFaults
    /\ draft' = [draft EXCEPT !.files = @ \cup {"keys", "filter"}]
    /\ gpc' = "uploading"
    /\ UNCHANGED <<clock, stores>>

(* Any earlier step of the job exits with an error: nothing is uploaded.   *)
GenerateFails ==
    /\ "generate" \in GenFaults
    /\ gpc = "allocated"
    /\ gpc' = "idle"
    /\ draft' = NoRun
    /\ UNCHANGED <<clock, stores>>

-----------------------------------------------------------------------------
(* 2-upload_artifacts_to_storage.  os.walk goes top-down: the timestamp of *)
(* the run's folder precedes the files of its mlbf folder, which come in   *)
(* directory order.  The folder is listed once its first file is there.    *)

WithFile(run, f) == [run EXCEPT !.files = @ \cup {f}]

UploadTimestamp ==
    /\ gpc = "uploading"
    /\ "timestamp" \in draft.files
    /\ runs' = Append(runs, [draft EXCEPT !.files = {"timestamp"}])
    /\ draft' = [draft EXCEPT !.files = @ \ {"timestamp"}]
    /\ UNCHANGED <<clock, gpc, firstRun, records, replica, status, signed>>

UploadFile(f) ==
    /\ gpc = "uploading"
    /\ "timestamp" \notin draft.files
    /\ f \in draft.files
    /\ runs' = [runs EXCEPT ![Len(runs)] = WithFile(@, f)]
    /\ draft' = [draft EXCEPT !.files = @ \ {f}]
    /\ UNCHANGED <<clock, gpc, firstRun, records, replica, status, signed>>

(* The 'completed' marker is written last.                                 *)
UploadCompleted ==
    /\ gpc = "uploading"
    /\ draft.files = {}
    /\ runs' = [runs EXCEPT ![Len(runs)] = WithFile(@, "completed")]
    /\ draft' = NoRun
    /\ gpc' = "idle"
    /\ UNCHANGED <<clock, firstRun, records, replica, status, signed>>

(* An upload still fails after its retries: the job stops where it is.     *)
UploadFails ==
    /\ "upload" \in GenFaults
    /\ gpc = "uploading"
    /\ gpc' = "idle"
    /\ draft' = NoRun
    /\ UNCHANGED <<clock, stores>>

GenFault == GenerateFails \/ UploadFails

GenStep ==
    \/ Allocate
    \/ GenerateWithStash
    \/ GenerateWithoutStash
    \/ UploadTimestamp
    \/ \E f \in Files : UploadFile(f)
    \/ UploadCompleted

GenInit ==
    /\ clock = 0
    /\ gpc = "idle"
    /\ draft = NoRun

GenTypeOK ==
    /\ clock \in Nat
    /\ gpc \in {"idle", "allocated", "uploading"}
    /\ draft \in Run
=============================================================================
