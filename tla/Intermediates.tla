--------------------------- MODULE Intermediates ---------------------------
(***************************************************************************)
(* The other half of crlite-publish: publish_intermediates brings the      *)
(* Kinto collection of intermediate certificates in line with the          *)
(* enrolled.json of the newest run, one request after the other, verifies  *)
(* what is there and requests a review; crlite-signoff signs it.  The      *)
(* server the job reads from and the one it writes to are taken to show    *)
(* the same collection.  Only one instance of the job runs at a time.      *)
(***************************************************************************)
EXTENDS Integers, FiniteSets

CONSTANTS
  Inters,         \* intermediates, each standing for its unique_id
  Ids,            \* record ids
  MaxRuns,        \* bound on the runs
  RequestReview,  \* --request-review
  Faults          \* whether requests fail and the job dies

ASSUME IntermediatesAssumption ==
  /\ MaxRuns \in Nat
  /\ {RequestReview, Faults} \subseteq BOOLEAN

VARIABLES
  enrolledJson,  \* the newest run's intermediates -> crlite_enrolled
  runsLeft,      \* runs to come
  delete,        \* --delete, an option of the deployment: never changes
  records,       \* the collection
  status,        \* its review status
  ipc,           \* where the job is
  local, remote, \* local_intermediates, remote_intermediates
  broken,        \* remote_error_records
  toDelete, toUpload, toUpdate,  \* what is left of the three sets
  review,        \* the condition at the end, as the sets decide it
  current,       \* the record created whose attachment is not yet uploaded
  calm           \* no fault and no new run from here on

vars == <<enrolledJson, runsLeft, delete, records, status, ipc, local, remote,
          broken, toDelete, toUpload, toUpdate, review, current, calm>>

world == <<enrolledJson, runsLeft, delete, calm>>
plan  == <<local, remote, review>>
kinto == <<records, status>>
job == <<local, remote, broken, toDelete, toUpload, toUpdate, review, current>>

(* What enrolled.json may say: intermediates with their crlite_enrolled.   *)
Lists == UNION {[D -> BOOLEAN] : D \in SUBSET Inters}

Record == [id : Ids, key : Inters, enrolled : BOOLEAN, attached : BOOLEAN]

(* A record without its PEM attachment is broken: Intermediate(...) raises.*)
Broken(R) == {r \in R : ~r.attached}
Good(R)   == R \ Broken(R)
KeysOf(R) == {r.key : r \in Good(R)}

(* The dictionaries the job builds of a collection: where two records have *)
(* one unique_id the later one stays.                                      *)
ReadFrom(R) ==
  {f \in [KeysOf(R) -> Good(R)] : \A k \in KeysOf(R) : f[k].key = k}

Equals(k, r) == r.enrolled = local[k]

Nothing == [k \in {} |-> FALSE]

JobStart ==
  /\ local = Nothing /\ remote = Nothing
  /\ broken = {} /\ toDelete = {} /\ toUpload = {} /\ toUpdate = {}
  /\ review = FALSE /\ current = {}

Init ==
  /\ enrolledJson \in [Inters -> BOOLEAN]
  /\ runsLeft = MaxRuns
  /\ records = {}
  /\ delete \in BOOLEAN
  /\ status = "signed"
  /\ ipc = "idle" /\ JobStart
  /\ calm = FALSE

JobEnds ==
  /\ ipc' = "idle"
  /\ local' = Nothing /\ remote' = Nothing
  /\ broken' = {} /\ toDelete' = {} /\ toUpload' = {} /\ toUpdate' = {}
  /\ review' = FALSE /\ current' = {}

(* crlite-generate uploads a new run, with other intermediates in it.      *)
NewRun ==
  /\ ~calm /\ runsLeft > 0
  /\ runsLeft' = runsLeft - 1
  /\ enrolledJson' \in Lists
  /\ UNCHANGED <<delete, kinto, ipc, job, calm>>

(* Mutant of NewKeys: everything in the list is uploaded.                  *)
AllKeys(l, r) == DOMAIN l

NewKeys(l, r) == DOMAIN l \ DOMAIN r

(* The job loads the newest run and the collection, and compares them.     *)
Compare ==
  /\ ipc = "idle"
  /\ local' = enrolledJson
  /\ remote' \in ReadFrom(records)
  /\ broken' = Broken(records)
  /\ toDelete' = DOMAIN remote' \ DOMAIN local'
  /\ toUpload' = NewKeys(local', remote')
  /\ toUpdate' = {k \in DOMAIN local' \cap DOMAIN remote' : ~Equals(k, remote[k])'}
  /\ review' = (\/ toUpdate' # {} \/ toUpload' # {}
                \/ toDelete' # {} /\ RequestReview)
  /\ current' = {}
  /\ ipc' = "write"
  /\ UNCHANGED <<world, kinto>>

Write(R) == records' = R /\ status' = "work-in-progress"

WithId(i) == {r \in records : r.id = i}

FreshIds == Ids \ {r.id : r \in records}

(* Faults stop short of exhausting Ids, the bound on records.              *)
Failing ==
  Faults /\ ~calm /\ Cardinality(FreshIds) >= Cardinality(Inters)

(* Mutant of Cleaned: broken records are only logged.                      *)
OnlyLogged(r) == records

Cleaned(r) == records \ WithId(r.id)

(* A broken record is deleted; an error is only logged.                    *)
Clean(r) ==
  /\ ipc = "write" /\ r \in broken
  /\ broken' = broken \ {r}
  /\ \/ Write(Cleaned(r))
     \/ Failing /\ UNCHANGED kinto
  /\ UNCHANGED <<world, ipc, plan, toDelete, toUpload, toUpdate, current>>

(* An intermediate that left the list is deleted, with --delete only; an   *)
(* error is only logged.                                                   *)
DeleteFromKinto(k) ==
  /\ ipc = "write" /\ broken = {}
  /\ k \in toDelete /\ toDelete' = toDelete \ {k}
  /\ \/ delete /\ Write(records \ WithId(remote[k].id))
     \/ (~delete \/ Failing) /\ UNCHANGED kinto
  /\ UNCHANGED <<world, ipc, plan, broken, toUpload, toUpdate, current>>

(* add_to_kinto creates the record, ...                                    *)
CreateRecord(k) ==
  /\ ipc = "write" /\ broken = {} /\ toDelete = {} /\ current = {}
  /\ k \in toUpload
  /\ FreshIds # {}
  /\ LET r == [id |-> CHOOSE i \in FreshIds : TRUE, key |-> k,
               enrolled |-> local[k], attached |-> FALSE] IN
       current' = {r} /\ Write(records \cup {r})
  /\ UNCHANGED <<world, ipc, plan, broken, toDelete, toUpload, toUpdate>>

(* ... then uploads the attachment; ...                                    *)
UploadPem(r) ==
  /\ ipc = "write" /\ r \in current
  /\ Write((records \ {r}) \cup {[r EXCEPT !.attached = TRUE]})
  /\ current' = {} /\ toUpload' = toUpload \ {r.key}
  /\ UNCHANGED <<world, ipc, plan, broken, toDelete, toUpdate>>

(* ... if that is refused it deletes the record again and gives up.        *)
UploadRefused(r) ==
  /\ Failing
  /\ ipc = "write" /\ r \in current
  /\ Write(records \ {r})
  /\ JobEnds
  /\ UNCHANGED world

(* Mutant of Patched: the attributes go to a second record.                *)
PatchAdded(k) == records \cup {[remote[k] EXCEPT !.enrolled = local[k]]}

Patched(k) ==
  (records \ WithId(remote[k].id)) \cup {[remote[k] EXCEPT !.enrolled = local[k]]}

(* update_kinto puts the attributes of a record; an error is noted and     *)
(* logged.                                                                 *)
UpdateKinto(k) ==
  /\ ipc = "write" /\ broken = {} /\ toDelete = {} /\ toUpload = {}
  /\ k \in toUpdate /\ toUpdate' = toUpdate \ {k}
  /\ \/ Write(Patched(k))
     \/ Failing /\ UNCHANGED kinto
  /\ UNCHANGED <<world, ipc, plan, broken, toDelete, toUpload, current>>

(* Mutant of Agree: the attributes are not compared.                       *)
AgreeUnchecked(f) == TRUE

Agree(f) == \A k \in DOMAIN f \cap DOMAIN local : Equals(k, f[k])

(* The verification of the collection, as read into dictionary f: without  *)
(* --delete only a proper superset of it is noticed.                       *)
Verified(f) ==
  /\ Broken(records) = {}
  /\ IF delete THEN DOMAIN local = DOMAIN f
     ELSE ~(DOMAIN f \subseteq DOMAIN local /\ DOMAIN f # DOMAIN local)
  /\ Agree(f)

(* Verify, and request a review of a collection that is work in progress;  *)
(* a verification that fails raises, and the job ends.                     *)
VerifyAndReview ==
  /\ ipc = "write"
  /\ broken = {} /\ toDelete = {} /\ toUpload = {} /\ toUpdate = {}
  /\ \E f \in ReadFrom(records) :
       status' = IF Verified(f) /\ review /\ status = "work-in-progress"
                 THEN "to-review" ELSE status
  /\ JobEnds
  /\ UNCHANGED <<world, records>>

(* A request fails where the job does not catch it, or the pod dies.       *)
JobDies ==
  /\ Failing
  /\ ipc = "write"
  /\ JobEnds
  /\ UNCHANGED <<world, kinto>>

(* crlite-signoff.                                                         *)
Sign ==
  /\ status = "to-review"
  /\ status' = "signed"
  /\ UNCHANGED <<world, records, ipc, job>>

CalmDown ==
  /\ ~calm
  /\ calm' = TRUE
  /\ UNCHANGED <<enrolledJson, runsLeft, delete, kinto, ipc, job>>

Publishing ==
  \/ Compare
  \/ \E r \in broken : Clean(r)
  \/ \E k \in toDelete : DeleteFromKinto(k)
  \/ \E k \in toUpload : CreateRecord(k)
  \/ \E r \in current : UploadPem(r) \/ UploadRefused(r)
  \/ \E k \in toUpdate : UpdateKinto(k)
  \/ VerifyAndReview
  \/ JobDies

Next == Publishing \/ NewRun \/ Sign \/ CalmDown

Spec == Init /\ [][Next]_vars

(* The cron job runs again and again, and its requests are answered.       *)
FairSpec == Spec /\ WF_vars(Publishing)

-----------------------------------------------------------------------------
(* Every variable keeps its type; no two records have one id, and the job  *)
(* plans only with intermediates it has read of.                           *)
TypeOK ==
  /\ enrolledJson \in Lists /\ local \in Lists /\ runsLeft \in 0..MaxRuns
  /\ {delete, review, calm} \subseteq BOOLEAN
  /\ records \subseteq Record
  /\ \A r, q \in records : r.id = q.id => r = q
  /\ status \in {"work-in-progress", "to-review", "signed"}
  /\ ipc \in {"idle", "write"}
  /\ DOMAIN remote \subseteq Inters
  /\ toUpload \subseteq DOMAIN local /\ toDelete \subseteq DOMAIN remote
  /\ toUpdate \subseteq DOMAIN local \cap DOMAIN remote
  /\ broken \subseteq records /\ current \subseteq records

(* The collection holds every intermediate of the list J, once, with its   *)
(* enrolment and its attachment, and no broken record; with --delete it    *)
(* holds nothing else.                                                     *)
Matches(J) ==
  /\ Broken(records) = {}
  /\ DOMAIN J \subseteq KeysOf(records)
  /\ delete => KeysOf(records) = DOMAIN J
  /\ \A r \in records : r.key \in DOMAIN J => r.enrolled = J[r.key]

(* A collection set for review matches the list the job loaded, however    *)
(* many jobs have died between any two requests before: the code raises    *)
(* "The verified intermediates do not match the local set" otherwise.      *)
ReviewedMatches ==
  [][status # "to-review" /\ status' = "to-review" => Matches(local)]_vars

(* No intermediate has two complete records: the job finds those it        *)
(* created before, and a job that dies between creating a record and       *)
(* uploading its attachment leaves one that the next job removes.          *)
NoDuplicates ==
  \A r, q \in Good(records) : r.key = q.key => r = q

(* "Re-run to fix": once faults cease, the cron job brings the collection  *)
(* in line with the newest run and keeps it so.                            *)
RerunFixes == calm ~> [](ipc = "idle" => Matches(enrolledJson))
=============================================================================
