----------------------------- MODULE PipelineProofs -----------------------------
(***************************************************************************)
(* ShapeInv is an invariant of the pipeline: the runs in the bucket are in *)
(* order, and a publishing job holds an interval of runs whose stashes,    *)
(* from the download on, are complete.  Type correctness and the           *)
(* completeness of what is published follow from it.  CoverInv is one when *)
(* crlite-publish reads the server it writes to and no day has more than   *)
(* ten runs: what Firefox downloads then covers every revocation.  RuleInv *)
(* is one when it reads the server it writes to, however many runs a day   *)
(* has: the stashes keep to the size rule, and a signature never takes     *)
(* Firefox back.  IndexInv is one when generate is started every third     *)
(* hour or less often: a day then never has more than ten runs, and the    *)
(* jobs implement ClientView.                                              *)
(***************************************************************************)
EXTENDS PipelineInv, TLAPS, WellFoundedInduction, FiniteSetTheorems

(* A bounded set of natural numbers that is not empty has a maximum.       *)
LEMMA HasMaximum ==
    ASSUME NEW S, NEW b \in Nat, S \subseteq 0 .. b, S # {}
    PROVE  \E m \in S : \A n \in S : n <= m
<1> DEFINE T == {b - n : n \in S}
<1>1. T \subseteq Nat
  OBVIOUS
<1> PICK s \in S : TRUE
  BY Zenon
<1>a. b - s \in T
  OBVIOUS
<1>2. PICK x \in T : \A y \in T : ~(<<y, x>> \in OpToRel(<, Nat))
  BY <1>1, <1>a, WFMin, NatLessThanWellFounded, Zenon
<1>3. \A y \in T : ~(y < x)
  BY <1>1, <1>2, Zenon DEF OpToRel
<1>4. PICK m \in S : x = b - m
  OBVIOUS
<1>5. ASSUME NEW n \in S PROVE n <= m
  <2>1. b - n \in T
    OBVIOUS
  <2>2. ~(b - n < b - m)
    BY <2>1, <1>3, <1>4, Zenon
  <2> QED
    BY <2>2
<1> QED
  BY <1>5

-----------------------------------------------------------------------------
(* The bucket.                                                             *)

(* The bucket is empty at first.                                           *)
LEMMA BucketInit == Init => BucketInv
BY StoresAssumption
DEF Init, StoresInit, GenInit, BucketInv, Pending, NoRun

(* What is said of the bucket depends on the runs and on crlite-generate   *)
(* only.                                                                   *)
LEMMA BucketUnchanged ==
    ASSUME BucketInv, UNCHANGED <<runs, firstRun, genVars>>
    PROVE  BucketInv'
BY DEF BucketInv, Pending, Precedes, genVars

(* Only crlite-generate and the bucket's retention touch the bucket.       *)
LEMMA PublishingFrame == Publishing => UNCHANGED <<runs, firstRun, genVars>>
BY Zenon DEF Publishing, PubStep, PubFault, ReadRecords, ClearRecord, ClearDone, ListRuns,
       DetermineStartOver, DetermineAdd, DetermineKeyError, Measure, DownloadStash, Decide,
       DownloadTimesOut, CreateFull, CreateStash, AttachFull, AttachStash, AttachRefused,
       DropRecord, RequestReview, JobDies, stores, genVars

(* crlite-signoff does not touch the bucket.                               *)
LEMMA SigningOffFrame == SigningOff => UNCHANGED <<runs, firstRun, genVars>>
BY DEF SigningOff, SignoffStep, SignoffDies, Verify, CheckStatus, Sign, stores, genVars

(* The date of a time, in days.                                            *)
LEMMA DivFacts ==
    /\ \A a \in Nat : a \div 24 \in Nat
    /\ \A a, b \in Nat : a <= b => a \div 24 <= b \div 24
OBVIOUS

(* The types of the fields of a run.                                       *)
LEMMA RunFacts ==
    ASSUME NEW r \in Run
    PROVE  r.date \in Nat /\ r.idx \in Nat /\ r.time \in Nat /\ r.prev \in Nat
           /\ r.files \subseteq Files
BY DEF Run

(* Uploading a file changes the files of the run and nothing else of it.   *)
LEMMA WithFileFacts ==
    ASSUME NEW r \in Run, NEW f \in Files
    PROVE  /\ WithFile(r, f) \in Run
           /\ WithFile(r, f).time = r.time
           /\ WithFile(r, f).date = r.date
           /\ WithFile(r, f).idx = r.idx
           /\ WithFile(r, f).prev = r.prev
           /\ WithFile(r, f).files = r.files \cup {f}
BY DEF WithFile, Run

(* 0-allocate_identifier picks an identifier after those in the bucket.    *)
LEMMA AllocateBucket ==
    ASSUME runs \in Seq(Run), firstRun \in Nat \ {0}, GenTypeOK, BucketInv, Allocate
    PROVE  (GenTypeOK /\ BucketInv)'
<1> DEFINE date == (clock + Cadence) \div 24
           last == runs[Len(runs)]
<1>1. clock \in Nat /\ Cadence \in Nat \ {0} /\ clock' = clock + Cadence /\ Len(runs) \in Nat
  BY GenerateAssumption DEF GenTypeOK, Allocate
<1>2. date \in Nat
  BY <1>1, DivFacts
<1>3. \A n \in 1 .. Len(runs) : runs[n] \in Run
  OBVIOUS
<1>4. \A n \in 1 .. Len(runs) : runs[n].time < clock' /\ runs[n].date <= date
  <2> TAKE n \in 1 .. Len(runs)
  <2>1. runs[n].time <= clock /\ runs[n].date = runs[n].time \div 24
    BY DEF BucketInv
  <2>2. runs[n].time \in Nat
    BY <1>3, RunFacts
  <2> QED
    BY <1>1, <2>1, <2>2, DivFacts
<1>5. runs # <<>> => RunIdentifiers # {} /\ Len(runs) \in 1 .. Len(runs)
  BY <1>1 DEF RunIdentifiers, BucketInv
<1>6. runs = <<>> => RunIdentifiers = {}
  BY DEF RunIdentifiers, BucketInv
<1>7. NextIdx(date) \in Nat
  BY <1>3, <1>5, <1>6, RunFacts DEF NextIdx
<1>8. draft' = [date |-> date, idx |-> NextIdx(date), time |-> clock',
                files |-> {"timestamp"}, prev |-> 0]
  BY <1>1 DEF Allocate
<1>9. draft' \in Run
  BY <1>1, <1>2, <1>7, <1>8 DEF Run, Files
<1>10. ASSUME NEW n \in 1 .. Len(runs), runs[n].date = date PROVE runs[n].idx < NextIdx(date)
  <2>1. runs # <<>> /\ Len(runs) \in 1 .. Len(runs) /\ n \in Nat /\ n <= Len(runs)
    BY <1>1
  <2>2. last \in Run /\ last.date <= date /\ runs[n] \in Run
    BY <1>3, <1>4, <2>1
  <2>3. n = Len(runs) \/ Precedes(runs[n], last)
    BY <1>1, <2>1 DEF BucketInv
  <2>4. last.date = date /\ runs[n].idx <= last.idx
    BY <1>2, <1>10, <2>2, <2>3, RunFacts DEF Precedes
  <2> QED
    BY <1>5, <2>1, <2>2, <2>4, RunFacts DEF NextIdx
<1>11. \A n \in 1 .. Len(runs) : Precedes(runs[n], draft')
  BY <1>4, <1>8, <1>10 DEF Precedes
<1>12. \A n \in 1 .. Len(runs) : runs[n].time <= clock'
  BY <1>1, <1>3, <1>4, RunFacts
<1>13. BucketInv'
  BY <1>1, <1>8, <1>11, <1>12 DEF BucketInv, Pending, Allocate, stores, Precedes
<1> QED
  BY <1>1, <1>9, <1>13 DEF Allocate, GenTypeOK

(* 1-generate_mlbf adds files to the draft; a stash is against the last    *)
(* run in the bucket.                                                      *)
LEMMA GenerateBucket ==
    ASSUME runs \in Seq(Run), firstRun \in Nat \ {0}, GenTypeOK, BucketInv,
           GenerateWithStash \/ GenerateWithoutStash
    PROVE  (GenTypeOK /\ BucketInv)'
<1>1. draft \in Run /\ clock \in Nat
  BY DEF GenTypeOK
<1>2. Len(runs) \in Nat
  OBVIOUS
<1>3. gpc = "allocated" /\ gpc' = "uploading" /\ clock' = clock /\ UNCHANGED <<runs, firstRun>>
  BY DEF GenerateWithStash, GenerateWithoutStash, stores
<1>4. draft.files = {"timestamp"}
  BY <1>3 DEF BucketInv
<1>5. /\ draft' \in Run
      /\ draft'.time = draft.time /\ draft'.date = draft.date /\ draft'.idx = draft.idx
      /\ "timestamp" \in draft'.files
      /\ "stash" \in draft'.files => draft'.prev = Len(runs) /\ Len(runs) >= 1
  <2>1. CASE GenerateWithStash
    <3>1. Len(runs) >= 1
      BY <2>1, <1>2 DEF GenerateWithStash, FileExists
    <3> QED
      BY <2>1, <3>1, <1>1, <1>2, <1>4, Zenon DEF GenerateWithStash, Run, Files
  <2>2. CASE GenerateWithoutStash
    BY <2>2, <1>1, <1>4, Zenon DEF GenerateWithoutStash, Run, Files
  <2> QED
    BY <2>1, <2>2
<1>6. \A n \in 1 .. Len(runs) : Precedes(runs[n], draft')
  BY <1>3, <1>5 DEF BucketInv, Pending, Precedes
<1>7. BucketInv'
  BY <1>3, <1>5, <1>6, Zenon DEF BucketInv, Pending, Precedes
<1> QED
  BY <1>1, <1>3, <1>5, <1>7 DEF GenTypeOK

(* A failed crlite-generate leaves the bucket alone.                       *)
LEMMA GenFaultBucket ==
    ASSUME GenTypeOK, BucketInv, GenFault
    PROVE  (GenTypeOK /\ BucketInv)'
<1>1. NoRun \in Run
  BY DEF NoRun, Run
<1>2. gpc' = "idle" /\ draft' = NoRun /\ clock' = clock /\ UNCHANGED <<runs, firstRun>>
  BY Zenon DEF GenFault, GenerateFails, UploadFails, stores
<1>3. BucketInv'
  BY <1>2 DEF BucketInv, Pending, Precedes
<1> QED
  BY <1>1, <1>2, <1>3, Zenon DEF GenTypeOK

(* The first upload makes the draft the last run of the bucket.            *)
LEMMA UploadTimestampBucket ==
    ASSUME runs \in Seq(Run), firstRun \in Nat \ {0}, GenTypeOK, BucketInv, UploadTimestamp
    PROVE  (runs \in Seq(Run) /\ GenTypeOK /\ BucketInv)'
<1> DEFINE new == [draft EXCEPT !.files = {"timestamp"}]
<1>1. draft \in Run /\ clock \in Nat /\ MaxRuns \in Nat /\ Len(runs) \in Nat
  BY StoresAssumption DEF GenTypeOK
<1>2. /\ new \in Run
      /\ new.time = draft.time /\ new.date = draft.date /\ new.idx = draft.idx
      /\ new.prev = draft.prev /\ new.files = {"timestamp"}
  BY <1>1, Zenon DEF Run, Files
<1>3. runs' = Append(runs, new)
  BY DEF UploadTimestamp
<1> HIDE DEF new
<1>4. /\ runs' \in Seq(Run)
      /\ Len(runs') = Len(runs) + 1
      /\ runs'[Len(runs) + 1] = new
      /\ \A n \in 1 .. Len(runs) : runs'[n] = runs[n]
  BY <1>2, <1>3
<1>5. /\ draft' \in Run
      /\ "timestamp" \notin draft'.files
      /\ "stash" \in draft'.files => "stash" \in draft.files
  BY <1>1, Zenon DEF UploadTimestamp, Run
<1>6. /\ gpc = "uploading" /\ gpc' = "uploading" /\ UNCHANGED <<clock, firstRun>>
      /\ Pending /\ ~Pending'
  BY <1>5 DEF UploadTimestamp, Pending
<1>7. /\ Len(runs) < MaxRuns
      /\ \A n \in 1 .. Len(runs) : Precedes(runs[n], new)
      /\ "stash" \in draft.files => Len(runs) >= 1 /\ new.prev = Len(runs)
      /\ new.time = clock /\ new.date = clock \div 24
  BY <1>2, <1>6 DEF BucketInv, Precedes
<1>8. runs' # <<>> /\ Len(runs') <= MaxRuns /\ firstRun' <= Len(runs')
  <2>1. runs = <<>> \/ firstRun <= Len(runs)
    BY DEF BucketInv
  <2>2. runs = <<>> => firstRun = 1
    BY Zenon DEF BucketInv
  <2> QED
    BY <1>1, <1>4, <1>6, <1>7, <2>1, <2>2
<1>9. \A n \in 1 .. Len(runs') :
        /\ runs'[n].time <= clock'
        /\ runs'[n].date = runs'[n].time \div 24
        /\ "stash" \in runs'[n].files => n > 1 /\ runs'[n].prev = n - 1
  BY <1>1, <1>2, <1>4, <1>6, <1>7 DEF BucketInv
<1>10. \A m, n \in 1 .. Len(runs') : m < n => Precedes(runs'[m], runs'[n])
  <2> SUFFICES ASSUME NEW m \in 1 .. Len(runs'), NEW n \in 1 .. Len(runs'), m < n
               PROVE  Precedes(runs'[m], runs'[n])
    OBVIOUS
  <2>1. m \in 1 .. Len(runs) /\ runs'[m] = runs[m]
    BY <1>1, <1>4
  <2>2. CASE n = Len(runs) + 1
    BY <1>4, <1>7, <2>1, <2>2, Zenon
  <2>3. CASE n \in 1 .. Len(runs)
    BY <1>4, <2>1, <2>3, Zenon DEF BucketInv
  <2> QED
    BY <1>1, <1>4, <2>2, <2>3
<1>11. "stash" \in draft'.files => Len(runs') > 1 /\ runs'[Len(runs')].prev = Len(runs') - 1
  BY <1>1, <1>4, <1>5, <1>7
<1>12. BucketInv'
  BY <1>4, <1>6, <1>8, <1>9, <1>10, <1>11, <1>1 DEF BucketInv, Precedes
<1> QED
  BY <1>1, <1>4, <1>5, <1>6, <1>12, Zenon DEF GenTypeOK

(* What adding one file to the run being uploaded changes.                 *)
LEMMA FileAdded ==
    ASSUME runs \in Seq(Run), Len(runs) >= 1, NEW f \in Files,
           runs' = [runs EXCEPT ![Len(runs)] = WithFile(@, f)]
    PROVE  /\ runs' \in Seq(Run)
           /\ Len(runs') = Len(runs)
           /\ \A n \in 1 .. Len(runs) :
                /\ runs'[n].time = runs[n].time /\ runs'[n].date = runs[n].date
                /\ runs'[n].idx = runs[n].idx /\ runs'[n].prev = runs[n].prev
                /\ runs'[n].files = IF n = Len(runs) THEN runs[n].files \cup {f} ELSE runs[n].files
<1> DEFINE last == runs[Len(runs)]
<1>1. Len(runs) \in Nat /\ Len(runs) \in 1 .. Len(runs) /\ last \in Run
  OBVIOUS
<1>2. WithFile(last, f) \in Run
  BY <1>1, WithFileFacts
<1>3. /\ runs' \in Seq(Run)
      /\ Len(runs') = Len(runs)
      /\ runs'[Len(runs)] = WithFile(last, f)
      /\ \A n \in 1 .. Len(runs) : n # Len(runs) => runs'[n] = runs[n]
  BY <1>1, <1>2
<1>4. ASSUME NEW n \in 1 .. Len(runs)
      PROVE  /\ runs'[n].time = runs[n].time /\ runs'[n].date = runs[n].date
             /\ runs'[n].idx = runs[n].idx /\ runs'[n].prev = runs[n].prev
             /\ runs'[n].files = IF n = Len(runs) THEN runs[n].files \cup {f} ELSE runs[n].files
  <2>1. CASE n = Len(runs)
    <3>1. /\ WithFile(last, f).time = last.time /\ WithFile(last, f).date = last.date
          /\ WithFile(last, f).idx = last.idx /\ WithFile(last, f).prev = last.prev
          /\ WithFile(last, f).files = last.files \cup {f}
      BY <1>1, WithFileFacts, Zenon
    <3>2. runs'[n] = WithFile(last, f) /\ runs[n] = last
      BY <1>3, <2>1, Zenon
    <3> QED
      BY <2>1, <3>1, <3>2, Zenon
  <2>2. CASE n # Len(runs)
    <3>1. runs'[n] = runs[n]
      BY <1>3, <2>2, Zenon
    <3> QED
      BY <2>2, <3>1
  <2> QED
    BY <2>1, <2>2
<1> QED
  BY <1>3, <1>4, Zenon

(* Adding a file to the last run keeps its identifier, its time and its    *)
(* order.                                                                  *)
LEMMA FileAddedBucket ==
    ASSUME runs \in Seq(Run), GenTypeOK, BucketInv, NEW f \in Files,
           gpc = "uploading", "timestamp" \notin draft.files,
           f = "stash" => "stash" \in draft.files,
           Len(runs') = Len(runs),
           \A n \in 1 .. Len(runs) :
                /\ runs'[n].time = runs[n].time /\ runs'[n].date = runs[n].date
                /\ runs'[n].idx = runs[n].idx /\ runs'[n].prev = runs[n].prev
                /\ runs'[n].files = IF n = Len(runs) THEN runs[n].files \cup {f} ELSE runs[n].files,
           runs' \in Seq(Run), draft' \in Run, draft'.files \subseteq draft.files,
           gpc' \in {"idle", "uploading"}, UNCHANGED <<clock, firstRun>>
    PROVE  (GenTypeOK /\ BucketInv)'
<1>1. /\ ~Pending /\ ~Pending' /\ clock \in Nat
      /\ Len(runs) \in Nat /\ Len(runs) >= 1 /\ Len(runs) \in 1 .. Len(runs)
  BY DEF BucketInv, Pending, GenTypeOK
<1>6. \A m, n \in 1 .. Len(runs') : m < n => Precedes(runs'[m], runs'[n])
  BY <1>1, <1>1, ZenonT(30) DEF BucketInv, Precedes
<1>7. \A n \in 1 .. Len(runs') :
        /\ runs'[n].time <= clock'
        /\ runs'[n].date = runs'[n].time \div 24
        /\ "stash" \in runs'[n].files => n > 1 /\ runs'[n].prev = n - 1
  <2> SUFFICES ASSUME NEW n \in 1 .. Len(runs)
               PROVE  /\ runs'[n].time <= clock'
                      /\ runs'[n].date = runs'[n].time \div 24
                      /\ "stash" \in runs'[n].files => n > 1 /\ runs'[n].prev = n - 1
    BY <1>1
  <2>1. runs'[n].time <= clock' /\ runs'[n].date = runs'[n].time \div 24
    BY <1>1, Zenon DEF BucketInv
  <2>2. "stash" \in runs[n].files => n > 1 /\ runs[n].prev = n - 1
    BY DEF BucketInv
  <2>3. f = "stash" => Len(runs) > 1 /\ runs[Len(runs)].prev = Len(runs) - 1
    BY <1>1 DEF BucketInv
  <2> QED
    BY <1>1, <2>1, <2>2, <2>3, Zenon
<1>8. runs' # <<>> /\ firstRun' <= Len(runs') /\ Len(runs') <= MaxRuns
  <2>1. runs # <<>>
    BY <1>1
  <2>2. firstRun <= Len(runs) /\ Len(runs) <= MaxRuns
    BY <2>1 DEF BucketInv
  <2> QED
    BY <1>1, <1>1, <2>2
<1>9. "stash" \in draft'.files => Len(runs') > 1 /\ runs'[Len(runs')].prev = Len(runs') - 1
  <2>1. "stash" \in draft.files => Len(runs) > 1 /\ runs[Len(runs)].prev = Len(runs) - 1
    BY <1>1 DEF BucketInv
  <2> QED
    BY <1>1, <1>1, <1>1, <2>1, Zenon
<1>10. BucketInv'
  BY <1>1, <1>1, <1>6, <1>7, <1>8, <1>9 DEF BucketInv
<1> QED
  BY <1>1, <1>1, <1>10, Zenon DEF GenTypeOK

(* 2-upload_artifacts_to_storage adds the files one by one, the completed  *)
(* marker last.                                                            *)
LEMMA UploadBucket ==
    ASSUME runs \in Seq(Run), GenTypeOK, BucketInv,
           UploadCompleted \/ \E f \in Files : UploadFile(f)
    PROVE  (runs \in Seq(Run) /\ GenTypeOK /\ BucketInv)'
<1>1. PICK f \in Files :
        /\ runs' = [runs EXCEPT ![Len(runs)] = WithFile(@, f)]
        /\ f = "stash" => "stash" \in draft.files
  <2>1. CASE UploadCompleted
    <3>1. "completed" \in Files
      BY DEF Files
    <3> QED
      BY <2>1, <3>1, Zenon DEF UploadCompleted
  <2> QED
    BY <2>1 DEF UploadFile
<1>2. /\ gpc = "uploading" /\ "timestamp" \notin draft.files
      /\ gpc' \in {"idle", "uploading"} /\ UNCHANGED <<clock, firstRun>>
  BY DEF UploadCompleted, UploadFile
<1>3. draft' \in Run /\ draft'.files \subseteq draft.files
  <2>1. NoRun \in Run /\ NoRun.files = {}
    BY DEF NoRun, Run
  <2>2. draft \in Run
    BY DEF GenTypeOK
  <2>3. ASSUME NEW g \in Files, UploadFile(g) PROVE draft' \in Run /\ draft'.files \subseteq draft.files
    BY <2>2, <2>3, Zenon DEF UploadFile, Run
  <2> QED
    BY <2>1, <2>3 DEF UploadCompleted
<1>4. Len(runs) >= 1
  BY <1>2 DEF BucketInv, Pending
<1> QED
  BY <1>1, <1>2, <1>3, <1>4, FileAdded, FileAddedBucket, Zenon

(* Every step leaves the bucket in order, and no run that is there changes *)
(* but for files it gains.                                                 *)
RunsGrow ==
    /\ Len(runs) <= Len(runs')
    /\ \A n \in 1 .. Len(runs) :
         /\ runs'[n].time = runs[n].time
         /\ runs'[n].prev = runs[n].prev
         /\ runs[n].files \subseteq runs'[n].files

(* Every step of crlite-generate keeps the bucket in order.                *)
LEMMA GeneratingBucket ==
    ASSUME StoresTypeOK, GenTypeOK, BucketInv, Generating
    PROVE  (StoresTypeOK /\ GenTypeOK /\ BucketInv)'
<1>1. /\ runs \in Seq(Run) /\ firstRun \in Nat \ {0}
      /\ UNCHANGED <<firstRun, records, replica, status, signed>>
  BY DEF StoresTypeOK, Generating, GenStep, GenFault, Allocate, GenerateWithStash,
         GenerateWithoutStash, GenerateFails, UploadTimestamp, UploadFile, UploadCompleted,
         UploadFails, stores
<1>2. (runs \in Seq(Run) /\ GenTypeOK /\ BucketInv)'
  <2>1. CASE Allocate
    BY <1>1, <2>1, AllocateBucket DEF Allocate, stores
  <2>2. CASE GenerateWithStash \/ GenerateWithoutStash
    BY <1>1, <2>2, GenerateBucket, Zenon DEF GenerateWithStash, GenerateWithoutStash, stores
  <2>3. CASE GenFault
    BY <1>1, <2>3, GenFaultBucket DEF GenFault, GenerateFails, UploadFails, stores
  <2>4. CASE UploadTimestamp
    BY <1>1, <2>4, UploadTimestampBucket
  <2>5. CASE UploadCompleted \/ \E f \in Files : UploadFile(f)
    BY <1>1, <2>5, UploadBucket, Zenon
  <2> QED
    BY <2>1, <2>2, <2>3, <2>4, <2>5, Zenon DEF Generating, GenStep
<1> QED
  BY <1>1, <1>2, Zenon DEF StoresTypeOK

(* No step of crlite-generate removes a run or one of its files.           *)
LEMMA GeneratingGrows ==
    ASSUME StoresTypeOK, GenTypeOK, BucketInv, Generating
    PROVE  RunsGrow
<1>1. runs \in Seq(Run) /\ draft \in Run
  BY DEF StoresTypeOK, GenTypeOK
<1>2. CASE UNCHANGED runs
  BY <1>1, <1>2 DEF RunsGrow
<1>3. CASE UploadTimestamp
  <2>1. [draft EXCEPT !.files = {"timestamp"}] \in Run
    BY <1>1, Zenon DEF Run, Files
  <2> QED
    BY <1>1, <1>3, <2>1 DEF RunsGrow, UploadTimestamp
<1>4. ASSUME NEW f \in Files, runs' = [runs EXCEPT ![Len(runs)] = WithFile(@, f)], Len(runs) >= 1
      PROVE  RunsGrow
  <2>1. /\ Len(runs') = Len(runs)
        /\ \A n \in 1 .. Len(runs) :
             /\ runs'[n].time = runs[n].time /\ runs'[n].prev = runs[n].prev
             /\ runs'[n].files = IF n = Len(runs) THEN runs[n].files \cup {f} ELSE runs[n].files
    BY <1>1, <1>4, FileAdded, Zenon
  <2>2. Len(runs) <= Len(runs')
    BY <1>1, <2>1
  <2>3. \A n \in 1 .. Len(runs) : runs[n].files \subseteq runs'[n].files
    BY <2>1, Zenon
  <2> QED
    BY <2>1, <2>2, <2>3, Zenon DEF RunsGrow
<1>5. gpc = "uploading" /\ "timestamp" \notin draft.files => Len(runs) >= 1
  BY DEF BucketInv, Pending
<1>6. CASE UploadCompleted \/ \E f \in Files : UploadFile(f)
  <2>1. "completed" \in Files
    BY DEF Files
  <2> QED
    BY <1>4, <1>5, <1>6, <2>1 DEF UploadCompleted, UploadFile
<1> QED
  BY <1>2, <1>3, <1>6 DEF Generating, GenStep, GenFault, Allocate, GenerateWithStash,
         GenerateWithoutStash, GenerateFails, UploadFails, stores

(* Replication and the retention of the bucket keep it in order.           *)
LEMMA EnvironmentBucket ==
    ASSUME StoresTypeOK, GenTypeOK, BucketInv, Environment
    PROVE  (StoresTypeOK /\ GenTypeOK /\ BucketInv)' /\ RunsGrow
<1>1. /\ runs \in Seq(Run) /\ firstRun \in Nat \ {0} /\ Len(runs) \in Nat
      /\ UNCHANGED <<runs, records, status, signed, genVars>>
  BY DEF StoresTypeOK, Environment, Sync, ExpireRun
<1>2. CASE Sync
  BY <1>1, <1>2, BucketUnchanged DEF Sync, StoresTypeOK, GenTypeOK, RunsGrow, genVars
<1>3. CASE ExpireRun
  <2>1. firstRun' \in Nat \ {0} /\ firstRun' <= Len(runs) /\ runs # <<>>
    BY <1>1, <1>3 DEF ExpireRun
  <2>2. BucketInv'
    BY <1>1, <2>1 DEF BucketInv, Pending, Precedes, genVars
  <2> QED
    BY <1>1, <1>3, <2>1, <2>2 DEF ExpireRun, StoresTypeOK, GenTypeOK, RunsGrow, genVars
<1> QED
  BY <1>2, <1>3 DEF Environment

-----------------------------------------------------------------------------
(* Intervals of runs and the last of a set of records.                     *)

(* A set of natural numbers that is not empty has a minimum.               *)
LEMMA HasMinimum ==
    ASSUME NEW S, S \subseteq Nat, S # {}
    PROVE  \E m \in S : \A n \in S : m <= n
<1>1. PICK x \in S : \A y \in S : ~(<<y, x>> \in OpToRel(<, Nat))
  BY WFMin, NatLessThanWellFounded, Zenon
<1>2. \A y \in S : ~(y < x)
  BY <1>1, Zenon DEF OpToRel
<1> QED
  BY <1>2

(* The first and the last run of an interval.                              *)
LEMMA IntervalEnds ==
    ASSUME NEW a \in Nat, NEW b \in Nat, a <= b
    PROVE  First(a .. b) = a /\ Last(a .. b) = b
<1>1. \E r \in a .. b : \A q \in a .. b : r <= q
  OBVIOUS
<1>2. First(a .. b) \in a .. b /\ \A q \in a .. b : First(a .. b) <= q
  BY <1>1 DEF First
<1>3. \E r \in a .. b : \A q \in a .. b : q <= r
  OBVIOUS
<1>4. Last(a .. b) \in a .. b /\ \A q \in a .. b : q <= Last(a .. b)
  BY <1>3 DEF Last
<1> QED
  BY <1>2, <1>4

(* An interval of runs holds its ends and all that is between them.        *)
LEMMA IntervalFacts ==
    ASSUME NEW R, Interval(R), Len(runs) \in Nat, Len(runs) <= MaxRuns
    PROVE  /\ R \subseteq 1 .. Len(runs) /\ R \subseteq 1 .. MaxRuns
           /\ First(R) \in R /\ Last(R) \in R
           /\ \A n \in R : First(R) <= n /\ n <= Last(R)
           /\ \A n \in R : n # Last(R) => n + 1 \in R
<1>1. PICK a \in 1 .. Len(runs), b \in 1 .. Len(runs) : a <= b /\ R = a .. b
  BY DEF Interval
<1>2. First(R) = a /\ Last(R) = b
  BY <1>1, IntervalEnds
<1> QED
  BY <1>1, <1>2, StoresAssumption

(* The runs after the first match are the rest of the listing.             *)
LEMMA UnpublishedInterval ==
    ASSUME Interval(listed), Len(runs) \in Nat, Len(runs) <= MaxRuns, Unpublished # {}
    PROVE  /\ Interval(Unpublished) /\ Last(Unpublished) = Last(listed)
           /\ First(Unpublished) - 1 \in PublishedMatches
           /\ \A m \in PublishedMatches : First(Unpublished) - 1 <= m
<1>1. PICK a \in 1 .. Len(runs), b \in 1 .. Len(runs) : a <= b /\ listed = a .. b
  BY DEF Interval
<1> HIDE DEF PublishedMatches
<1>2. PublishedMatches \subseteq a .. b
  BY <1>1 DEF PublishedMatches
<1>3. PublishedMatches # {}
  BY DEF Unpublished
<1>4. PICK m \in PublishedMatches : \A n \in PublishedMatches : m <= n
  <2>1. PublishedMatches \subseteq Nat
    BY <1>2
  <2> QED
    BY <2>1, <1>3, HasMinimum, Zenon
<1>5. m \in Nat /\ m >= a /\ m <= b
  BY <1>2
<1>6. Unpublished = (m + 1) .. b
  BY <1>1, <1>2, <1>4, <1>5 DEF Unpublished
<1>7. m + 1 <= b
  BY <1>5, <1>6
<1>8. First(Unpublished) = m + 1 /\ Last(Unpublished) = b /\ Last(listed) = b
  BY <1>1, <1>5, <1>6, <1>7, IntervalEnds
<1>9. Interval(Unpublished)
  BY <1>5, <1>6, <1>7 DEF Interval
<1> QED
  BY <1>4, <1>5, <1>8, <1>9

(* The types of the fields of a record.                                    *)
LEMMA RecordFacts ==
    ASSUME NEW r \in Record
    PROVE  r.id \in Ids /\ r.run \in 1 .. MaxRuns /\ r.incremental \in BOOLEAN
           /\ r.attached \in BOOLEAN /\ r.parent \in Ids \cup {NoParent}
BY DEF Record

(* Runs come in the order of their times.                                  *)
LEMMA TimeOrder ==
    ASSUME runs \in Seq(Run), BucketInv, NEW m \in 1 .. Len(runs), NEW n \in 1 .. Len(runs)
    PROVE  /\ runs[m].time \in Nat
           /\ m <= n <=> runs[m].time <= runs[n].time
           /\ m = n <=> runs[m].time = runs[n].time
<1>1. runs[m] \in Run /\ runs[n] \in Run /\ Len(runs) \in Nat
  OBVIOUS
<1>2. runs[m].time \in Nat /\ runs[n].time \in Nat
  BY <1>1, RunFacts, Zenon
<1>3. m < n => runs[m].time < runs[n].time
  BY Zenon DEF BucketInv, Precedes
<1>4. n < m => runs[n].time < runs[m].time
  BY DEF BucketInv, Precedes
<1> QED
  BY <1>2, <1>3, <1>4

(* existing_records[-1] is of the latest run, and the filter of that run   *)
(* if there is one.                                                        *)
LEMMA LastRecordFacts ==
    ASSUME runs \in Seq(Run), BucketInv, NEW S, S \subseteq Record, Stored(S), S # {}
    PROVE  /\ LastRecord(S) \in S
           /\ \A r \in S : r.run <= LastRecord(S).run
<1> DEFINE N == {r.run : r \in S}
<1>1. \A r \in S : r.run \in 1 .. Len(runs) /\ r.incremental \in BOOLEAN
  BY RecordFacts DEF Stored
<1>2. Len(runs) \in Nat /\ N \subseteq 0 .. Len(runs) /\ N # {}
  BY <1>1
<1>3. PICK m \in N : \A n \in N : n <= m
  BY <1>2, HasMaximum, Zenon
<1>4. \A r \in S : r.run <= m
  BY <1>3
<1>5. \E l \in S : l.run = m /\ (IsFilter(l) \/ \A r \in S : r.run = m => ~IsFilter(r))
  BY <1>3
<1>6. \E l \in S : \A q \in S : ~Before(l, q)
  <2>1. PICK l \in S : l.run = m /\ (IsFilter(l) \/ \A r \in S : r.run = m => ~IsFilter(r))
    BY <1>5
  <2>2. ASSUME NEW q \in S PROVE ~Before(l, q)
    <3>1. q.run \in 1 .. Len(runs) /\ l.run \in 1 .. Len(runs) /\ q.run <= l.run
      BY <1>1, <1>4, <2>1, Zenon
    <3>2. /\ runs[q.run].time <= runs[l.run].time
          /\ runs[q.run].time = runs[l.run].time => q.run = m
          /\ runs[q.run].time \in Nat /\ runs[l.run].time \in Nat
      BY <2>1, <3>1, TimeOrder, Zenon
    <3> QED
      BY <2>1, <3>2 DEF Before, Time, IsFilter
  <2> QED
    BY <2>1, <2>2
<1>7. LastRecord(S) \in S /\ \A q \in S : ~Before(LastRecord(S), q)
  BY <1>6, Zenon DEF LastRecord
<1>8. ASSUME NEW q \in S PROVE q.run <= LastRecord(S).run
  <2>1. q.run \in 1 .. Len(runs) /\ LastRecord(S).run \in 1 .. Len(runs)
    BY <1>1, <1>7, Zenon
  <2>2. ~(Time(LastRecord(S)) < Time(q))
    BY <1>7, Zenon DEF Before
  <2>3. /\ runs[q.run].time \in Nat /\ runs[LastRecord(S).run].time \in Nat
        /\ q.run <= LastRecord(S).run <=> runs[q.run].time <= runs[LastRecord(S).run].time
    BY <2>1, TimeOrder, Zenon
  <2> QED
    BY <2>2, <2>3 DEF Time
<1> QED
  BY <1>7, <1>8, Zenon

-----------------------------------------------------------------------------
(* ShapeInv is inductive.                                                  *)

(* ShapeInv holds at first.                                                *)
LEMMA ShapeInit == Init => ShapeInv
<1> SUFFICES ASSUME Init PROVE ShapeInv
  OBVIOUS
<1>1. StoresTypeOK
  BY DEF Init, StoresInit, StoresTypeOK, Statuses
<1>2. GenTypeOK
  BY DEF Init, GenInit, GenTypeOK, NoRun, Run
<1>3. PubTypeOK
  <2>1. 0 \in 0 .. MaxRuns
    BY StoresAssumption
  <2> QED
    BY <2>1, Zenon DEF Init, PubInit, PubTypeOK, PubStates
<1>4. SignoffTypeOK
  BY DEF Init, SignoffInit, SignoffTypeOK
<1>5. calm \in BOOLEAN
  BY Zenon DEF Init
<1>6. Stored(records) /\ Stored(replica) /\ Stored(existing) /\ Stored(signed)
  BY DEF Init, StoresInit, PubInit, Stored
<1>7. JobShape
  BY DEF Init, PubInit, JobShape
<1> QED
  BY <1>1, <1>2, <1>3, <1>4, <1>5, <1>6, <1>7, BucketInit DEF ShapeInv, TypeOK

(* Steps that leave the publisher alone.                                   *)
LEMMA ShapeGrows ==
    ASSUME Stored(records), Stored(replica), Stored(existing), Stored(signed), JobShape,
           PubTypeOK, RunsGrow, runs \in Seq(Run), runs' \in Seq(Run),
           records' = records, signed' = signed, replica' \in {records, replica},
           UNCHANGED pubVars
    PROVE  (Stored(records) /\ Stored(replica) /\ Stored(existing) /\ Stored(signed) /\ JobShape)'
<1>1. \A n \in 1 .. Len(runs) : n \in 1 .. Len(runs') /\ runs[n].files \subseteq runs'[n].files
  <2>1. Len(runs) \in Nat /\ Len(runs') \in Nat /\ Len(runs) <= Len(runs')
    BY DEF RunsGrow
  <2>2. \A n \in 1 .. Len(runs) : runs[n].files \subseteq runs'[n].files
    BY Zenon DEF RunsGrow
  <2> QED
    BY <2>1, <2>2
<1>2. (Stored(records) /\ Stored(replica) /\ Stored(existing) /\ Stored(signed))'
  BY <1>1, Zenon DEF Stored, pubVars
<1>3. Interval(listed) => Interval(listed)'
  BY <1>1 DEF Interval, pubVars
<1>4. Interval(upload) => Interval(upload)' /\ upload \subseteq 1 .. Len(runs)
  BY <1>1 DEF Interval, pubVars
<1>5. Interval(upload) /\ Downloaded(upload) => Downloaded(upload)'
  BY <1>1, <1>4, Zenon DEF Downloaded, pubVars
<1>6. Interval(upload) /\ Downloaded({n \in upload : n < at}) => Downloaded({n \in upload : n < at})'
  BY <1>1, <1>4 DEF Downloaded, pubVars
<1>7. UNCHANGED <<ppc, listed, upload, at>>
  BY Zenon DEF pubVars
<1>8. JobShape'
  BY <1>3, <1>4, <1>5, <1>6, <1>7, Zenon DEF JobShape
<1> QED
  BY <1>2, <1>8

(* A publishing job that ends forgets all it knew.                         *)
LEMMA JobEndsShape == JobEnds => PubTypeOK' /\ JobShape' /\ Stored(existing)'
<1>1. 0 \in 0 .. MaxRuns
  BY StoresAssumption
<1> QED
  BY <1>1, Zenon DEF JobEnds, PubTypeOK, PubStates, JobShape, Stored

(* Steps of the job that do not write to the collection.                   *)
LEMMA ReadingShape ==
    ASSUME ShapeInv, UNCHANGED stores,
           \/ ReadRecords \/ ClearDone \/ ListRuns \/ DetermineStartOver \/ DetermineAdd
           \/ DetermineKeyError \/ Measure \/ DownloadStash \/ Decide \/ DownloadTimesOut
           \/ AttachRefused \/ JobDies
    PROVE  PubTypeOK' /\ JobShape' /\ Stored(existing)'
<1>1. /\ PubTypeOK /\ JobShape /\ Stored(existing) /\ Stored(records) /\ Stored(replica)
      /\ BucketInv /\ runs \in Seq(Run) /\ firstRun \in Nat \ {0}
      /\ records \subseteq Record /\ replica \subseteq Record /\ existing \subseteq Record
  BY Zenon DEF ShapeInv, TypeOK, StoresTypeOK, PubTypeOK
<1>2. Len(runs) \in Nat /\ Len(runs) <= MaxRuns /\ MaxRuns \in Nat
  BY <1>1, StoresAssumption DEF BucketInv
<1>3. UNCHANGED <<runs, records>>
  BY DEF stores
<1>4. CASE JobEnds
  BY <1>4, JobEndsShape
<1>5. CASE ReadRecords
  <2>1. ReadOnlyView \subseteq Record /\ Stored(ReadOnlyView)
    BY <1>1 DEF ReadOnlyView
  <2>2. existing' \in {ReadOnlyView, {}} /\ ppc' \in {"list", "clearInsane"}
    BY <1>5 DEF ReadRecords
  <2>3. UNCHANGED <<listed, clearAll, upload, at, previousId>>
    BY <1>5, Zenon DEF ReadRecords
  <2>4. existing' \subseteq Record /\ Stored(existing)'
    BY <1>3, <2>1, <2>2 DEF Stored
  <2>5. PubTypeOK'
    BY <1>1, <2>2, <2>3, <2>4, Zenon DEF PubTypeOK, PubStates
  <2>6. JobShape'
    BY <2>2, Zenon DEF JobShape
  <2> QED
    BY <2>4, <2>5, <2>6
<1>6. CASE ClearDone
  <2>1. UNCHANGED <<existing, listed, clearAll, upload, at, previousId>>
    BY <1>6 DEF ClearDone
  <2>2. \/ ppc = "clearInsane" /\ ppc' = "list"
        \/ ppc = "clear" /\ ppc' = "measure"
        \/ ppc = "clearFull" /\ ppc' = "createFull"
    BY <1>6 DEF ClearDone
  <2>3. PubTypeOK'
    BY <1>1, <2>1, <2>2, Zenon DEF PubTypeOK, PubStates
  <2>4. JobShape'
    BY <1>1, <1>3, <2>1, <2>2, Zenon DEF JobShape, Interval, Downloaded
  <2> QED
    BY <1>1, <1>3, <2>1, <2>3, <2>4, Zenon DEF Stored
<1>7. CASE ListRuns /\ ~JobEnds
  <2>1. /\ RunIdentifiers # {} /\ listed' = RunIdentifiers /\ ppc' = "determine"
        /\ UNCHANGED <<existing, clearAll, upload, at, previousId>>
    BY <1>7 DEF ListRuns
  <2>2. firstRun \in 1 .. Len(runs) /\ Len(runs) \in 1 .. Len(runs) /\ firstRun <= Len(runs)
    BY <1>1, <1>2, <2>1 DEF RunIdentifiers
  <2>3. listed' \subseteq 1 .. MaxRuns /\ Interval(listed)'
    BY <1>2, <1>3, <2>1, <2>2 DEF RunIdentifiers, Interval
  <2>4. PubTypeOK'
    BY <1>1, <2>1, <2>3, Zenon DEF PubTypeOK, PubStates
  <2>5. JobShape'
    BY <2>1, <2>3, Zenon DEF JobShape
  <2> QED
    BY <1>1, <1>3, <2>1, <2>4, <2>5, Zenon DEF Stored
<1>8. CASE DetermineStartOver
  <2>1. /\ ppc = "determine" /\ ppc' = "clear" /\ clearAll' = TRUE /\ upload' = {Last(listed)}
        /\ UNCHANGED <<existing, listed, at, previousId>>
    BY <1>8, Zenon DEF DetermineStartOver
  <2>2. Last(listed) \in 1 .. Len(runs)
    BY <1>1, <1>2, <2>1, IntervalFacts, Zenon DEF JobShape
  <2>3. upload' = Last(listed) .. Last(listed)
    BY <2>1, <2>2
  <2>4. upload' \subseteq 1 .. MaxRuns /\ Interval(upload)'
    BY <1>2, <1>3, <2>2, <2>3 DEF Interval
  <2>5. PubTypeOK'
    BY <1>1, <2>1, <2>4, Zenon DEF PubTypeOK, PubStates
  <2>6. JobShape'
    BY <2>1, <2>4, Zenon DEF JobShape
  <2> QED
    BY <1>1, <1>3, <2>1, <2>5, <2>6, Zenon DEF Stored
<1>9. CASE DetermineAdd
  <2>1. /\ ppc = "determine" /\ upload' = Unpublished
        /\ ppc' = IF Unpublished = {} THEN "review" ELSE "measure"
        /\ UNCHANGED <<existing, listed, clearAll, at, previousId>>
    BY <1>9, Zenon DEF DetermineAdd
  <2>2. Interval(listed)
    BY <1>1, <2>1, Zenon DEF JobShape
  <2>3. Unpublished # {} => Interval(Unpublished) /\ Unpublished \subseteq 1 .. MaxRuns
    BY <1>2, <2>2, UnpublishedInterval, IntervalFacts, Zenon
  <2>4. PubTypeOK'
    BY <1>1, <2>1, <2>3, Zenon DEF PubTypeOK, PubStates
  <2>5. Unpublished # {} => Interval(upload)'
    BY <1>3, <2>1, <2>3, Zenon DEF Interval
  <2>6. JobShape'
    BY <2>1, <2>5, Zenon DEF JobShape
  <2> QED
    BY <1>1, <1>3, <2>1, <2>4, <2>6, Zenon DEF Stored
<1>10. CASE Measure /\ ~JobEnds
  <2>1. /\ ppc = "measure" /\ ppc' = "download" /\ at' = First(upload)
        /\ UNCHANGED <<existing, listed, clearAll, upload, previousId>>
    BY <1>10, Zenon DEF Measure
  <2>2. Interval(upload)
    BY <1>1, <2>1, Zenon DEF JobShape
  <2>3. at' \in upload /\ at' \in 0 .. MaxRuns /\ {n \in upload : n < at'} = {}
    BY <1>2, <2>1, <2>2, IntervalFacts
  <2>4. PubTypeOK'
    BY <1>1, <2>1, <2>3, Zenon DEF PubTypeOK, PubStates
  <2>5. JobShape'
    BY <1>3, <2>1, <2>2, <2>3, Zenon DEF JobShape, Interval, Downloaded
  <2> QED
    BY <1>1, <1>3, <2>1, <2>4, <2>5, Zenon DEF Stored
<1>11. CASE DownloadStash
  <2>1. /\ ppc = "download" /\ UNCHANGED <<existing, listed, clearAll, upload, previousId>>
        /\ \/ at = Last(upload) /\ ppc' = "decide" /\ at' = at
           \/ at # Last(upload) /\ ppc' = ppc /\ at' = at + 1
    BY <1>11, Zenon DEF DownloadStash
  <2>2. Interval(upload) /\ at \in upload /\ Downloaded({n \in upload : n < at})
    BY <1>1, <2>1, Zenon DEF JobShape
  <2>3. /\ upload \subseteq 1 .. Len(runs) /\ \A n \in upload : n <= Last(upload)
        /\ \A n \in upload : n # Last(upload) => n + 1 \in upload
    BY <1>2, <2>2, IntervalFacts, Zenon
  <2>4. {"stash", "completed"} \subseteq runs[at].files
    BY <1>11 DEF DownloadStash, FileExists
  <2>5. at' \in upload /\ at' \in 0 .. MaxRuns
    <3>1. at' \in upload
      BY <2>1, <2>2, <2>3, Zenon
    <3> QED
      BY <1>2, <2>3, <3>1
  <2>6. Downloaded({n \in upload : n <= at})
    <3>1. \A n \in upload : n <= at => n < at \/ n = at
      BY <1>2, <2>2, <2>3
    <3> QED
      BY <2>2, <2>4, <3>1, Zenon DEF Downloaded
  <2>7. at = Last(upload) => Downloaded(upload)
    BY <2>3, <2>6, Zenon DEF Downloaded
  <2>8. at # Last(upload) => Downloaded({n \in upload : n < at + 1})
    <3>1. \A n \in upload : n < at + 1 => n <= at
      BY <1>2, <2>2, <2>3
    <3> QED
      BY <2>6, <3>1, Zenon DEF Downloaded
  <2>9. PubTypeOK'
    BY <1>1, <2>1, <2>5, Zenon DEF PubTypeOK, PubStates
  <2>10. JobShape'
    BY <1>3, <2>1, <2>2, <2>5, <2>7, <2>8, Zenon DEF JobShape, Interval, Downloaded
  <2> QED
    BY <1>1, <1>3, <2>1, <2>9, <2>10, Zenon DEF Stored
<1>12. CASE Decide
  <2>1. /\ ppc = "decide" /\ UNCHANGED <<existing, listed, clearAll, upload>>
        /\ \/ ppc' = "clearFull" /\ at' = at /\ previousId' = previousId
           \/ /\ ppc' = "stash" /\ at' = First(upload) /\ existing # {}
              /\ previousId' = LastRecord(existing).id
    BY <1>12, Zenon DEF Decide, NeedsFull
  <2>2. Interval(upload) /\ Downloaded(upload)
    BY <1>1, <2>1, Zenon DEF JobShape
  <2>3. First(upload) \in upload /\ First(upload) \in 0 .. MaxRuns
    BY <1>2, <2>2, IntervalFacts
  <2>4. existing # {} => LastRecord(existing).id \in Ids
    BY <1>1, LastRecordFacts, RecordFacts, Zenon
  <2>5. PubTypeOK'
    BY <1>1, <2>1, <2>3, <2>4, Zenon DEF PubTypeOK, PubStates
  <2>6. JobShape'
    BY <1>3, <2>1, <2>2, <2>3, Zenon DEF JobShape, Interval, Downloaded
  <2> QED
    BY <1>1, <1>3, <2>1, <2>5, <2>6, Zenon DEF Stored
<1>13. CASE AttachRefused
  <2>1. ppc' = "dropRecord" /\ UNCHANGED <<existing, listed, clearAll, upload, at, previousId>>
    BY <1>13 DEF AttachRefused
  <2>2. PubTypeOK'
    BY <1>1, <2>1, Zenon DEF PubTypeOK, PubStates
  <2> QED
    BY <1>1, <1>3, <2>1, <2>2, Zenon DEF Stored, JobShape
<1> QED
  BY <1>4, <1>5, <1>6, <1>7, <1>8, <1>9, <1>10, <1>11, <1>12, <1>13, Zenon
  DEF DetermineKeyError, DownloadTimesOut, JobDies

(* Steps of the job that write to the collection.                          *)
LEMMA WritingShape ==
    ASSUME ShapeInv, UNCHANGED runs,
           \/ ClearRecord \/ CreateFull \/ CreateStash \/ AttachFull \/ AttachStash
           \/ DropRecord \/ RequestReview
    PROVE  /\ (records \subseteq Record)' /\ status' \in Statuses /\ Stored(records)'
           /\ PubTypeOK' /\ JobShape' /\ Stored(existing)'
<1>1. /\ PubTypeOK /\ JobShape /\ Stored(existing) /\ Stored(records)
      /\ BucketInv /\ runs \in Seq(Run) /\ records \subseteq Record /\ status \in Statuses
  BY Zenon DEF ShapeInv, TypeOK, StoresTypeOK
<1>2. Len(runs) \in Nat /\ Len(runs) <= MaxRuns /\ MaxRuns \in Nat
  BY <1>1, StoresAssumption DEF BucketInv
<1>3. existing' = existing => Stored(existing)'
  BY <1>1, Zenon DEF Stored
<1>4. records' \subseteq records => (records \subseteq Record)' /\ Stored(records)'
  BY <1>1, Zenon DEF Stored
<1>5. CASE ClearRecord
  <2>1. records' \subseteq records /\ status' \in Statuses /\ UNCHANGED pubVars
    BY <1>5, Zenon DEF ClearRecord, WriteRecords, Statuses
  <2>2. PubTypeOK' /\ JobShape'
    BY <1>1, <2>1, Zenon DEF PubTypeOK, JobShape, pubVars, Interval, Downloaded
  <2> QED
    BY <1>3, <1>4, <2>1, <2>2, Zenon DEF pubVars
<1>6. ASSUME NEW run \in 1 .. MaxRuns, NEW inc \in BOOLEAN, NEW parent \in Ids \cup {NoParent},
             CreateRecord(run, inc, parent),
             run \in 1 .. Len(runs), {"stash", "completed"} \subseteq runs[run].files
      PROVE  /\ (records \subseteq Record)' /\ status' \in Statuses /\ Stored(records)'
             /\ previousId' \in Ids \cup {NoParent}
  <2> DEFINE rec == [id |-> FreshId, run |-> run, incremental |-> inc,
                     parent |-> parent, attached |-> FALSE]
  <2>1. /\ FreshId \in Ids /\ records' = records \cup {rec} /\ status' \in Statuses
        /\ previousId' = FreshId
    BY <1>6, Zenon DEF CreateRecord, WriteRecords, Statuses
  <2>2. rec \in Record /\ rec.run = run
    BY <2>1, Zenon DEF Record
  <2> HIDE DEF rec
  <2>3. (records \subseteq Record)' /\ Stored(records)'
    BY <1>1, <1>6, <2>1, <2>2, Zenon DEF Stored
  <2> QED
    BY <2>1, <2>3, Zenon
<1>7. CASE CreateFull
  <2>1. /\ ppc = "createFull" /\ ppc' = "attachFull" /\ CreateRecord(Last(upload), FALSE, NoParent)
        /\ UNCHANGED <<existing, listed, clearAll, upload, at>>
    BY <1>7, Zenon DEF CreateFull
  <2>2. Interval(upload) /\ Downloaded(upload)
    BY <1>1, <2>1 DEF JobShape
  <2>3. /\ Last(upload) \in 1 .. MaxRuns /\ Last(upload) \in 1 .. Len(runs)
        /\ {"stash", "completed"} \subseteq runs[Last(upload)].files
    BY <1>2, <2>2, IntervalFacts, Zenon DEF Downloaded
  <2>4. /\ (records \subseteq Record)' /\ status' \in Statuses /\ Stored(records)'
        /\ previousId' \in Ids \cup {NoParent}
    BY <1>6, <2>1, <2>3, Zenon
  <2>5. PubTypeOK'
    BY <1>1, <2>1, <2>4, Zenon DEF PubTypeOK, PubStates
  <2>6. JobShape'
    BY <2>1, <2>2 DEF JobShape, Interval, Downloaded
  <2> QED
    BY <1>3, <2>1, <2>4, <2>5, <2>6, Zenon
<1>8. CASE CreateStash
  <2>1. /\ ppc = "stash" /\ ppc' = "attachStash" /\ CreateRecord(at, TRUE, previousId)
        /\ UNCHANGED <<existing, listed, clearAll, upload, at>>
    BY <1>8, Zenon DEF CreateStash
  <2>2. Interval(upload) /\ Downloaded(upload) /\ at \in upload
    BY <1>1, <2>1 DEF JobShape
  <2>3. /\ at \in 1 .. MaxRuns /\ at \in 1 .. Len(runs)
        /\ {"stash", "completed"} \subseteq runs[at].files
    BY <1>2, <2>2, IntervalFacts, Zenon DEF Downloaded
  <2>4. previousId \in Ids \cup {NoParent}
    BY <1>1, Zenon DEF PubTypeOK
  <2>5. /\ (records \subseteq Record)' /\ status' \in Statuses /\ Stored(records)'
        /\ previousId' \in Ids \cup {NoParent}
    BY <1>6, <2>1, <2>3, <2>4, Zenon
  <2>6. PubTypeOK'
    BY <1>1, <2>1, <2>5, Zenon DEF PubTypeOK, PubStates
  <2>7. JobShape'
    BY <2>1, <2>2 DEF JobShape, Interval, Downloaded
  <2> QED
    BY <1>3, <2>1, <2>5, <2>6, <2>7
<1>9. CASE AttachFull \/ AttachStash
  <2>1. AttachFile /\ UNCHANGED <<existing, listed, clearAll, upload, previousId>>
    BY <1>9, Zenon DEF AttachFull, AttachStash
  <2>2. \/ ppc' = "review" /\ at' = at
        \/ ppc = "attachStash" /\ ppc' = "stash" /\ at # Last(upload) /\ at' = at + 1
    BY <1>9 DEF AttachFull, AttachStash
  <2>3. ASSUME NEW r \in records'
        PROVE  \E q \in records : r \in Record /\ r.run = q.run /\ r.incremental = q.incremental
    <3>1. PICK q \in records : r = IF q.id = previousId THEN [q EXCEPT !.attached = TRUE] ELSE q
      BY <2>1, <2>3, Zenon DEF AttachFile, WriteRecords
    <3>2. [q EXCEPT !.attached = TRUE] \in Record
      BY <1>1, Zenon DEF Record
    <3>3. /\ [q EXCEPT !.attached = TRUE].run = q.run
          /\ [q EXCEPT !.attached = TRUE].incremental = q.incremental
      BY <1>1 DEF Record
    <3> QED
      BY <1>1, <3>1, <3>2, <3>3, Zenon
  <2>4. (records \subseteq Record)' /\ Stored(records)'
    BY <1>1, <2>3 DEF Stored
  <2>5. status' \in Statuses
    BY <2>1, Zenon DEF AttachFile, WriteRecords, Statuses
  <2>6. ppc = "attachStash" => Interval(upload) /\ at \in upload /\ Downloaded(upload)
    BY <1>1, Zenon DEF JobShape
  <2>7. ppc = "attachStash" /\ at # Last(upload) => at + 1 \in upload /\ at + 1 \in 0 .. MaxRuns
    <3>1. ppc = "attachStash" => /\ upload \subseteq 1 .. MaxRuns
                                 /\ \A n \in upload : n # Last(upload) => n + 1 \in upload
      BY <1>2, <2>6, IntervalFacts, Zenon
    <3> QED
      BY <1>2, <2>6, <3>1
  <2>8. PubTypeOK'
    BY <1>1, <2>1, <2>2, <2>7, Zenon DEF PubTypeOK, PubStates
  <2>9. JobShape'
    BY <2>1, <2>2, <2>6, <2>7, Zenon DEF JobShape, Interval, Downloaded
  <2> QED
    BY <1>3, <2>1, <2>4, <2>5, <2>8, <2>9
<1>10. CASE DropRecord
  BY <1>4, <1>10, JobEndsShape, Zenon DEF DropRecord, WriteRecords, Statuses
<1>11. CASE RequestReview
  BY <1>1, <1>4, <1>11, JobEndsShape, Zenon DEF RequestReview, Statuses
<1> QED
  BY <1>5, <1>7, <1>8, <1>9, <1>10, <1>11, Zenon

(* Every step of crlite-publish, failures included, keeps ShapeInv.        *)
LEMMA PublishingShape ==
    ASSUME ShapeInv, Publishing
    PROVE  ShapeInv'
<1>1. UNCHANGED <<runs, firstRun, genVars>>
  BY PublishingFrame, Zenon
<1>2. UNCHANGED <<replica, signed, signVars, calm>>
  BY Zenon DEF Publishing, PubStep, PubFault, ReadRecords, ClearRecord, ClearDone, ListRuns,
       DetermineStartOver, DetermineAdd, DetermineKeyError, Measure, DownloadStash, Decide,
       DownloadTimesOut, CreateFull, CreateStash, AttachFull, AttachStash, AttachRefused,
       DropRecord, RequestReview, JobDies, stores
<1>3. BucketInv'
  BY <1>1, BucketUnchanged DEF ShapeInv
<1>4. /\ (records \subseteq Record)' /\ status' \in Statuses /\ Stored(records)'
      /\ PubTypeOK' /\ JobShape' /\ Stored(existing)'
  <2>1. CASE \/ ClearRecord \/ CreateFull \/ CreateStash \/ AttachFull \/ AttachStash
             \/ DropRecord \/ RequestReview
    BY <1>1, <2>1, WritingShape
  <2>2. CASE \/ ReadRecords \/ ClearDone \/ ListRuns \/ DetermineStartOver \/ DetermineAdd
             \/ DetermineKeyError \/ Measure \/ DownloadStash \/ Decide \/ DownloadTimesOut
             \/ AttachRefused \/ JobDies
    <3>1. UNCHANGED stores
      BY <2>2, Zenon DEF ReadRecords, ClearDone, ListRuns, DetermineStartOver, DetermineAdd,
          DetermineKeyError, Measure, DownloadStash, Decide, DownloadTimesOut, AttachRefused,
          JobDies
    <3>2. (records \subseteq Record)' /\ status' \in Statuses /\ Stored(records)'
      BY <3>1, Zenon DEF stores, ShapeInv, TypeOK, StoresTypeOK, Stored
    <3> QED
      BY <2>2, <3>1, <3>2, ReadingShape
  <2> QED
    BY <2>1, <2>2 DEF Publishing, PubStep, PubFault
<1>5. Stored(replica)' /\ Stored(signed)'
  BY <1>1, <1>2, Zenon DEF ShapeInv, Stored
<1>6. TypeOK'
  <2>1. StoresTypeOK'
    BY <1>1, <1>2, <1>4, Zenon DEF ShapeInv, TypeOK, StoresTypeOK
  <2>2. GenTypeOK'
    BY <1>1 DEF ShapeInv, TypeOK, GenTypeOK, genVars
  <2>3. SignoffTypeOK' /\ calm' \in BOOLEAN
    BY <1>2, Zenon DEF ShapeInv, TypeOK, SignoffTypeOK, signVars
  <2> QED
    BY <1>4, <2>1, <2>2, <2>3, Zenon DEF TypeOK
<1> QED
  BY <1>3, <1>4, <1>5, <1>6, Zenon DEF ShapeInv

(* crlite-signoff signs records that are stored.                           *)
LEMMA SigningOffShape ==
    ASSUME ShapeInv, SigningOff
    PROVE  ShapeInv'
<1>1. UNCHANGED <<runs, firstRun, genVars, records, replica, pubVars, calm>>
  BY Zenon DEF SigningOff, SignoffStep, SignoffDies, Verify, CheckStatus, Sign, stores
<1>2. signed' \in {signed, records} /\ status' \in {status, "signed"}
  BY Zenon DEF SigningOff, SignoffStep, SignoffDies, Verify, CheckStatus, Sign, stores
<1>3. verified' \in {verified, {}, ReadOnlyView} /\ spc' \in {"idle", "verified", "sign"}
  BY DEF SigningOff, SignoffStep, SignoffDies, Verify, CheckStatus, Sign
<1>4. BucketInv'
  BY <1>1, BucketUnchanged, Zenon DEF ShapeInv
<1>5. (Stored(records) /\ Stored(replica) /\ Stored(existing) /\ Stored(signed))'
  BY <1>1, <1>2, Zenon DEF ShapeInv, Stored, pubVars
<1>6. JobShape'
  BY <1>1, Zenon DEF ShapeInv, JobShape, Interval, Downloaded, pubVars
<1>7. StoresTypeOK'
  BY <1>1, <1>2, Zenon DEF ShapeInv, TypeOK, StoresTypeOK, Statuses
<1>8. SignoffTypeOK'
  BY <1>3, Zenon DEF ShapeInv, TypeOK, StoresTypeOK, SignoffTypeOK, ReadOnlyView
<1>9. GenTypeOK' /\ PubTypeOK' /\ calm' \in BOOLEAN
  BY <1>1, Zenon DEF ShapeInv, TypeOK, GenTypeOK, PubTypeOK, genVars, pubVars
<1> QED
  BY <1>4, <1>5, <1>6, <1>7, <1>8, <1>9, Zenon DEF ShapeInv, TypeOK

(* Generating, replication and retention keep ShapeInv, and runs only      *)
(* grow.                                                                   *)
LEMMA OthersShape ==
    ASSUME ShapeInv, Generating \/ Environment \/ CalmDown \/ UNCHANGED vars
    PROVE  ShapeInv' /\ RunsGrow
<1>1. /\ StoresTypeOK /\ GenTypeOK /\ PubTypeOK /\ SignoffTypeOK /\ calm \in BOOLEAN
      /\ BucketInv /\ JobShape
      /\ Stored(records) /\ Stored(replica) /\ Stored(existing) /\ Stored(signed)
  BY Zenon DEF ShapeInv, TypeOK
<1>2. /\ UNCHANGED <<records, signed, pubVars, signVars>> /\ replica' \in {records, replica}
      /\ calm' \in BOOLEAN
  BY <1>1, Zenon DEF Generating, GenStep, GenFault, Allocate, GenerateWithStash,
         GenerateWithoutStash, GenerateFails, UploadTimestamp, UploadFile, UploadCompleted,
         UploadFails, Environment, Sync, ExpireRun, CalmDown, vars, stores
<1>3. (StoresTypeOK /\ GenTypeOK /\ BucketInv)' /\ RunsGrow
  <2>1. CASE Generating
    BY <1>1, <2>1, GeneratingBucket, GeneratingGrows
  <2>2. CASE Environment
    BY <1>1, <2>2, EnvironmentBucket
  <2>3. CASE CalmDown \/ UNCHANGED vars
    <3>1. UNCHANGED <<stores, genVars>>
      BY <2>3, Zenon DEF CalmDown, vars
    <3>2. (StoresTypeOK /\ GenTypeOK)'
      BY <1>1, <3>1, Zenon DEF stores, genVars, StoresTypeOK, GenTypeOK
    <3>3. BucketInv'
      BY <1>1, <3>1, BucketUnchanged, Zenon DEF stores
    <3>4. RunsGrow
      BY <1>1, <3>1 DEF stores, RunsGrow, StoresTypeOK
    <3> QED
      BY <3>2, <3>3, <3>4
  <2> QED
    BY <2>1, <2>2, <2>3
<1>4. runs \in Seq(Run) /\ runs' \in Seq(Run)
  BY <1>1, <1>3, Zenon DEF StoresTypeOK
<1>5. (Stored(records) /\ Stored(replica) /\ Stored(existing) /\ Stored(signed) /\ JobShape)'
  BY <1>1, <1>2, <1>3, <1>4, ShapeGrows, Zenon
<1>6. (PubTypeOK /\ SignoffTypeOK)'
  BY <1>1, <1>2 DEF PubTypeOK, SignoffTypeOK, pubVars, signVars
<1> QED
  BY <1>2, <1>3, <1>5, <1>6, Zenon DEF ShapeInv, TypeOK

(* ShapeInv is inductive.                                                  *)
LEMMA ShapeNext == ShapeInv /\ [Next]_vars => ShapeInv'
BY PublishingShape, SigningOffShape, OthersShape DEF Next

(* ShapeInv holds in every state.                                          *)
LEMMA ShapeInvariant == Spec => []ShapeInv
BY ShapeInit, ShapeNext, PTL DEF Spec

(* Every variable of the stores and of the three jobs keeps its type,      *)
(* whatever fails and however far the read-only server lags.               *)
THEOREM TypeCorrect == Spec => []TypeOK
<1>1. ShapeInv => TypeOK
  BY Zenon DEF ShapeInv
<1> QED
  BY <1>1, ShapeInvariant, PTL

(* publish_crlite never has, and crlite-signoff never signs, a record of a *)
(* run whose upload is not complete.                                       *)
THEOREM PublishedComplete == Spec => []PublishedRunsComplete
<1>1. ShapeInv => PublishedRunsComplete
  BY Zenon DEF ShapeInv, Stored, PublishedRunsComplete
<1> QED
  BY <1>1, ShapeInvariant, PTL
-----------------------------------------------------------------------------
(* Sets of records.                                                        *)

(* Deleting a filter, or any record once there is no filter.               *)
LEMMA CoherentDelete ==
    ASSUME NEW S, Coherent(S), NEW rec \in S, Filters(S) # {} => IsFilter(rec)
    PROVE  Coherent(S \ {rec})
<1>1. Filters(S \ {rec}) = {}
  BY DEF Coherent, Filters
<1>2. Covered(S \ {rec})
  BY <1>1 DEF Covered
<1>3. \A r, q \in S \ {rec} : r.id = q.id => r = q
  BY DEF Coherent
<1>4. \A u \in S \ {rec} : u.attached \/ \A r \in (S \ {rec}) \ {u} : r.run < u.run
  BY Zenon DEF Coherent
<1> QED
  BY <1>1, <1>2, <1>3, <1>4, Zenon DEF Coherent

(* A collection that may be signed is coherent.                            *)
LEMMA SoundIsCoherent ==
    ASSUME NEW S, Sound(S), \A r, q \in S : r.id = q.id => r = q
    PROVE  Coherent(S)
BY DEF Sound, Coherent, Filters

(* A filter alone covers its run.                                          *)
LEMMA FilterAlone ==
    ASSUME NEW u \in Record, IsFilter(u)
    PROVE  Coherent({u}) /\ (u.attached => Sound({u}))
<1>1. u.run \in Nat
  BY RecordFacts, StoresAssumption
<1>2. Filters({u}) = {u}
  BY Zenon DEF Filters
<1>3. Covered({u})
  <2> SUFFICES ASSUME u.attached, NEW n \in u.run .. u.run, NEW c \in Revoked[n]
               PROVE  c \in Keys(u)
    BY Zenon DEF Covered, Filters
  <2>1. n = u.run
    BY <1>1
  <2> QED
    BY <2>1, Zenon DEF Keys
<1>4. Coherent({u})
  BY <1>2, <1>3 DEF Coherent
<1>5. u.attached => Sound({u})
  BY <1>2, <1>3 DEF Sound
<1> QED
  BY <1>4, <1>5, Zenon

(* The stash of the next run is created ...                                *)
LEMMA StashAdded ==
    ASSUME NEW S, S \subseteq Record, NEW u \in Record, NEW n \in Nat, ReadyFor(S, n),
           \A r, q \in S : r.id = q.id => r = q,
           \A r \in S : r.id # u.id,
           u.incremental, u.run = n, ~u.attached
    PROVE  Coherent(S \cup {u})
<1>1. Filters(S \cup {u}) = Filters(S)
  BY Zenon DEF Filters, IsFilter
<1>2. PICK f \in Filters(S) : Filters(S) = {f}
  BY Zenon DEF ReadyFor, Sound
<1>3. f \in S /\ f.attached
  BY <1>2, Zenon DEF ReadyFor, Sound, Filters
<1>4. Covered(S \cup {u})
  <2> SUFFICES ASSUME NEW g \in Filters(S), NEW r \in S, g.attached, r.attached,
                      NEW m \in g.run .. r.run, NEW c \in Revoked[m]
               PROVE  \E q \in S \cup {u} : q.attached /\ c \in Keys(q)
    BY <1>1, Zenon DEF Covered
  <2> QED
    BY Zenon DEF ReadyFor, Sound, Covered
<1>5. \A r \in S : r.attached /\ r.run < u.run
  BY Zenon DEF ReadyFor, Sound
<1>6. \A r, q \in S \cup {u} : r.id = q.id => r = q
  OBVIOUS
<1>7. \A w \in S \cup {u} : w.attached \/ \A r \in (S \cup {u}) \ {w} : r.run < w.run
  <2>1. ASSUME NEW w \in S \cup {u}, ~w.attached, NEW r \in (S \cup {u}) \ {w} PROVE r.run < w.run
    <3>1. w = u
      BY <1>5, <2>1, Zenon
    <3>2. r \in S
      BY <2>1, <3>1, Zenon
    <3> QED
      BY <1>5, <3>1, <3>2, Zenon
  <2> QED
    BY <2>1, Zenon
<1>8. \A g, h \in Filters(S \cup {u}) : g = h /\ g.attached
  BY <1>1, <1>2, <1>3, Zenon
<1> QED
  BY <1>4, <1>6, <1>7, <1>8, Zenon DEF Coherent

(* ... and gets its file: what was revoked in the run before is covered    *)
(* already, and the rest is in the stash.                                  *)
LEMMA StashAttached ==
    ASSUME NEW S, S \subseteq Record, NEW u \in Record, NEW n \in Nat, ReadyFor(S, n),
           u.incremental, u.run = n, u.attached
    PROVE  Sound(S \cup {u}) /\ ReadyFor(S \cup {u}, n + 1)
<1>1. Filters(S \cup {u}) = Filters(S)
  BY DEF Filters, IsFilter
<1>2. PICK f \in Filters(S) : Filters(S) = {f}
  BY Zenon DEF ReadyFor, Sound
<1>3. f \in S /\ f.attached /\ f.run < n /\ f.run \in Nat
  BY <1>2, RecordFacts, StoresAssumption DEF ReadyFor, Sound, Filters
<1>4. PICK p \in S : p.run = n - 1 /\ p.attached
  BY Zenon DEF ReadyFor, Sound
<1>5. ASSUME NEW m \in Nat, f.run <= m, m < n, NEW c \in Revoked[m]
      PROVE  \E q \in S : q.attached /\ c \in Keys(q)
  <2>1. m \in f.run .. p.run
    BY <1>3, <1>4, <1>5
  <2> QED
    BY <1>3, <1>4, <1>5, <2>1, Zenon DEF ReadyFor, Sound, Covered
<1>6. ASSUME NEW c \in Revoked[n]
      PROVE  \E q \in S \cup {u} : q.attached /\ c \in Keys(q)
  <2>1. CASE c \in Revoked[n - 1]
    <3>1. n - 1 \in Nat /\ f.run <= n - 1 /\ n - 1 < n
      BY <1>3
    <3> QED
      BY <1>5, <2>1, <3>1, Zenon
  <2>2. CASE c \notin Revoked[n - 1]
    BY <1>6, <2>2, Zenon DEF Keys, IsFilter
  <2> QED
    BY <2>1, <2>2, Zenon
<1>7. \A r \in S \cup {u} : r.attached /\ r.run \in Nat /\ r.run <= n
  BY RecordFacts, StoresAssumption DEF ReadyFor, Sound
<1>8. Covered(S \cup {u})
  <2> SUFFICES ASSUME NEW r \in S \cup {u}, NEW m \in f.run .. r.run, NEW c \in Revoked[m]
               PROVE  \E q \in S \cup {u} : q.attached /\ c \in Keys(q)
    BY <1>1, <1>2, Zenon DEF Covered
  <2>1. m \in Nat /\ f.run <= m /\ (m < n \/ m = n)
    BY <1>3, <1>7
  <2> QED
    BY <1>5, <1>6, <2>1, Zenon
<1>9. Sound(S \cup {u})
  BY <1>1, <1>2, <1>7, <1>8, Zenon DEF Sound
<1>10. ReadyFor(S \cup {u}, n + 1)
  <2>1. \A r \in S \cup {u} : r.run < n + 1
    BY <1>7
  <2>2. \E r \in S \cup {u} : r.run = n + 1 - 1
    OBVIOUS
  <2> QED
    BY <1>9, <2>1, <2>2 DEF ReadyFor
<1> QED
  BY <1>9, <1>10, Zenon

-----------------------------------------------------------------------------
(* The publisher.                                                          *)

(* With one digit an identifier only matches itself.                       *)
LEMMA MatchIsEqual ==
    ASSUME runs \in Seq(Run), BucketInv, SingleDigit,
           NEW r \in 1 .. Len(runs), NEW s \in 1 .. Len(runs), NameMatches(r, s)
    PROVE  r = s
<1>1. Len(runs) \in Nat /\ runs[r] \in Run /\ runs[s] \in Run
  OBVIOUS
<1>2. runs[r].idx \in Nat /\ runs[s].idx \in Nat /\ runs[s].idx < 10
  BY <1>1, RunFacts, ZenonT(30) DEF SingleDigit
<1>3. \A p \in {10, 100, 1000, 10000, 100000} : runs[s].idx \div p = 0
  BY <1>2
<1>4. runs[r].idx = runs[s].idx /\ runs[r].date = runs[s].date
  BY <1>3 DEF NameMatches, DecimalPrefix
<1>5. r < s => Precedes(runs[r], runs[s])
  BY Zenon DEF BucketInv
<1>6. s < r => Precedes(runs[s], runs[r])
  BY Zenon DEF BucketInv
<1> QED
  BY <1>1, <1>2, <1>4, <1>5, <1>6 DEF Precedes

(* A collection with a filter whose last record has its file is sound.     *)
LEMMA DetermineSound ==
    ASSUME runs \in Seq(Run), BucketInv, NEW S, S \subseteq Record, Stored(S), Coherent(S),
           S # {}, Filters(S) # {}, LastRecord(S).attached
    PROVE  Sound(S)
<1>1. LastRecord(S) \in S /\ \A r \in S : r.run <= LastRecord(S).run
  BY LastRecordFacts, Zenon
<1>2. ASSUME NEW u \in S, ~u.attached PROVE FALSE
  <2>1. LastRecord(S) # u
    BY <1>2, Zenon
  <2>2. LastRecord(S).run < u.run
    BY <1>1, <1>2, <2>1, Zenon DEF Coherent
  <2>3. u.run <= LastRecord(S).run /\ u.run \in Nat /\ LastRecord(S).run \in Nat
    BY <1>1, RecordFacts, StoresAssumption
  <2> QED
    BY <2>2, <2>3
<1>3. PICK f \in Filters(S) : TRUE
  BY Zenon
<1>4. Filters(S) = {f}
  BY <1>3, Zenon DEF Coherent
<1> QED
  BY <1>2, <1>4, Zenon DEF Sound, Coherent

(* Steps of the job that do not write to the collection.                   *)
LEMMA ReadingCover ==
    ASSUME ShapeInv, JobCover, Coherent(records), SingleDigit, ~Lagging, UNCHANGED stores,
           \/ ReadRecords \/ ClearDone \/ ListRuns \/ DetermineStartOver \/ DetermineAdd
           \/ DetermineKeyError \/ Measure \/ DownloadStash \/ Decide \/ DownloadTimesOut
           \/ AttachRefused \/ JobDies
    PROVE  JobCover'
<1>1. UNCHANGED records
  BY Zenon DEF stores
<1>2. CASE JobEnds
  BY <1>2, Zenon DEF JobEnds, JobCover
<1>3. CASE ReadRecords
  <2>1. ReadOnlyView = records
    BY Zenon DEF ReadOnlyView
  <2>2. \/ ppc' = "list" /\ existing' = records /\ RecordsSane(records)
        \/ ppc' = "clearInsane" /\ existing' = {}
    BY <1>3, <2>1, Zenon DEF ReadRecords
  <2>3. RecordsSane(records) => records = {} \/ Filters(records) # {}
    BY Zenon DEF RecordsSane
  <2> QED
    BY <1>1, <2>2, <2>3, Zenon DEF JobCover
<1>4. CASE ClearDone
  <2>1. \/ ppc = "clearInsane" /\ ppc' = "list"
        \/ ppc = "clear" /\ ppc' = "measure"
        \/ ppc = "clearFull" /\ ppc' = "createFull"
    BY <1>4 DEF ClearDone
  <2>2. records = {} /\ UNCHANGED <<existing, clearAll>>
    BY <1>4, Zenon DEF ClearDone
  <2> QED
    BY <1>1, <2>1, <2>2, Zenon DEF JobCover
<1>5. CASE ListRuns /\ ~JobEnds
  <2>1. ppc = "list" /\ ppc' = "determine" /\ existing' = existing
    BY <1>5, Zenon DEF ListRuns
  <2> QED
    BY <1>1, <2>1, Zenon DEF JobCover
<1>6. CASE DetermineStartOver
  BY <1>6, Zenon DEF DetermineStartOver, JobCover
<1>7. CASE DetermineAdd
  <2>1. /\ ppc = "determine" /\ existing # {} /\ LastRecord(existing).attached
        /\ upload' = Unpublished /\ existing' = existing
        /\ ppc' = IF Unpublished = {} THEN "review" ELSE "measure"
    BY <1>7, Zenon DEF DetermineAdd
  <2>2. existing = records /\ Filters(records) # {} /\ records # {}
    BY <2>1, Zenon DEF JobCover
  <2>3. /\ runs \in Seq(Run) /\ BucketInv /\ records \subseteq Record /\ Stored(records)
        /\ Interval(listed) /\ Len(runs) \in Nat /\ Len(runs) <= MaxRuns
    BY <2>1 DEF ShapeInv, TypeOK, StoresTypeOK, JobShape, BucketInv
  <2>4. Sound(records)
    BY <2>1, <2>2, <2>3, DetermineSound
  <2>5. ASSUME Unpublished # {} PROVE ReadyFor(records, First(Unpublished))
    <3> DEFINE l == LastRecord(records)
               n == First(Unpublished)
    <3>1. n - 1 \in PublishedMatches /\ Interval(Unpublished)
      BY <2>3, <2>5, UnpublishedInterval
    <3>2. n \in 1 .. Len(runs) /\ n \in Nat
      BY <2>3, <3>1, IntervalFacts
    <3>3. n - 1 \in listed /\ NameMatches(n - 1, l.run)
      BY <2>2, <3>1, Zenon DEF PublishedMatches
    <3>4. n - 1 \in 1 .. Len(runs)
      BY <2>3, <3>3, IntervalFacts, Zenon
    <3>5. l \in records /\ (\A r \in records : r.run <= l.run) /\ l.run \in 1 .. Len(runs)
      BY <2>2, <2>3, LastRecordFacts, Zenon DEF Stored
    <3>6. n - 1 = l.run
      BY <2>3, <3>3, <3>4, <3>5, MatchIsEqual, Zenon
    <3>7. \A r \in records : r.run \in Nat
      BY <2>3, RecordFacts, StoresAssumption
    <3>8. \A r \in records : r.run < n
      BY <3>2, <3>5, <3>6, <3>7
    <3> QED
      BY <2>4, <3>5, <3>6, <3>8 DEF ReadyFor
  <2>6. ReadyFor(records, First(Unpublished)) => ReadyFor(records', First(upload'))
    BY <1>1, <2>1, Zenon
  <2>7. CASE Unpublished = {}
    BY <1>1, <2>1, <2>4, <2>7, Zenon DEF JobCover
  <2>8. CASE Unpublished # {}
    BY <1>1, <2>1, <2>2, <2>5, <2>6, <2>8, Zenon DEF JobCover
  <2> QED
    BY <2>7, <2>8, Zenon
<1>8. CASE Measure /\ ~JobEnds
  <2>1. ppc = "measure" /\ ppc' = "download" /\ UNCHANGED <<existing, clearAll, upload>>
    BY <1>8, Zenon DEF Measure
  <2> QED
    BY <1>1, <2>1, Zenon DEF JobCover
<1>9. CASE DownloadStash
  <2>1. ppc = "download" /\ ppc' \in {"download", "decide"} /\ UNCHANGED <<existing, clearAll, upload>>
    BY <1>9, Zenon DEF DownloadStash
  <2> QED
    BY <1>1, <2>1, Zenon DEF JobCover
<1>10. CASE Decide
  <2>1. /\ ppc = "decide"
        /\ ppc' = "clearFull" \/ (ppc' = "stash" /\ at' = First(upload) /\ ~clearAll)
    BY <1>10, Zenon DEF Decide, NeedsFull
  <2>2. ~clearAll => ReadyFor(records, First(upload))
    BY <2>1, Zenon DEF JobCover
  <2> QED
    BY <1>1, <2>1, <2>2, Zenon DEF JobCover
<1>11. CASE AttachRefused
  <2>1. ppc \in {"attachFull", "attachStash"} /\ ppc' = "dropRecord" /\ UNCHANGED <<at, previousId>>
    BY <1>11, Zenon DEF AttachRefused
  <2>2. FilterCreated' \/ StashCreated'
    BY <1>1, <2>1, Zenon DEF JobCover, FilterCreated, StashCreated
  <2> QED
    BY <2>1, <2>2, Zenon DEF JobCover
<1> QED
  BY <1>2, <1>3, <1>4, <1>5, <1>6, <1>7, <1>8, <1>9, <1>10, <1>11, Zenon
  DEF DetermineKeyError, DownloadTimesOut, JobDies

(* Steps of the job that write to the collection.                          *)
LEMMA CreateFacts ==
    ASSUME records \subseteq Record, NEW run \in 1 .. MaxRuns, NEW inc \in BOOLEAN,
           NEW parent \in Ids \cup {NoParent}, CreateRecord(run, inc, parent)
    PROVE  /\ status' = "work-in-progress"
           /\ \E u \in Record :
                /\ records' = records \cup {u} /\ \A r \in records : r.id # u.id
                /\ u.id = previousId' /\ u.run = run /\ u.incremental = inc /\ ~u.attached
<1> DEFINE u == [id |-> FreshId, run |-> run, incremental |-> inc,
                 parent |-> parent, attached |-> FALSE]
<1>1. /\ FreshId \in Ids \ LiveIds /\ previousId' = FreshId
      /\ records' = records \cup {u} /\ status' = "work-in-progress"
  BY Zenon DEF CreateRecord, WriteRecords
<1>2. \A r \in records : r.id # FreshId
  BY <1>1, Zenon DEF LiveIds
<1>3. /\ u \in Record /\ u.id = FreshId /\ u.run = run /\ u.incremental = inc /\ ~u.attached
  BY <1>1, Zenon DEF Record
<1> HIDE DEF u
<1> QED
  BY <1>1, <1>2, <1>3, Zenon

(* Attaching a file completes the record just created and no other.        *)
LEMMA AttachFacts ==
    ASSUME records \subseteq Record, \A r, q \in records : r.id = q.id => r = q, AttachFile,
           NEW u \in records, u.id = previousId
    PROVE  /\ status' = "work-in-progress"
           /\ \E w \in Record :
                /\ records' = (records \ {u}) \cup {w}
                /\ w.id = u.id /\ w.run = u.run /\ w.incremental = u.incremental /\ w.attached
<1> DEFINE w == [u EXCEPT !.attached = TRUE]
<1>1. /\ w \in Record /\ w.id = u.id /\ w.run = u.run
      /\ w.incremental = u.incremental /\ w.attached
  BY Zenon DEF Record
<1>2. \A r \in records : r.id = previousId => r = u
  OBVIOUS
<1>3. records' = {IF r.id = previousId THEN [r EXCEPT !.attached = TRUE] ELSE r : r \in records}
  BY DEF AttachFile, WriteRecords
<1>4. records' = {IF r = u THEN w ELSE r : r \in records}
  BY <1>2, <1>3, Zenon
<1>5. status' = "work-in-progress"
  BY DEF AttachFile, WriteRecords
<1> HIDE DEF w
<1>6. records' = (records \ {u}) \cup {w}
  BY <1>4
<1> QED
  BY <1>1, <1>5, <1>6, Zenon

(* Every request of crlite-publish that writes to the collection keeps the *)
(* coverage.                                                               *)
LEMMA WritingCover ==
    ASSUME ShapeInv, CoverInv,
           \/ ClearRecord \/ CreateFull \/ CreateStash \/ AttachFull \/ AttachStash
           \/ DropRecord \/ RequestReview
    PROVE  Coherent(records)' /\ JobCover' /\ (status' = "to-review" => Sound(records)')
<1>1. /\ Coherent(records) /\ JobCover /\ JobShape /\ PubTypeOK
      /\ records \subseteq Record /\ (status = "to-review" => Sound(records))
      /\ Len(runs) \in Nat /\ Len(runs) <= MaxRuns /\ MaxRuns \in Nat
  BY StoresAssumption DEF ShapeInv, TypeOK, StoresTypeOK, CoverInv, BucketInv
<1>2. \A r, q \in records : r.id = q.id => r = q
  BY <1>1, Zenon DEF Coherent
<1>3. CASE ClearRecord
  <2>1. PICK rec \in records : (Filters(records) # {} => IsFilter(rec)) /\ records' = records \ {rec}
    BY <1>3, Zenon DEF ClearRecord, WriteRecords
  <2>2. /\ ppc \in {"clearInsane", "clear", "clearFull"} /\ UNCHANGED <<ppc, existing, clearAll>>
        /\ status' = "work-in-progress"
    BY <1>3, Zenon DEF ClearRecord, WriteRecords, pubVars
  <2>3. Coherent(records')
    BY <1>1, <2>1, CoherentDelete, Zenon
  <2>4. JobCover'
    BY <1>1, <2>2, Zenon DEF JobCover
  <2> QED
    BY <2>2, <2>3, <2>4, Zenon
<1>4. CASE CreateFull
  <2>1. ppc = "createFull" /\ ppc' = "attachFull" /\ CreateRecord(Last(upload), FALSE, NoParent)
    BY <1>4, Zenon DEF CreateFull
  <2>2. records = {} /\ Last(upload) \in 1 .. MaxRuns
    BY <1>1, <2>1, IntervalFacts DEF JobCover, JobShape
  <2>3. PICK u \in Record : /\ records' = records \cup {u} /\ u.id = previousId' /\ ~u.incremental
    BY <1>1, <2>1, <2>2, CreateFacts, Zenon
  <2>4. status' = "work-in-progress"
    BY <2>1 DEF CreateRecord, WriteRecords
  <2>5. records' = {u} /\ IsFilter(u)
    BY <2>2, <2>3 DEF IsFilter
  <2>6. Coherent(records')
    BY <2>5, FilterAlone
  <2>7. FilterCreated'
    BY <2>3, <2>5, Zenon DEF FilterCreated
  <2>8. JobCover'
    BY <2>1, <2>7, Zenon DEF JobCover
  <2> QED
    BY <2>4, <2>6, <2>8, Zenon
<1>5. CASE CreateStash
  <2>1. ppc = "stash" /\ ppc' = "attachStash" /\ CreateRecord(at, TRUE, previousId) /\ at' = at
    BY <1>5, Zenon DEF CreateStash
  <2>2. ReadyFor(records, at) /\ at \in 1 .. MaxRuns /\ at \in Nat
    BY <1>1, <2>1, IntervalFacts DEF JobCover, JobShape
  <2>3. previousId \in Ids \cup {NoParent}
    BY <1>1 DEF PubTypeOK
  <2>4. PICK u \in Record : /\ records' = records \cup {u} /\ \A r \in records : r.id # u.id
                            /\ u.id = previousId' /\ u.run = at /\ u.incremental /\ ~u.attached
    BY <1>1, <2>1, <2>2, <2>3, CreateFacts, Zenon
  <2>5. status' = "work-in-progress"
    BY <2>1, Zenon DEF CreateRecord, WriteRecords
  <2>6. Coherent(records')
    BY <1>1, <1>2, <2>2, <2>4, StashAdded, Zenon
  <2>7. records' \ {u} = records
    BY <2>4, Zenon
  <2>8. StashCreated'
    BY <2>1, <2>2, <2>4, <2>7, Zenon DEF StashCreated
  <2>9. JobCover'
    BY <2>1, <2>8 DEF JobCover
  <2> QED
    BY <2>5, <2>6, <2>9
<1>6. CASE AttachFull
  <2>1. ppc = "attachFull" /\ ppc' = "review" /\ AttachFile
    BY <1>6, Zenon DEF AttachFull
  <2>2. PICK u \in records : records = {u} /\ u.id = previousId /\ IsFilter(u)
    BY <1>1, <2>1, Zenon DEF JobCover, FilterCreated
  <2>3. PICK w \in Record : /\ records' = (records \ {u}) \cup {w}
                            /\ w.incremental = u.incremental /\ w.attached
    BY <1>1, <1>2, <2>1, <2>2, AttachFacts, Zenon
  <2>4. records' = {w} /\ IsFilter(w)
    BY <2>2, <2>3, Zenon DEF IsFilter
  <2>5. Coherent(records') /\ Sound(records')
    BY <2>3, <2>4, FilterAlone, Zenon
  <2>6. JobCover'
    BY <2>1, <2>5, Zenon DEF JobCover
  <2> QED
    BY <2>5, <2>6
<1>7. CASE AttachStash
  <2>1. /\ ppc = "attachStash" /\ AttachFile
        /\ ppc' = "review" \/ (ppc' = "stash" /\ at' = at + 1)
    BY <1>7, Zenon DEF AttachStash
  <2>2. PICK u \in records : /\ u.id = previousId /\ u.incremental /\ u.run = at /\ ~u.attached
                             /\ ReadyFor(records \ {u}, at)
    BY <1>1, <2>1, Zenon DEF JobCover, StashCreated
  <2>3. at \in Nat
    BY <1>1 DEF PubTypeOK
  <2>4. PICK w \in Record : /\ records' = (records \ {u}) \cup {w}
                            /\ w.id = u.id /\ w.run = u.run /\ w.incremental = u.incremental
                            /\ w.attached
    BY <1>1, <1>2, <2>1, <2>2, AttachFacts, Zenon
  <2>5. Sound((records \ {u}) \cup {w}) /\ ReadyFor((records \ {u}) \cup {w}, at + 1)
    BY <1>1, <2>2, <2>3, <2>4, StashAttached, Zenon
  <2>6. \A r, q \in (records \ {u}) \cup {w} : r.id = q.id => r = q
    BY <1>2, <2>4
  <2>7. Coherent((records \ {u}) \cup {w})
    BY <2>5, <2>6, SoundIsCoherent
  <2>8. JobCover'
    BY <2>1, <2>4, <2>5, Zenon DEF JobCover
  <2> QED
    BY <2>4, <2>5, <2>7, <2>8, Zenon
<1>8. CASE DropRecord
  <2>1. /\ ppc = "dropRecord" /\ records' = {r \in records : r.id # previousId}
        /\ ppc' = "idle" /\ status' = "work-in-progress"
    BY <1>8, Zenon DEF DropRecord, WriteRecords, JobEnds
  <2>2. PICK u \in records : u.id = previousId /\ (records = {u} \/ Sound(records \ {u}))
    BY <1>1, <2>1, Zenon DEF JobCover, FilterCreated, StashCreated, ReadyFor
  <2>3. records' = records \ {u}
    BY <1>2, <2>1, <2>2
  <2>4. Coherent({})
    BY DEF Coherent, Covered, Filters
  <2>5. Coherent(records \ {u})
    <3>1. CASE records = {u}
      <4>1. records \ {u} = {}
        BY <3>1, Zenon
      <4> QED
        BY <2>4, <4>1, Zenon
    <3>2. CASE Sound(records \ {u})
      BY <1>2, <3>2, SoundIsCoherent, Zenon
    <3> QED
      BY <2>2, <3>1, <3>2, Zenon
  <2>6. JobCover'
    BY <2>1, Zenon DEF JobCover
  <2> QED
    BY <2>1, <2>3, <2>5, <2>6, Zenon
<1>9. CASE RequestReview
  <2>1. ppc = "review" /\ ppc' = "idle" /\ UNCHANGED records
    BY <1>9, Zenon DEF RequestReview, JobEnds
  <2> QED
    BY <1>1, <2>1, Zenon DEF JobCover
<1> QED
  BY <1>3, <1>4, <1>5, <1>6, <1>7, <1>8, <1>9, Zenon

-----------------------------------------------------------------------------
(* CoverInv is inductive.                                                  *)

(* CoverInv holds at first: the collection is empty.                       *)
LEMMA CoverInit == Init => CoverInv
<1> SUFFICES ASSUME Init PROVE CoverInv
  OBVIOUS
<1>1. records = {} /\ signed = {} /\ status = "signed" /\ ppc = "idle"
  BY Zenon DEF Init, StoresInit, PubInit
<1>2. Coherent({})
  BY DEF Coherent, Covered, Filters
<1> QED
  BY <1>1, <1>2, Zenon DEF CoverInv, JobCover

(* CoverInv is inductive when the job reads the server it writes to.       *)
LEMMA CoverNext ==
    ASSUME ~Lagging
    PROVE  ShapeInv /\ SingleDigit /\ CoverInv /\ [Next]_vars => CoverInv'
<1> SUFFICES ASSUME ShapeInv, SingleDigit, CoverInv, [Next]_vars PROVE CoverInv'
  BY Zenon
<1>1. CASE Publishing
  <2>1. signed' = signed
    BY <1>1, Zenon DEF Publishing, PubStep, PubFault, ReadRecords, ClearRecord, ClearDone, ListRuns,
       DetermineStartOver, DetermineAdd, DetermineKeyError, Measure, DownloadStash, Decide,
       DownloadTimesOut, CreateFull, CreateStash, AttachFull, AttachStash, AttachRefused,
       DropRecord, RequestReview, JobDies, stores
  <2>2. CASE \/ ClearRecord \/ CreateFull \/ CreateStash \/ AttachFull \/ AttachStash
             \/ DropRecord \/ RequestReview
    BY <2>1, <2>2, WritingCover DEF CoverInv
  <2>3. CASE \/ ReadRecords \/ ClearDone \/ ListRuns \/ DetermineStartOver \/ DetermineAdd
             \/ DetermineKeyError \/ Measure \/ DownloadStash \/ Decide \/ DownloadTimesOut
             \/ AttachRefused \/ JobDies
    <3>1. UNCHANGED stores
      BY <2>3 DEF ReadRecords, ClearDone, ListRuns, DetermineStartOver, DetermineAdd,
          DetermineKeyError, Measure, DownloadStash, Decide, DownloadTimesOut, AttachRefused,
          JobDies
    <3>2. JobCover'
      BY <2>3, <3>1, ReadingCover, Zenon DEF CoverInv
    <3> QED
      BY <3>1, <3>2 DEF CoverInv, stores
  <2> QED
    BY <1>1, <2>2, <2>3, Zenon DEF Publishing, PubStep, PubFault
<1>2. CASE SigningOff
  <2>1. UNCHANGED <<records, pubVars>>
    BY <1>2, Zenon DEF SigningOff, SignoffStep, SignoffDies, Verify, CheckStatus, Sign, stores
  <2>2. \/ UNCHANGED <<signed, status>>
        \/ status = "to-review" /\ signed' = records /\ status' = "signed"
    BY <1>2, Zenon DEF SigningOff, SignoffStep, SignoffDies, Verify, CheckStatus, Sign, stores
  <2>3. JobCover'
    BY <2>1, Zenon DEF CoverInv, JobCover, FilterCreated, StashCreated, pubVars
  <2> QED
    BY <2>1, <2>2, <2>3, Zenon DEF CoverInv
<1>3. CASE Generating \/ Environment \/ CalmDown \/ UNCHANGED vars
  <2>1. UNCHANGED <<records, signed, status, pubVars>>
    BY <1>3, Zenon DEF Generating, GenStep, GenFault, Allocate, GenerateWithStash,
         GenerateWithoutStash, GenerateFails, UploadTimestamp, UploadFile, UploadCompleted,
         UploadFails, Environment, Sync, ExpireRun, CalmDown, vars, stores
  <2>2. JobCover'
    BY <2>1, Zenon DEF CoverInv, JobCover, FilterCreated, StashCreated, pubVars
  <2> QED
    BY <2>1, <2>2, Zenon DEF CoverInv
<1> QED
  BY <1>1, <1>2, <1>3, Zenon DEF Next

(* In a bucket where a stash is the difference to the run before, a sound  *)
(* set of records covers what it should.                                   *)
LEMMA SoundCovers ==
    ASSUME ShapeInv, CoverInv
    PROVE  SignedCovers
<1> SUFFICES ASSUME signed # {} PROVE SignedCovers
  BY Zenon DEF SignedCovers
<1>1. Sound(signed) /\ Stored(signed) /\ signed \subseteq Record /\ BucketInv
  BY Zenon DEF ShapeInv, CoverInv, TypeOK, StoresTypeOK
<1>2. ASSUME NEW q \in signed PROVE Keys(q) = Content(q)
  <2>1. q.incremental => runs[q.run].prev = q.run - 1
    BY <1>1, Zenon DEF Stored, BucketInv
  <2> QED
    BY <2>1, Zenon DEF Keys, Content, StashKeys, IsFilter
<1>3. ASSUME NEW n \in PublishedRuns(signed), NEW c \in Revoked[n] PROVE c \in Cover(signed)
  <2>1. PICK f \in Filters(signed), r \in signed : f.run <= n /\ n <= r.run
    BY Zenon DEF PublishedRuns
  <2>2. /\ f \in signed /\ f.attached /\ r.attached
        /\ f.run \in Nat /\ r.run \in Nat /\ n \in Nat
    BY <1>1, <2>1, RecordFacts, StoresAssumption DEF Sound, Filters, PublishedRuns
  <2>3. n \in f.run .. r.run
    BY <2>1, <2>2
  <2>4. PICK q \in signed : q.attached /\ c \in Keys(q)
    BY <1>1, <2>1, <2>2, <2>3, Zenon DEF Sound, Covered
  <2>5. c \in Content(q)
    BY <1>2, <2>4, Zenon
  <2> QED
    BY <2>4, <2>5, Zenon DEF Cover
<1> QED
  BY <1>1, <1>3, Zenon DEF SignedCovers, Sound

(* What Firefox downloads is one filter with stashes, every record has its *)
(* file and together they revoke all that was revoked as of the run of any *)
(* record, wherever crlite-generate, crlite-publish and crlite-signoff     *)
(* die and however they interleave.  The read-only server must not lag,    *)
(* and no day may have more than ten runs.                                 *)
THEOREM CoverageHolds ==
    ASSUME ~Lagging
    PROVE  Spec /\ []SingleDigit => []SignedCovers
<1>1. ShapeInv /\ CoverInv => SignedCovers
  BY SoundCovers, Zenon
<1>2. ShapeInv /\ SingleDigit /\ CoverInv /\ [Next]_vars => CoverInv'
  BY CoverNext
<1> QED
  BY <1>1, <1>2, CoverInit, ShapeInvariant, PTL DEF Spec

(* Under the same conditions publish_crlite_record creates records only    *)
(* for runs later than all the collection has.                             *)
THEOREM RunsPublishedOnce ==
    ASSUME ~Lagging
    PROVE  Spec /\ []SingleDigit => NoRunRepublished
<1> DEFINE A == \A q \in records', r \in records :
                   q.id \notin {p.id : p \in records} => r.run < q.run
<1>1. ShapeInv /\ CoverInv /\ [Next]_vars => [A]_records
  <2> SUFFICES ASSUME ShapeInv, CoverInv, [Next]_vars, records' # records,
                      NEW q \in records', NEW r \in records, q.id \notin {p.id : p \in records}
               PROVE  r.run < q.run
    BY Zenon
  <2>1. /\ Coherent(records) /\ JobCover /\ JobShape /\ PubTypeOK /\ records \subseteq Record
        /\ Len(runs) \in Nat /\ Len(runs) <= MaxRuns /\ MaxRuns \in Nat
    BY StoresAssumption DEF ShapeInv, TypeOK, StoresTypeOK, CoverInv, BucketInv
  <2>2. \/ ClearRecord \/ CreateFull \/ CreateStash \/ AttachFull \/ AttachStash \/ DropRecord
    BY Zenon DEF Next, Environment, Sync, ExpireRun, Generating, GenStep, GenFault, Allocate,
       GenerateWithStash, GenerateWithoutStash, GenerateFails, UploadTimestamp, UploadFile,
       UploadCompleted, UploadFails, Publishing, PubStep, PubFault, ReadRecords, ClearDone,
       ListRuns, DetermineStartOver, DetermineAdd, DetermineKeyError, Measure, DownloadStash,
       Decide, DownloadTimesOut, AttachRefused, RequestReview, JobDies, SigningOff,
       SignoffStep, SignoffDies, Verify, CheckStatus, Sign, CalmDown, vars, stores
  <2>3. CASE ClearRecord \/ DropRecord
    BY <2>3, Zenon DEF ClearRecord, DropRecord, WriteRecords
  <2>4. CASE CreateFull
    BY <2>1, <2>4, Zenon DEF CreateFull, JobCover
  <2>5. CASE AttachFull \/ AttachStash
    <3>1. AttachFile
      BY <2>5, Zenon DEF AttachFull, AttachStash
    <3>2. PICK p \in records : q = IF p.id = previousId THEN [p EXCEPT !.attached = TRUE] ELSE p
      BY <3>1, Zenon DEF AttachFile, WriteRecords
    <3>3. [p EXCEPT !.attached = TRUE].id = p.id
      BY <2>1, Zenon DEF Record
    <3> QED
      BY <3>2, <3>3, Zenon
  <2>6. CASE CreateStash
    <3>1. ppc = "stash" /\ CreateRecord(at, TRUE, previousId)
      BY <2>6, Zenon DEF CreateStash
    <3>2. ReadyFor(records, at) /\ at \in 1 .. MaxRuns /\ previousId \in Ids \cup {NoParent}
      BY <2>1, <3>1, IntervalFacts, Zenon DEF JobCover, JobShape, PubTypeOK
    <3>3. PICK u \in Record : records' = records \cup {u} /\ u.run = at
      BY <2>1, <3>1, <3>2, CreateFacts, Zenon
    <3>4. q = u
      BY <3>3, Zenon
    <3> QED
      BY <3>2, <3>3, <3>4, Zenon DEF ReadyFor
  <2> QED
    BY <2>2, <2>3, <2>4, <2>5, <2>6, Zenon
<1>2. ShapeInv /\ SingleDigit /\ CoverInv /\ [Next]_vars => CoverInv'
  BY CoverNext
<1> QED
  BY <1>1, <1>2, CoverInit, ShapeInvariant, PTL DEF Spec, NoRunRepublished

-----------------------------------------------------------------------------
(* RuleInv is inductive: what is signed never outweighs a filter and never *)
(* goes back.                                                              *)

(* The stashes of a collection that changes by a record.                   *)
LEMMA StashCount ==
    ASSUME NEW S, IsFiniteSet(S), NEW u
    PROVE  /\ IsFiniteSet(Stashes(S)) /\ Cardinality(Stashes(S)) \in Nat
           /\ IsFiniteSet(S \ {u}) /\ IsFiniteSet(S \cup {u})
           /\ Cardinality(Stashes(S \ {u})) \in Nat
           /\ Cardinality(Stashes(S \ {u})) <= Cardinality(Stashes(S))
           /\ u \in S /\ u.incremental =>
                Cardinality(Stashes(S \ {u})) = Cardinality(Stashes(S)) - 1
           /\ Cardinality(Stashes(S \cup {u})) \in Nat
           /\ Cardinality(Stashes(S \cup {u})) <= Cardinality(Stashes(S)) + 1
           /\ ~u.incremental => Cardinality(Stashes(S \cup {u})) = Cardinality(Stashes(S))
<1>1. IsFiniteSet(Stashes(S)) /\ IsFiniteSet(S \ {u}) /\ IsFiniteSet(S \cup {u})
  <2>1. Stashes(S) \in SUBSET S
    BY Zenon DEF Stashes
  <2> QED
    BY <2>1, FS_Subset, FS_RemoveElement, FS_AddElement, Zenon
<1>2. Cardinality(Stashes(S)) \in Nat
  BY <1>1, FS_CardinalityType, Zenon
<1>3. Stashes(S \ {u}) = Stashes(S) \ {u}
  BY Zenon DEF Stashes
<1>4. /\ u.incremental => Stashes(S \cup {u}) = Stashes(S) \cup {u}
      /\ ~u.incremental => Stashes(S \cup {u}) = Stashes(S)
  BY Zenon DEF Stashes
<1>5. /\ IsFiniteSet(Stashes(S) \ {u})
      /\ Cardinality(Stashes(S) \ {u}) =
           IF u \in Stashes(S) THEN Cardinality(Stashes(S)) - 1 ELSE Cardinality(Stashes(S))
  BY <1>1, FS_RemoveElement, Zenon
<1>6. /\ IsFiniteSet(Stashes(S) \cup {u})
      /\ Cardinality(Stashes(S) \cup {u}) =
           IF u \in Stashes(S) THEN Cardinality(Stashes(S)) ELSE Cardinality(Stashes(S)) + 1
  BY <1>1, FS_AddElement, Zenon
<1>7. Cardinality(Stashes(S) \ {u}) \in Nat
  BY <1>5, FS_CardinalityType, Zenon
<1>8. u \in S /\ u.incremental => u \in Stashes(S)
  BY Zenon DEF Stashes
<1>9. /\ Cardinality(Stashes(S \ {u})) \in Nat
      /\ Cardinality(Stashes(S \ {u})) <= Cardinality(Stashes(S))
      /\ u \in S /\ u.incremental =>
           Cardinality(Stashes(S \ {u})) = Cardinality(Stashes(S)) - 1
  BY <1>2, <1>3, <1>5, <1>7, <1>8
<1>10. /\ Cardinality(Stashes(S \cup {u})) \in Nat
       /\ Cardinality(Stashes(S \cup {u})) <= Cardinality(Stashes(S)) + 1
       /\ ~u.incremental => Cardinality(Stashes(S \cup {u})) = Cardinality(Stashes(S))
  <2>1. \/ Stashes(S \cup {u}) = Stashes(S) \cup {u}
        \/ Stashes(S \cup {u}) = Stashes(S)
    BY <1>4, Zenon
  <2>2. /\ Cardinality(Stashes(S \cup {u})) \in Nat
        /\ Cardinality(Stashes(S \cup {u})) <= Cardinality(Stashes(S)) + 1
    <3>1. CASE Stashes(S \cup {u}) = Stashes(S) \cup {u}
      <4>1. Cardinality(Stashes(S \cup {u})) = Cardinality(Stashes(S) \cup {u})
        BY <3>1, Zenon
      <4>2. \/ Cardinality(Stashes(S) \cup {u}) = Cardinality(Stashes(S))
            \/ Cardinality(Stashes(S) \cup {u}) = Cardinality(Stashes(S)) + 1
        BY <1>6, Zenon
      <4> QED
        BY <4>1, <4>2, <1>2
    <3>2. CASE Stashes(S \cup {u}) = Stashes(S)
      <4>1. Cardinality(Stashes(S \cup {u})) = Cardinality(Stashes(S))
        BY <3>2, Zenon
      <4> QED
        BY <4>1, <1>2
    <3> QED
      BY <2>1, <3>1, <3>2, Zenon
  <2> QED
    BY <2>2, <1>4, Zenon
<1> QED
  BY <1>1, <1>2, <1>9, <1>10, Zenon

(* The runs that the loop over the stashes has to come to.                 *)
LEMMA RunsLeft ==
    ASSUME NEW R, NEW m \in Nat, R \subseteq 1 .. m, NEW n \in R
    PROVE  /\ IsFiniteSet(R) /\ Cardinality(R) \in Nat
           /\ Cardinality({k \in R : k >= n}) \in Nat
           /\ Cardinality({k \in R : k >= n}) <= Cardinality(R)
           /\ Cardinality({k \in R : k > n}) \in Nat
           /\ Cardinality({k \in R : k > n}) = Cardinality({k \in R : k >= n}) - 1
           /\ {k \in R : k >= n + 1} = {k \in R : k > n}
<1> DEFINE G == {k \in R : k >= n}
           L == {k \in R : k > n}
<1>1. n \in Nat /\ \A k \in R : k \in Nat
  OBVIOUS
<1>2. G \in SUBSET R /\ n \in G
  BY <1>1
<1>a. \A k \in R : (k > n <=> k >= n /\ k # n) /\ (k >= n + 1 <=> k > n)
  BY <1>1
<1>b. L = G \ {n} /\ {k \in R : k >= n + 1} = L
  BY <1>a, Zenon
<1> HIDE DEF G, L
<1>3. IsFiniteSet(R)
  <2>1. IsFiniteSet(1 .. m) /\ R \in SUBSET (1 .. m)
    BY FS_Interval
  <2> QED
    BY <2>1, FS_Subset, Zenon
<1>4. IsFiniteSet(G) /\ Cardinality(G) <= Cardinality(R)
  BY <1>2, <1>3, FS_Subset, Zenon
<1>5. IsFiniteSet(L) /\ Cardinality(L) = Cardinality(G) - 1
  BY <1>2, <1>b, <1>4, FS_RemoveElement, Zenon
<1>6. Cardinality(R) \in Nat /\ Cardinality(G) \in Nat /\ Cardinality(L) \in Nat
  BY <1>3, <1>4, <1>5, FS_CardinalityType, Zenon
<1> QED
  BY <1>b, <1>3, <1>4, <1>5, <1>6, Zenon DEF G, L

(* RuleInv holds at first: the collection is empty.                        *)
LEMMA RuleInit == Init => RuleInv
<1> SUFFICES ASSUME Init PROVE RuleInv
  OBVIOUS
<1>1. records = {} /\ signed = {} /\ status = "signed" /\ ppc = "idle"
  BY DEF Init, StoresInit, PubInit
<1>2. Stashes({}) = {} /\ Filters({}) = {}
  BY Zenon DEF Stashes, Filters
<1>3. IsFiniteSet({}) /\ Cardinality({}) = 0
  BY FS_EmptySet, Zenon
<1>4. SizeInv
  BY <1>1, <1>2, <1>3, PublisherAssumption DEF SizeInv, StashesOutweighNoFilter
<1>5. SeenInv /\ AgeInv
  BY <1>1, <1>2, Zenon DEF SeenInv, AgeInv
<1> QED
  BY <1>4, <1>5, Zenon DEF RuleInv

(* Steps of the job that do not write to the collection.                   *)
LEMMA ReadingRule ==
    ASSUME ShapeInv, RuleInv, ~Lagging, UNCHANGED stores,
           \/ ReadRecords \/ ClearDone \/ ListRuns \/ DetermineStartOver \/ DetermineAdd
           \/ DetermineKeyError \/ Measure \/ DownloadStash \/ Decide \/ DownloadTimesOut
           \/ AttachRefused \/ JobDies
    PROVE  RuleInv'
<1>1. UNCHANGED <<runs, records, signed, status>>
  BY Zenon DEF stores
<1>2. /\ SeenInv /\ SizeInv /\ AgeInv /\ JobShape
      /\ Len(runs) \in Nat /\ Len(runs) <= MaxRuns
      /\ records \subseteq Record /\ Stored(records) /\ Stored(signed)
      /\ firstRun \in Nat \ {0} /\ upload \subseteq 1 .. MaxRuns /\ MaxRuns \in Nat
  BY StoresAssumption
     DEF RuleInv, ShapeInv, TypeOK, StoresTypeOK, PubTypeOK, BucketInv
<1>3. /\ \A r, q \in records' : r.id = q.id => r = q
      /\ \A f, g \in Filters(records') : f = g
      /\ Filters(records') # {} => Newer(records)'
      /\ status' = "to-review" => Filters(records') # {}
      /\ IsFiniteSet(records') /\ Cardinality(Stashes(records')) <= StashesPerFilter
      /\ StashesOutweighNoFilter'
  BY <1>1, <1>2, Zenon DEF SeenInv, SizeInv, AgeInv, Newer, StashesOutweighNoFilter
<1>4. CASE JobEnds
  BY <1>3, <1>4, Zenon DEF JobEnds, RuleInv, SeenInv, SizeInv, AgeInv
<1>5. CASE ReadRecords
  <2>1. ReadOnlyView = records
    BY Zenon DEF ReadOnlyView
  <2>2. \/ ppc' = "list" /\ existing' = records /\ RecordsSane(records)
        \/ ppc' = "clearInsane" /\ existing' = {}
    BY <1>5, <2>1, Zenon DEF ReadRecords
  <2>3. RecordsSane(records) => records = {} \/ Filters(records) # {}
    BY Zenon DEF RecordsSane
  <2> QED
    BY <1>1, <1>3, <2>2, <2>3, Zenon DEF RuleInv, SeenInv, SizeInv, AgeInv
<1>6. CASE ClearDone
  <2>1. \/ ppc = "clearInsane" /\ ppc' = "list"
        \/ ppc = "clear" /\ ppc' = "measure"
        \/ ppc = "clearFull" /\ ppc' = "createFull"
    BY <1>6, Zenon DEF ClearDone
  <2>2. records = {} /\ UNCHANGED <<existing, clearAll, upload>>
    BY <1>6, Zenon DEF ClearDone
  <2>3. SeenInv'
    BY <1>1, <1>2, <1>3, <2>1, <2>2, Zenon DEF SeenInv
  <2>4. SizeInv'
    BY <1>3, <2>1, Zenon DEF SizeInv
  <2>5. AgeInv'
    BY <1>1, <1>2, <1>3, <2>1, <2>2, Zenon DEF AgeInv
  <2> QED
    BY <2>3, <2>4, <2>5, Zenon DEF RuleInv
<1>7. CASE ListRuns /\ ~JobEnds
  <2>1. /\ ppc = "list" /\ ppc' = "determine" /\ existing' = existing
        /\ RunIdentifiers # {} /\ listed' = RunIdentifiers
    BY <1>7, Zenon DEF ListRuns
  <2>2. firstRun <= Len(runs)
    BY <1>2, <2>1 DEF RunIdentifiers
  <2>3. Last(listed') = Len(runs)
    BY <1>2, <2>1, <2>2, IntervalEnds, Zenon DEF RunIdentifiers
  <2>4. \A r \in signed' \cup records' : r.run <= Last(listed')
    BY <1>1, <1>2, <2>3 DEF Stored
  <2>5. SeenInv'
    BY <1>1, <1>2, <1>3, <2>1, Zenon DEF SeenInv
  <2>6. AgeInv'
    BY <1>3, <2>1, <2>4, Zenon DEF AgeInv
  <2> QED
    BY <1>3, <2>1, <2>5, <2>6, Zenon DEF RuleInv, SizeInv
<1>8. CASE DetermineStartOver
  <2>1. ppc = "determine" /\ ppc' = "clear" /\ clearAll' /\ upload' = {Last(listed)}
    BY <1>8 DEF DetermineStartOver
  <2>2. Last(upload') = Last(listed)
    <3>1. PICK l : l = Last(listed)
      BY Zenon
    <3>2. l \in 1 .. Len(runs)
      BY <1>2, <2>1, <3>1, IntervalFacts, Zenon DEF JobShape
    <3>3. l \in Nat /\ l <= l /\ {l} = l .. l
      BY <1>2, <3>2
    <3>4. Last(l .. l) = l
      BY <3>3, IntervalEnds, Zenon
    <3>5. upload' = l .. l
      BY <2>1, <3>1, <3>3, Zenon
    <3> QED
      BY <3>1, <3>4, <3>5, Zenon
  <2>3. \A r \in signed' \cup records' : r.run <= Last(upload')
    BY <1>1, <1>2, <2>1, <2>2, Zenon DEF AgeInv
  <2>4. SeenInv'
    BY <1>3, <2>1, Zenon DEF SeenInv
  <2>5. AgeInv'
    BY <1>3, <2>1, <2>3, Zenon DEF AgeInv
  <2> QED
    BY <1>3, <2>1, <2>4, <2>5, Zenon DEF RuleInv, SizeInv
<1>9. CASE DetermineAdd
  <2>1. /\ ppc = "determine" /\ existing # {}
        /\ upload' = Unpublished /\ existing' = existing
        /\ Unpublished = {} => ppc' = "review"
        /\ Unpublished # {} => ppc' = "measure"
    BY <1>9, Zenon DEF DetermineAdd
  <2>2. existing = records /\ Filters(records) # {}
    BY <1>2, <2>1, Zenon DEF SeenInv
  <2>3. CASE Unpublished = {}
    BY <1>1, <1>3, <2>1, <2>2, <2>3, ZenonT(30) DEF RuleInv, SeenInv, SizeInv, AgeInv
  <2>4. CASE Unpublished # {}
    <3>1. Last(upload') = Last(listed)
      BY <1>2, <2>1, <2>4, UnpublishedInterval, Zenon DEF JobShape
    <3>2. \A r \in signed' \cup records' : r.run <= Last(upload')
      BY <1>1, <1>2, <2>1, <3>1, Zenon DEF AgeInv
    <3>3. SeenInv'
      BY <1>1, <1>3, <2>1, <2>2, <2>4, ZenonT(30) DEF SeenInv
    <3>4. AgeInv'
      BY <1>3, <2>1, <2>4, <3>2, Zenon DEF AgeInv
    <3> QED
      BY <1>3, <2>1, <2>4, <3>3, <3>4, ZenonT(30) DEF RuleInv, SizeInv
  <2> QED
    BY <2>3, <2>4, Zenon
<1>10. CASE (Measure /\ ~JobEnds) \/ DownloadStash
  <2>1. /\ ppc \in {"measure", "download"} /\ ppc' \in {"download", "decide"}
        /\ UNCHANGED <<existing, clearAll, upload>>
    BY <1>10, Zenon DEF Measure, DownloadStash
  <2>2. SeenInv'
    BY <1>1, <1>2, <1>3, <2>1, Zenon DEF SeenInv
  <2>3. AgeInv'
    BY <1>1, <1>2, <1>3, <2>1, Zenon DEF AgeInv
  <2> QED
    BY <1>3, <2>1, <2>2, <2>3, Zenon DEF RuleInv, SizeInv
<1>11. CASE Decide /\ NeedsFull
  <2>1. ppc = "decide" /\ ppc' = "clearFull" /\ UNCHANGED upload
    BY <1>11, Zenon DEF Decide
  <2>2. AgeInv'
    BY <1>1, <1>2, <1>3, <2>1, Zenon DEF AgeInv
  <2> QED
    BY <1>3, <2>1, <2>2, Zenon DEF RuleInv, SeenInv, SizeInv
<1>12. CASE Decide /\ ~NeedsFull
  <2>1. /\ ppc = "decide" /\ ppc' = "stash" /\ at' = First(upload) /\ UNCHANGED upload
        /\ ~clearAll
        /\ ~(Cardinality(Stashes(existing)) + Cardinality(upload) > StashesPerFilter)
    BY <1>12, Zenon DEF Decide, NeedsFull
  <2>2. existing = records /\ Filters(records) # {}
    BY <1>2, <2>1, Zenon DEF SeenInv
  <2>3. /\ upload \subseteq 1 .. MaxRuns /\ First(upload) \in upload
        /\ \A n \in upload : First(upload) <= n
    BY <1>2, <2>1, IntervalFacts, Zenon DEF JobShape
  <2>4. {n \in upload' : n >= at'} = upload
    BY <1>2, <2>1, <2>3, Zenon
  <2>5. Cardinality(upload) \in Nat /\ Cardinality(Stashes(records)) \in Nat
    BY <1>2, <2>3, RunsLeft, StashCount, Zenon DEF SizeInv
  <2>6. Cardinality(Stashes(records')) + Cardinality({n \in upload' : n >= at'})
          <= StashesPerFilter
    BY <1>1, <2>1, <2>2, <2>4, <2>5, PublisherAssumption
  <2>7. SeenInv'
    BY <1>3, <2>1, Zenon DEF SeenInv
  <2>8. SizeInv'
    BY <1>3, <2>1, <2>6, Zenon DEF SizeInv
  <2>9. AgeInv'
    BY <1>1, <1>3, <2>1, <2>2, Zenon DEF AgeInv
  <2> QED
    BY <2>7, <2>8, <2>9 DEF RuleInv
<1>13. CASE AttachRefused
  <2>1. ppc \in {"attachFull", "attachStash"} /\ ppc' = "dropRecord" /\ UNCHANGED previousId
    BY <1>13, Zenon DEF AttachRefused
  <2>2. /\ FilterCreated' \/ \E u \in Stashes(records') : u.id = previousId'
        /\ FilterCreated' \/ Newer({r \in records : r.id # previousId})'
        /\ status' = "work-in-progress"
    BY <1>1, <1>2, <2>1, Zenon DEF SeenInv, AgeInv, FilterCreated, Newer
  <2>3. SeenInv'
    BY <1>3, <2>1, <2>2, Zenon DEF SeenInv
  <2>4. AgeInv'
    BY <1>3, <2>1, <2>2, Zenon DEF AgeInv
  <2> QED
    BY <1>3, <2>1, <2>3, <2>4, Zenon DEF RuleInv, SizeInv
<1> QED
  BY <1>4, <1>5, <1>6, <1>7, <1>8, <1>9, <1>10, <1>11, <1>12, <1>13, ZenonT(30)
  DEF DetermineKeyError, DownloadTimesOut, JobDies

(* Attaching a file adds no stash and takes no filter away.                *)
LEMMA AttachedRule ==
    ASSUME NEW S, IsFiniteSet(S), NEW u \in S, NEW w, w.incremental = u.incremental,
           w.run = u.run, \A f, g \in Filters(S) : f = g,
           NEW T, T = (S \ {u}) \cup {w}
    PROVE  /\ IsFiniteSet(T)
           /\ Cardinality(Stashes(T)) \in Nat
           /\ Cardinality(Stashes(T)) <= Cardinality(Stashes(S))
           /\ \A f, g \in Filters(T) : f = g
           /\ Filters(S) # {} => Filters(T) # {}
           /\ \A q \in S : \E p \in T : p.run = q.run
<1>1. IsFiniteSet(S \ {u}) /\ IsFiniteSet(T)
  BY StashCount, Zenon
<1>2. \A f, g \in Filters(T) : f = g
  BY DEF Filters, IsFilter
<1>3. Filters(S) # {} => Filters(T) # {}
  BY DEF Filters, IsFilter
<1>4. \A q \in S : \E p \in T : p.run = q.run
  OBVIOUS
<1>5. /\ Cardinality(Stashes(S)) \in Nat /\ Cardinality(Stashes(S \ {u})) \in Nat
      /\ Cardinality(Stashes(S \ {u})) <= Cardinality(Stashes(S))
      /\ u.incremental => Cardinality(Stashes(S \ {u})) = Cardinality(Stashes(S)) - 1
  BY StashCount, Zenon
<1>6. /\ Cardinality(Stashes(T)) \in Nat
      /\ Cardinality(Stashes(T)) <= Cardinality(Stashes(S \ {u})) + 1
      /\ ~w.incremental => Cardinality(Stashes(T)) = Cardinality(Stashes(S \ {u}))
  BY <1>1, StashCount, Zenon
<1>7. Cardinality(Stashes(T)) <= Cardinality(Stashes(S))
  <2>1. \/ Cardinality(Stashes(S \ {u})) = Cardinality(Stashes(S)) - 1
        \/ Cardinality(Stashes(T)) = Cardinality(Stashes(S \ {u}))
    BY <1>5, <1>6, Zenon
  <2> QED
    BY <1>5, <1>6, <2>1
<1> QED
  BY <1>1, <1>2, <1>3, <1>4, <1>6, <1>7, ZenonT(30)

(* Steps of the job that write to the collection, or request its review.   *)
LEMMA WritingRule ==
    ASSUME ShapeInv, RuleInv, UNCHANGED signed,
           \/ ClearRecord \/ CreateFull \/ CreateStash \/ AttachFull \/ AttachStash
           \/ DropRecord \/ RequestReview
    PROVE  RuleInv'
<1>1. /\ SeenInv /\ SizeInv /\ AgeInv /\ JobShape /\ PubTypeOK
      /\ Len(runs) \in Nat /\ Len(runs) <= MaxRuns
      /\ records \subseteq Record /\ upload \subseteq 1 .. MaxRuns /\ MaxRuns \in Nat
  BY StoresAssumption
     DEF RuleInv, ShapeInv, TypeOK, StoresTypeOK, PubTypeOK, BucketInv
<1>2. /\ \A r, q \in records : r.id = q.id => r = q
      /\ \A f, g \in Filters(records) : f = g
      /\ IsFiniteSet(records)
      /\ Cardinality(Stashes(records)) <= StashesPerFilter
  BY <1>1, Zenon DEF SeenInv, AgeInv, SizeInv
<1>3. StashesOutweighNoFilter'
  BY <1>1 DEF SizeInv, StashesOutweighNoFilter
<1>4. StashesPerFilter \in Nat
  BY PublisherAssumption, Zenon
<1>5. CASE ClearRecord
  <2>1. PICK rec \in records : (Filters(records) # {} => IsFilter(rec)) /\ records' = records \ {rec}
    BY <1>5, Zenon DEF ClearRecord, WriteRecords
  <2>2. /\ ppc \in {"clearInsane", "clear", "clearFull"}
        /\ UNCHANGED <<ppc, existing, clearAll, upload>> /\ status' = "work-in-progress"
    BY <1>5, Zenon DEF ClearRecord, WriteRecords, pubVars
  <2>3. Filters(records') = {}
    BY <1>2, <2>1 DEF Filters
  <2>4. /\ IsFiniteSet(records') /\ Cardinality(Stashes(records')) \in Nat
        /\ Cardinality(Stashes(records)) \in Nat
        /\ Cardinality(Stashes(records')) <= Cardinality(Stashes(records))
    BY <1>2, <2>1, StashCount, Zenon
  <2>5. Cardinality(Stashes(records')) <= StashesPerFilter
    BY <1>2, <1>4, <2>4
  <2>6. SeenInv'
    BY <1>1, <1>2, <2>1, <2>2, Zenon DEF SeenInv
  <2>7. SizeInv'
    BY <1>3, <2>2, <2>4, <2>5, Zenon DEF SizeInv
  <2>8. AgeInv'
    BY <1>1, <2>1, <2>2, <2>3, Zenon DEF AgeInv
  <2> QED
    BY <2>6, <2>7, <2>8, Zenon DEF RuleInv
<1>6. CASE CreateFull
  <2>1. ppc = "createFull" /\ ppc' = "attachFull" /\ CreateRecord(Last(upload), FALSE, NoParent)
    BY <1>6, Zenon DEF CreateFull
  <2>2. records = {} /\ Last(upload) \in 1 .. MaxRuns
    BY <1>1, <2>1, IntervalFacts, Zenon DEF SeenInv, JobShape
  <2>3. PICK u \in Record : /\ records' = records \cup {u} /\ u.id = previousId'
                            /\ u.run = Last(upload) /\ ~u.incremental
    BY <1>1, <2>1, <2>2, CreateFacts, ZenonT(30)
  <2>4. status' = "work-in-progress"
    BY <2>1 DEF CreateRecord, WriteRecords
  <2>5. records' = {u} /\ Filters(records') = {u} /\ IsFilter(u)
    BY <2>2, <2>3, Zenon DEF Filters, IsFilter
  <2>6. FilterCreated'
    BY <2>3, <2>5, Zenon DEF FilterCreated
  <2>7. Newer(records)'
    BY <1>1, <2>1, <2>3, <2>5, ZenonT(30) DEF AgeInv, Newer
  <2>8. IsFiniteSet(records') /\ Cardinality(Stashes(records')) <= StashesPerFilter
    BY <1>2, <2>3, StashCount, ZenonT(30)
  <2>9. SeenInv'
    BY <2>1, <2>4, <2>5, <2>6 DEF SeenInv
  <2>10. SizeInv'
    BY <1>3, <2>1, <2>8, Zenon DEF SizeInv
  <2>11. AgeInv'
    BY <2>1, <2>4, <2>5, <2>7, ZenonT(30) DEF AgeInv
  <2> QED
    BY <2>9, <2>10, <2>11 DEF RuleInv
<1>7. CASE CreateStash
  <2>1. /\ ppc = "stash" /\ ppc' = "attachStash" /\ CreateRecord(at, TRUE, previousId)
        /\ at' = at /\ upload' = upload
    BY <1>7, Zenon DEF CreateStash
  <2>2. at \in upload /\ at \in 1 .. MaxRuns /\ previousId \in Ids \cup {NoParent}
    BY <1>1, <2>1 DEF JobShape, PubTypeOK
  <2>3. PICK u \in Record : /\ records' = records \cup {u} /\ \A r \in records : r.id # u.id
                            /\ u.id = previousId' /\ u.run = at /\ u.incremental
    BY <1>1, <2>1, <2>2, CreateFacts, ZenonT(30)
  <2>4. status' = "work-in-progress"
    BY <2>1 DEF CreateRecord, WriteRecords
  <2>5. Filters(records') = Filters(records) /\ u \in Stashes(records')
    BY <2>3 DEF Filters, Stashes, IsFilter
  <2>6. Newer(records) /\ Filters(records) # {}
    BY <1>1, <2>1, Zenon DEF AgeInv
  <2>7. {r \in records' : r.id # previousId'} = records
    BY <2>3, Zenon
  <2>8. Newer(records)' /\ Newer({r \in records : r.id # previousId})'
    BY <2>3, <2>5, <2>6, <2>7, Zenon DEF Newer
  <2>9. \A r, q \in records' : r.id = q.id => r = q
    BY <1>2, <2>3
  <2>10. /\ IsFiniteSet(records') /\ Cardinality(Stashes(records')) \in Nat
         /\ Cardinality(Stashes(records)) \in Nat
         /\ Cardinality(Stashes(records')) <= Cardinality(Stashes(records)) + 1
    BY <1>2, <2>3, StashCount
  <2>11. /\ Cardinality({k \in upload : k >= at}) \in Nat
         /\ Cardinality({k \in upload : k > at}) \in Nat
         /\ Cardinality({k \in upload : k > at}) = Cardinality({k \in upload : k >= at}) - 1
    BY <1>1, <2>2, RunsLeft, Zenon
  <2>12. Cardinality(Stashes(records)) + Cardinality({k \in upload : k >= at})
           <= StashesPerFilter
    BY <1>1, <2>1 DEF SizeInv
  <2>13. Cardinality(Stashes(records')) + Cardinality({k \in upload : k > at})
           <= StashesPerFilter
    BY <1>4, <2>10, <2>11, <2>12
  <2>14. Cardinality(Stashes(records')) <= StashesPerFilter
    BY <1>4, <2>10, <2>11, <2>13
  <2>15. SeenInv'
    BY <2>1, <2>3, <2>4, <2>5, <2>9, Zenon DEF SeenInv
  <2>16. SizeInv'
    BY <1>3, <2>1, <2>10, <2>13, <2>14, Zenon DEF SizeInv
  <2>17. AgeInv'
    BY <1>2, <2>1, <2>4, <2>5, <2>8, Zenon DEF AgeInv
  <2> QED
    BY <2>15, <2>16, <2>17 DEF RuleInv
<1>8. CASE AttachFull \/ AttachStash
  <2>1. /\ ppc \in {"attachFull", "attachStash"} /\ AttachFile /\ upload' = upload
        /\ \/ ppc' = "review"
           \/ ppc = "attachStash" /\ ppc' = "stash" /\ at' = at + 1
    BY <1>8, Zenon DEF AttachFull, AttachStash
  <2>2. PICK u \in records : u.id = previousId
    BY <1>1, <2>1, Zenon DEF SeenInv, FilterCreated, Stashes
  <2>3. Newer(records) /\ Filters(records) # {}
    <3>1. FilterCreated => Filters(records) # {}
      BY Zenon DEF FilterCreated, Filters
    <3>2. Newer({r \in records : r.id # previousId}) => Filters(records) # {}
      BY Zenon DEF Newer, Filters
    <3>3. Filters(records) # {}
      BY <1>1, <2>1, <3>1, <3>2, Zenon DEF SeenInv, AgeInv
    <3> QED
      BY <1>1, <3>3, Zenon DEF AgeInv
  <2>4. PICK w \in Record : /\ records' = (records \ {u}) \cup {w}
                            /\ w.id = u.id /\ w.run = u.run /\ w.incremental = u.incremental
    BY <1>1, <1>2, <2>1, <2>2, AttachFacts, Zenon
  <2>5. status' = "work-in-progress"
    BY <2>1, Zenon DEF AttachFile, WriteRecords
  <2>6. \A r, q \in records' : r.id = q.id => r = q
    BY <1>2, <2>4, ZenonT(30)
  <2>7. /\ IsFiniteSet(records') /\ Cardinality(Stashes(records')) \in Nat
        /\ Cardinality(Stashes(records')) <= Cardinality(Stashes(records))
        /\ \A f, g \in Filters(records') : f = g
        /\ Filters(records') # {}
        /\ \A q \in records : \E p \in records' : p.run = q.run
    <3>1. PICK T : T = records'
      BY Zenon
    <3>2. T = (records \ {u}) \cup {w}
      BY <2>4, <3>1, Zenon
    <3>3. /\ IsFiniteSet(T) /\ Cardinality(Stashes(T)) \in Nat
          /\ Cardinality(Stashes(T)) <= Cardinality(Stashes(records))
          /\ \A f, g \in Filters(T) : f = g
          /\ Filters(T) # {}
          /\ \A q \in records : \E p \in T : p.run = q.run
      <4>1. /\ IsFiniteSet(records) /\ u \in records /\ w.incremental = u.incremental
            /\ w.run = u.run /\ \A f, g \in Filters(records) : f = g
        BY <1>2, <2>4, Zenon
      <4>2. IsFiniteSet(T) /\ Cardinality(Stashes(T)) \in Nat
        BY <3>2, <4>1, AttachedRule
      <4>3. Cardinality(Stashes(T)) <= Cardinality(Stashes(records))
        BY <3>2, <4>1, AttachedRule
      <4>4. \A f, g \in Filters(T) : f = g
        BY <3>2, <4>1, AttachedRule
      <4>5. Filters(T) # {}
        BY <2>3, <3>2, <4>1, AttachedRule
      <4>6. \A q \in records : \E p \in T : p.run = q.run
        BY <3>2, <4>1, AttachedRule, Zenon
      <4> QED
        BY <4>2, <4>3, <4>4, <4>5, <4>6, Zenon
    <3> QED
      BY <3>1, <3>3, Zenon
  <2>8. Newer(records)'
    BY <2>3, <2>7, Zenon DEF Newer
  <2>9. Cardinality(Stashes(records)) \in Nat
    BY <1>2, StashCount, Zenon
  <2>10. Cardinality(Stashes(records')) <= StashesPerFilter
    BY <1>2, <1>4, <2>7, <2>9
  <2>11. ASSUME ppc' = "stash"
         PROVE  Cardinality(Stashes(records')) + Cardinality({k \in upload' : k >= at'})
                  <= StashesPerFilter
    <3>1. ppc = "attachStash" /\ at' = at + 1 /\ at \in upload
      BY <1>1, <2>1, <2>11, Zenon DEF JobShape
    <3>2. {k \in upload : k >= at + 1} = {k \in upload : k > at}
      BY <1>1, <3>1, RunsLeft, Zenon
    <3>3. Cardinality({k \in upload : k > at}) \in Nat
      BY <1>1, <3>1, RunsLeft, Zenon
    <3>4. Cardinality(Stashes(records)) + Cardinality({k \in upload : k > at})
            <= StashesPerFilter
      BY <1>1, <3>1 DEF SizeInv
    <3>5. Cardinality(Stashes(records')) + Cardinality({k \in upload : k > at})
            <= StashesPerFilter
      BY <1>4, <2>7, <2>9, <3>3, <3>4
    <3> QED
      BY <2>1, <3>1, <3>2, <3>5, Zenon
  <2>12. SeenInv'
    BY <2>1, <2>6, Zenon DEF SeenInv
  <2>13. SizeInv'
    BY <1>3, <2>1, <2>7, <2>10, <2>11, Zenon DEF SizeInv
  <2>14. AgeInv'
    BY <2>1, <2>5, <2>7, <2>8, Zenon DEF AgeInv
  <2> QED
    BY <2>12, <2>13, <2>14, Zenon DEF RuleInv
<1>9. CASE DropRecord
  <2>1. /\ ppc = "dropRecord" /\ records' = {r \in records : r.id # previousId}
        /\ ppc' = "idle" /\ status' = "work-in-progress"
    BY <1>9, Zenon DEF DropRecord, WriteRecords, JobEnds
  <2>2. PICK u \in records : u.id = previousId
    BY <1>1, <2>1, Zenon DEF SeenInv, FilterCreated, Stashes
  <2>3. records' = records \ {u}
    BY <1>2, <2>1, <2>2, Zenon
  <2>4. /\ IsFiniteSet(records') /\ Cardinality(Stashes(records')) \in Nat
        /\ Cardinality(Stashes(records)) \in Nat
        /\ Cardinality(Stashes(records')) <= Cardinality(Stashes(records))
    BY <1>2, <2>3, StashCount, Zenon
  <2>5. Cardinality(Stashes(records')) <= StashesPerFilter
    BY <1>2, <1>4, <2>4
  <2>6. Filters(records') # {} => Newer(records)'
    <3>1. CASE FilterCreated
      BY <2>2, <2>3, <3>1 DEF FilterCreated, Filters
    <3>2. CASE Newer({r \in records : r.id # previousId})
      BY <2>1, <3>2 DEF Newer
    <3> QED
      BY <1>1, <2>1, <3>1, <3>2, Zenon DEF AgeInv
  <2>7. \A f, g \in Filters(records') : f = g
    BY <1>2, <2>3, Zenon DEF Filters
  <2>8. SeenInv'
    BY <1>2, <2>1, Zenon DEF SeenInv
  <2>9. SizeInv'
    BY <1>3, <2>1, <2>4, <2>5, Zenon DEF SizeInv
  <2>10. AgeInv'
    BY <2>1, <2>6, <2>7, Zenon DEF AgeInv
  <2> QED
    BY <2>8, <2>9, <2>10 DEF RuleInv
<1>10. CASE RequestReview
  <2>1. ppc = "review" /\ ppc' = "idle" /\ UNCHANGED records
    BY <1>10, Zenon DEF RequestReview, JobEnds
  <2>2. Filters(records) # {} /\ Newer(records)
    BY <1>1, <2>1, Zenon DEF AgeInv
  <2>3. Newer(records)'
    BY <2>1, <2>2, Zenon DEF Newer
  <2>4. SeenInv' /\ SizeInv'
    BY <1>2, <1>3, <2>1, Zenon DEF SeenInv, SizeInv
  <2>5. AgeInv'
    BY <1>2, <2>1, <2>2, <2>3, Zenon DEF AgeInv
  <2> QED
    BY <2>4, <2>5, Zenon DEF RuleInv
<1> QED
  BY <1>5, <1>6, <1>7, <1>8, <1>9, <1>10, ZenonT(30)

(* RuleInv is inductive when the job reads the server it writes to.        *)
LEMMA RuleNext ==
    ASSUME ~Lagging
    PROVE  ShapeInv /\ RuleInv /\ [Next]_vars => RuleInv'
<1> SUFFICES ASSUME ShapeInv, RuleInv, [Next]_vars PROVE RuleInv'
  BY Zenon
<1>1. CASE Publishing
  <2>1. signed' = signed
    BY <1>1, Zenon DEF Publishing, PubStep, PubFault, ReadRecords, ClearRecord, ClearDone, ListRuns,
       DetermineStartOver, DetermineAdd, DetermineKeyError, Measure, DownloadStash, Decide,
       DownloadTimesOut, CreateFull, CreateStash, AttachFull, AttachStash, AttachRefused,
       DropRecord, RequestReview, JobDies, stores
  <2>2. CASE \/ ClearRecord \/ CreateFull \/ CreateStash \/ AttachFull \/ AttachStash
             \/ DropRecord \/ RequestReview
    BY <2>1, <2>2, WritingRule
  <2>3. CASE \/ ReadRecords \/ ClearDone \/ ListRuns \/ DetermineStartOver \/ DetermineAdd
             \/ DetermineKeyError \/ Measure \/ DownloadStash \/ Decide \/ DownloadTimesOut
             \/ AttachRefused \/ JobDies
    <3>1. UNCHANGED stores
      BY <2>3 DEF ReadRecords, ClearDone, ListRuns, DetermineStartOver, DetermineAdd,
          DetermineKeyError, Measure, DownloadStash, Decide, DownloadTimesOut, AttachRefused,
          JobDies
    <3> QED
      BY <2>3, <3>1, ReadingRule
  <2> QED
    BY <1>1, <2>2, <2>3, Zenon DEF Publishing, PubStep, PubFault
<1>2. CASE SigningOff
  <2>1. UNCHANGED <<records, pubVars>>
    BY <1>2, Zenon DEF SigningOff, SignoffStep, SignoffDies, Verify, CheckStatus, Sign, stores
  <2>2. \/ UNCHANGED <<signed, status>>
        \/ status = "to-review" /\ signed' = records /\ status' = "signed"
    BY <1>2, Zenon DEF SigningOff, SignoffStep, SignoffDies, Verify, CheckStatus, Sign, stores
  <2>3. CASE UNCHANGED <<signed, status>>
    BY <2>1, <2>3, ZenonT(30) DEF RuleInv, SeenInv, SizeInv, AgeInv, FilterCreated, Newer,
       StashesOutweighNoFilter, pubVars
  <2>4. CASE status = "to-review" /\ signed' = records /\ status' = "signed"
    <3>1. /\ SeenInv /\ SizeInv /\ AgeInv /\ records \subseteq Record
          /\ ppc \notin {"attachFull", "attachStash", "dropRecord"}
      BY <2>4, Zenon DEF RuleInv, SeenInv, ShapeInv, TypeOK, StoresTypeOK
    <3>2. \A r \in records : r.run <= r.run
      BY <3>1, RecordFacts, StoresAssumption
    <3>3. Newer(records)'
      BY <2>1, <2>4, <3>1, <3>2, Zenon DEF AgeInv, Newer
    <3>4. SeenInv'
      BY <2>1, <2>4, <3>1, Zenon DEF SeenInv, pubVars
    <3>5. SizeInv'
      BY <2>1, <2>4, <3>1, Zenon DEF SizeInv, StashesOutweighNoFilter, pubVars
    <3>6. AgeInv'
      BY <2>1, <2>4, <3>1, <3>3, Zenon DEF AgeInv, pubVars
    <3> QED
      BY <3>4, <3>5, <3>6 DEF RuleInv
  <2> QED
    BY <2>2, <2>3, <2>4, Zenon
<1>3. CASE Generating \/ Environment \/ CalmDown \/ UNCHANGED vars
  <2>1. UNCHANGED <<records, signed, status, pubVars>>
    BY <1>3 DEF Generating, GenStep, GenFault, Allocate, GenerateWithStash,
         GenerateWithoutStash, GenerateFails, UploadTimestamp, UploadFile, UploadCompleted,
         UploadFails, Environment, Sync, ExpireRun, CalmDown, vars, stores
  <2> QED
    BY <2>1, ZenonT(30) DEF RuleInv, SeenInv, SizeInv, AgeInv, FilterCreated, Newer,
       StashesOutweighNoFilter, pubVars
<1> QED
  BY <1>1, <1>2, <1>3, Zenon DEF Next

(* The stashes Firefox downloads never outweigh the filter that could      *)
(* replace them, whatever jobs die and however many runs a day has: the    *)
(* sum publish_crlite takes is over all that is in the collection, as long *)
(* as the read-only server does not lag.                                   *)
THEOREM SizeRuleHolds ==
    ASSUME ~Lagging
    PROVE  Spec => []StashesOutweighNoFilter
<1>1. ShapeInv /\ RuleInv /\ [Next]_vars => RuleInv'
  BY RuleNext, Zenon
<1>2. RuleInv => StashesOutweighNoFilter
  BY DEF RuleInv, SizeInv
<1> QED
  BY <1>1, <1>2, RuleInit, ShapeInvariant, PTL DEF Spec

(* Signing never takes Firefox back to an older run, although a job may    *)
(* die after it has cleared the collection, or have to drop the record it  *)
(* has just created, and although runs expire.                             *)
THEOREM NeverSignsOlder ==
    ASSUME ~Lagging
    PROVE  Spec => SignedNeverOlder
<1> DEFINE A == \A r \in signed : \E q \in signed' : r.run <= q.run
<1>1. ShapeInv /\ RuleInv /\ [Next]_vars => [A]_signed
  <2> SUFFICES ASSUME RuleInv, [Next]_vars, signed' # signed PROVE A
    BY Zenon
  <2>1. status = "to-review" /\ signed' = records
    BY Zenon DEF Next, Environment, Sync, ExpireRun, Generating, GenStep, GenFault, Allocate,
       GenerateWithStash, GenerateWithoutStash, GenerateFails, UploadTimestamp, UploadFile,
       UploadCompleted, UploadFails, Publishing, PubStep, PubFault, ReadRecords, ClearRecord,
       ClearDone, ListRuns, DetermineStartOver, DetermineAdd, DetermineKeyError, Measure,
       DownloadStash, Decide, DownloadTimesOut, CreateFull, CreateStash, AttachFull,
       AttachStash, AttachRefused, DropRecord, RequestReview, JobDies, SigningOff,
       SignoffStep, SignoffDies, Verify, CheckStatus, Sign, CalmDown, vars, stores
  <2> QED
    BY <2>1, Zenon DEF RuleInv, AgeInv, Newer
<1>2. ShapeInv /\ RuleInv /\ [Next]_vars => RuleInv'
  BY RuleNext
<1> QED
  BY <1>1, <1>2, RuleInit, ShapeInvariant, PTL DEF Spec, SignedNeverOlder

-----------------------------------------------------------------------------
(* The indices of a day stay below ten.                                    *)

(* The day of an hour began at most 23 hours before it.                    *)
LEMMA HourOfDay == \A a \in Nat : 24 * (a \div 24) <= a /\ a < 24 * (a \div 24) + 24
OBVIOUS

(* One more run, at least three hours later.                               *)
LEMMA IndexStep ==
    \A i, t, d, c, k \in Nat :
        k >= 3 /\ t <= c /\ 3 * i <= t - 24 * d => 3 * (i + 1) <= c + k - 24 * d
OBVIOUS

(* 0-allocate_identifier keeps the index behind the hour of the day.       *)
LEMMA AllocateIndex ==
    ASSUME Cadence >= 3, ShapeInv, IndexInv, Allocate
    PROVE  IndexInv'
<1> DEFINE date == (clock + Cadence) \div 24
<1>1. /\ clock \in Nat /\ Cadence \in Nat /\ Len(runs) \in Nat /\ runs \in Seq(Run)
      /\ firstRun \in Nat \ {0} /\ UNCHANGED <<runs, firstRun>>
  BY GenerateAssumption DEF ShapeInv, TypeOK, StoresTypeOK, GenTypeOK, Allocate, stores
<1>2. draft'.date = date /\ draft'.idx = NextIdx(date) /\ draft'.time = clock + Cadence
  BY DEF Allocate
<1>3. date \in Nat /\ 24 * date <= clock + Cadence
  BY <1>1, DivFacts, HourOfDay
<1> HIDE DEF date
<1>4. ASSUME RunIdentifiers # {} /\ runs[Len(runs)].date = date
      PROVE  3 * NextIdx(date) <= clock + Cadence - 24 * date
  <2>1. Len(runs) \in 1 .. Len(runs)
    <3>1. firstRun .. Len(runs) # {}
      BY <1>4, Zenon DEF RunIdentifiers
    <3> QED
      BY <1>1, <3>1
  <2>2. runs[Len(runs)] \in Run /\ EarlyIndex(runs[Len(runs)]) /\ runs[Len(runs)].time <= clock
    BY <1>1, <2>1 DEF IndexInv, ShapeInv, BucketInv
  <2>3. 3 * (runs[Len(runs)].idx + 1) <= clock + Cadence - 24 * date
    <3>1. /\ runs[Len(runs)].idx \in Nat /\ runs[Len(runs)].time \in Nat
          /\ 3 * runs[Len(runs)].idx <= runs[Len(runs)].time - 24 * date
      BY <1>4, <2>2, RunFacts, Zenon DEF EarlyIndex
    <3> QED
      BY <1>1, <1>3, <2>2, <3>1, IndexStep, Zenon
  <2>4. NextIdx(date) = runs[Len(runs)].idx + 1
    BY <1>4 DEF NextIdx
  <2> QED
    BY <2>3, <2>4, Zenon
<1>5. ASSUME ~(RunIdentifiers # {} /\ runs[Len(runs)].date = date)
      PROVE  3 * NextIdx(date) <= clock + Cadence - 24 * date
  <2>1. NextIdx(date) = 0
    BY <1>5, Zenon DEF NextIdx
  <2>2. 3 * 0 <= clock + Cadence - 24 * date
    BY <1>1, <1>3
  <2> QED
    BY <2>1, <2>2, Zenon
<1>6. 3 * NextIdx(date) <= clock + Cadence - 24 * date
  BY <1>4, <1>5, Zenon
<1>7. EarlyIndex(draft')
  <2>1. draft'.idx \in Nat
    BY AllocateBucket, RunFacts, Zenon DEF ShapeInv, TypeOK, StoresTypeOK, GenTypeOK
  <2> QED
    BY <1>1, <1>2, <1>3, <1>6, <2>1 DEF EarlyIndex
<1> QED
  BY <1>1, <1>7, Zenon DEF IndexInv

(* Building and uploading a run change neither its identifier nor its time.*)
LEMMA UploadIndex ==
    ASSUME ShapeInv, IndexInv, Generating, ~Allocate
    PROVE  IndexInv'
<1>1. /\ runs \in Seq(Run) /\ draft \in Run /\ Len(runs) \in Nat /\ BucketInv
  BY DEF ShapeInv, TypeOK, StoresTypeOK, GenTypeOK
<1>2. CASE GenFault
  <2>1. UNCHANGED runs /\ gpc' = "idle"
    BY <1>2, Zenon DEF GenFault, GenerateFails, UploadFails, stores
  <2> QED
    BY <2>1 DEF IndexInv, EarlyIndex, Pending
<1>3. CASE GenerateWithStash \/ GenerateWithoutStash
  <2>1. UNCHANGED runs /\ gpc = "allocated"
    BY <1>3, Zenon DEF GenerateWithStash, GenerateWithoutStash, stores
  <2>2. draft'.date = draft.date /\ draft'.idx = draft.idx /\ draft'.time = draft.time
    BY <1>1, <1>3, Zenon DEF GenerateWithStash, GenerateWithoutStash, Run
  <2> QED
    BY <2>1, <2>2 DEF IndexInv, EarlyIndex, Pending
<1>4. CASE UploadTimestamp
  <2> DEFINE new == [draft EXCEPT !.files = {"timestamp"}]
  <2>1. Pending /\ runs' = Append(runs, new) /\ ~Pending'
    <3>1. "timestamp" \notin draft'.files /\ gpc' = "uploading"
      BY <1>1, <1>4, Zenon DEF UploadTimestamp, Run
    <3> QED
      BY <1>4, <3>1 DEF UploadTimestamp, Pending
  <2>2. new \in Run /\ new.date = draft.date /\ new.idx = draft.idx /\ new.time = draft.time
    BY <1>1, Zenon DEF Run, Files
  <2>3. EarlyIndex(new)
    BY <2>1, <2>2, Zenon DEF IndexInv, EarlyIndex
  <2> HIDE DEF new
  <2>4. \A n \in 1 .. Len(runs') : runs'[n] = new \/ (n \in 1 .. Len(runs) /\ runs'[n] = runs[n])
    BY <1>1, <2>1, <2>2
  <2>5. \A n \in 1 .. Len(runs') : EarlyIndex(runs'[n])
    BY <2>3, <2>4, Zenon DEF IndexInv
  <2> QED
    BY <2>1, <2>5, Zenon DEF IndexInv, EarlyIndex
<1>5. CASE UploadCompleted \/ \E f \in Files : UploadFile(f)
  <2>1. Len(runs) >= 1 /\ \E f \in Files : runs' = [runs EXCEPT ![Len(runs)] = WithFile(@, f)]
    BY <1>1, <1>5 DEF UploadCompleted, UploadFile, BucketInv, Pending, Files
  <2>2. /\ Len(runs') = Len(runs)
        /\ \A n \in 1 .. Len(runs) :
             /\ runs'[n].time = runs[n].time /\ runs'[n].date = runs[n].date
             /\ runs'[n].idx = runs[n].idx
    BY <1>1, <2>1, FileAdded, Zenon
  <2>3. ~Pending'
    <3>1. CASE UploadCompleted
      BY <3>1 DEF UploadCompleted, Pending
    <3>2. ASSUME NEW f \in Files, UploadFile(f) PROVE ~Pending'
      <4>1. draft' = [draft EXCEPT !.files = @ \ {f}] /\ "timestamp" \notin draft.files
            /\ gpc' = "uploading"
        BY <3>2 DEF UploadFile
      <4>2. draft'.files = draft.files \ {f}
        BY <1>1, <4>1, Zenon DEF Run
      <4> QED
        BY <4>1, <4>2 DEF Pending
    <3> QED
      BY <1>5, <3>1, <3>2
  <2> QED
    BY <2>2, <2>3 DEF IndexInv, EarlyIndex
<1> QED
  BY <1>2, <1>3, <1>4, <1>5, Zenon DEF Generating, GenStep

(* IndexInv is inductive.                                                  *)
LEMMA IndexNext ==
    ASSUME Cadence >= 3
    PROVE  ShapeInv /\ IndexInv /\ [Next]_vars => IndexInv'
<1> SUFFICES ASSUME ShapeInv, IndexInv, [Next]_vars PROVE IndexInv'
  BY Zenon
<1>1. CASE Generating
  BY <1>1, AllocateIndex, UploadIndex, Zenon
<1>2. CASE Environment \/ Publishing \/ SigningOff \/ CalmDown \/ UNCHANGED vars
  <2>1. UNCHANGED <<runs, genVars>>
    BY <1>2, PublishingFrame, SigningOffFrame, Zenon
    DEF Environment, Sync, ExpireRun, CalmDown, vars, stores
  <2> QED
    BY <2>1 DEF IndexInv, EarlyIndex, Pending, genVars
<1> QED
  BY <1>1, <1>2, Zenon DEF Next

(* A day has at most eight runs when generate is started every third hour  *)
(* or less often (the deployment starts it every sixth), so the identifiers*)
(* of a day, compared as text, stay in the order of the runs.              *)
THEOREM IndexStaysShort ==
    ASSUME Cadence >= 3
    PROVE  Spec => []SingleDigit
<1>1. Init => IndexInv
  BY DEF Init, StoresInit, GenInit, IndexInv, Pending
<1>2. ShapeInv /\ IndexInv => SingleDigit
  <2> SUFFICES ASSUME ShapeInv, IndexInv, NEW n \in 1 .. Len(runs) PROVE runs[n].idx < 10
    BY DEF SingleDigit
  <2>1. runs \in Seq(Run) /\ BucketInv
    BY Zenon DEF ShapeInv, TypeOK, StoresTypeOK
  <2>2. runs[n] \in Run
    BY <2>1
  <2>3. /\ runs[n].date = runs[n].time \div 24
        /\ 3 * runs[n].idx <= runs[n].time - 24 * runs[n].date
    BY <2>1, Zenon DEF BucketInv, IndexInv, EarlyIndex
  <2> QED
    BY <2>2, <2>3, RunFacts, HourOfDay
<1>3. ShapeInv /\ IndexInv /\ [Next]_vars => IndexInv'
  BY IndexNext
<1> QED
  BY <1>1, <1>2, <1>3, ShapeInvariant, PTL DEF Spec

(* So, started every third hour or less often, the three jobs keep what    *)
(* Firefox downloads complete, with no condition on the indices.           *)
THEOREM CoverageAtCadence ==
    ASSUME ~Lagging, Cadence >= 3
    PROVE  Spec => []SignedCovers
<1>1. Spec => []SingleDigit
  BY IndexStaysShort
<1>2. Spec /\ []SingleDigit => []SignedCovers
  BY CoverageHolds
<1> QED
  BY <1>1, <1>2, PTL

(* And no run is published twice.                                          *)
THEOREM PublishedOnceAtCadence ==
    ASSUME ~Lagging, Cadence >= 3
    PROVE  Spec => NoRunRepublished
<1>1. Spec => []SingleDigit
  BY IndexStaysShort
<1>2. Spec /\ []SingleDigit => NoRunRepublished
  BY RunsPublishedOnce
<1> QED
  BY <1>1, <1>2, PTL

-----------------------------------------------------------------------------
(* The jobs implement the list ClientView describes.                       *)

(* The latest run of a set of records, 0 when it is empty.                 *)
LEMMA LatestRun ==
    ASSUME NEW S, S \subseteq Record
    PROVE  LET n == Last({0} \cup {r.run : r \in S}) IN
           /\ n \in 0 .. MaxRuns
           /\ n = 0 \/ \E r \in S : r.run = n
           /\ \A r \in S : r.run <= n
<1> DEFINE R == {0} \cup {r.run : r \in S}
<1>1. R \subseteq 0 .. MaxRuns /\ R # {} /\ MaxRuns \in Nat
  <2>1. \A r \in S : r.run \in 1 .. MaxRuns
    BY RecordFacts, Zenon
  <2> QED
    BY <2>1, StoresAssumption
<1> HIDE DEF R
<1>2. \E m \in R : \A n \in R : n <= m
  BY <1>1, HasMaximum, Zenon
<1>3. Last(R) \in R /\ \A n \in R : n <= Last(R)
  BY <1>2, Zenon DEF Last
<1>4. Last(R) \in 0 .. MaxRuns
  BY <1>1, <1>3, Zenon
<1>5. /\ Last(R) = 0 \/ \E r \in S : r.run = Last(R)
      /\ \A r \in S : r.run <= Last(R)
  BY <1>3, Zenon DEF R
<1> QED
  BY <1>4, <1>5, Zenon DEF R

(* A stash Firefox has is the difference to the run before.                *)
LEMMA SoundClient == ShapeInv /\ CoverInv => ClientInv
<1> SUFFICES ASSUME ShapeInv, CoverInv PROVE ClientInv
  OBVIOUS
<1>1. SignedCovers
  BY SoundCovers
<1>2. /\ Stored(signed) /\ BucketInv
      /\ \A r \in signed : r.attached
  BY Zenon DEF ShapeInv, CoverInv, Sound
<1>3. ASSUME NEW q \in signed PROVE Keys(q) = Content(q)
  <2>1. q.incremental => runs[q.run].prev = q.run - 1
    BY <1>2, Zenon DEF Stored, BucketInv
  <2> QED
    BY <2>1, Zenon DEF Keys, Content, StashKeys, IsFilter
<1>4. ASSUME NEW c PROVE c \in Cover(signed) <=> c \in UNION {Keys(r) : r \in signed}
  BY <1>2, <1>3, Zenon DEF Cover
<1> QED
  BY <1>1, <1>4, Zenon DEF ClientInv

(* A step of the jobs is a step of the list or leaves it alone.            *)
LEMMA ClientStep ==
    ShapeInv /\ ShapeInv' /\ RuleInv /\ ClientInv /\ ClientInv' /\ [Next]_vars
      => [Client!Next]_(Client!clientVars)
<1> SUFFICES ASSUME ShapeInv, ShapeInv', RuleInv, ClientInv, ClientInv', [Next]_vars
             PROVE  [Client!Next]_(Client!clientVars)
  OBVIOUS
<1>1. CASE signed' = signed
  <2>1. SignedUpto' = SignedUpto
    BY <1>1, Zenon DEF SignedUpto
  <2>2. Cover(signed)' = Cover(signed)
    BY <1>1, Zenon DEF ClientInv
  <2> QED
    BY <2>1, <2>2, Zenon DEF Client!clientVars
<1>2. CASE signed' # signed
  <2> DEFINE n == SignedUpto'
  <2>1. status = "to-review" /\ signed' = records
    BY <1>2, Zenon DEF Next, Environment, Sync, ExpireRun, Generating, GenStep, GenFault, Allocate,
       GenerateWithStash, GenerateWithoutStash, GenerateFails, UploadTimestamp, UploadFile,
       UploadCompleted, UploadFails, Publishing, PubStep, PubFault, ReadRecords, ClearRecord,
       ClearDone, ListRuns, DetermineStartOver, DetermineAdd, DetermineKeyError, Measure,
       DownloadStash, Decide, DownloadTimesOut, CreateFull, CreateStash, AttachFull,
       AttachStash, AttachRefused, DropRecord, RequestReview, JobDies, SigningOff,
       SignoffStep, SignoffDies, Verify, CheckStatus, Sign, CalmDown, vars, stores
  <2>2. /\ signed \subseteq Record /\ signed' \subseteq Record /\ MaxRuns \in Nat
        /\ Filters(signed') # {} /\ \A r \in signed : \E q \in signed' : r.run <= q.run
    BY <2>1, StoresAssumption, Zenon DEF ShapeInv, TypeOK, StoresTypeOK, RuleInv, AgeInv, Newer
  <2>3. /\ SignedUpto \in 0 .. MaxRuns
        /\ SignedUpto = 0 \/ \E r \in signed : r.run = SignedUpto
        /\ n \in 0 .. MaxRuns
        /\ n = 0 \/ \E r \in signed' : r.run = n
        /\ \A r \in signed' : r.run <= n
    BY <2>2, LatestRun, Zenon DEF SignedUpto
  <2> HIDE DEF n
  <2>4. PICK f \in Filters(signed') : TRUE
    BY <2>2, Zenon
  <2>5. f \in signed' /\ f.run \in 1 .. MaxRuns /\ f.run <= n
    BY <2>2, <2>3, <2>4, RecordFacts, Zenon DEF Filters
  <2>6. n \in 1 .. MaxRuns
    BY <2>2, <2>3, <2>5
  <2>7. PICK q \in signed' : q.run = n
    BY <2>3, <2>6
  <2>8. n >= SignedUpto
    <3>1. CASE SignedUpto = 0
      BY <2>6, <3>1
    <3>2. ASSUME NEW r \in signed, r.run = SignedUpto PROVE n >= SignedUpto
      <4>1. PICK p \in signed' : r.run <= p.run
        BY <2>2
      <4>2. p.run \in 1 .. MaxRuns /\ p.run <= n
        BY <2>2, <2>3, RecordFacts, Zenon
      <4> QED
        BY <2>2, <2>3, <2>6, <3>2, <4>1, <4>2
    <3> QED
      BY <2>3, <3>1, <3>2
  <2>9. Revoked[n] \subseteq Cover(signed)'
    <3>1. n <= q.run
      BY <2>6, <2>7
    <3>2. n \in PublishedRuns(signed)'
      BY <2>4, <2>5, <2>6, <3>1, Zenon DEF PublishedRuns
    <3> QED
      BY <2>5, <3>2, Zenon DEF ClientInv, SignedCovers
  <2>10. Cover(signed)' \subseteq UNION {Revoked[m] : m \in 1 .. n}
    <3>1. Cover(signed)' = UNION {Keys(r) : r \in signed'}
      BY Zenon DEF ClientInv
    <3> SUFFICES ASSUME NEW c \in Cover(signed)' PROVE \E m \in 1 .. n : c \in Revoked[m]
      BY Zenon
    <3>2. PICK r \in signed' : c \in Keys(r)
      BY <3>1, Zenon
    <3>3. c \in Revoked[r.run]
      BY <3>2, Zenon DEF Keys
    <3>4. r.run \in 1 .. MaxRuns /\ r.run <= n
      BY <2>2, <2>3, RecordFacts, Zenon
    <3> QED
      BY <2>6, <3>3, <3>4
  <2>11. Client!Publish(n)
    BY <2>8, <2>9, <2>10, Zenon DEF Client!Publish, n
  <2> QED
    BY <2>6, <2>11, Zenon DEF Client!Next
<1> QED
  BY <1>1, <1>2

(* The three jobs implement ClientView: with the read-only server in step  *)
(* and generate started every third hour or less often, all that Firefox   *)
(* sees of them is a list of revoked keys that moves on to later runs, is  *)
(* complete as of its run and has no key that no run found revoked.        *)
THEOREM ImplementsClientView ==
    ASSUME ~Lagging, Cadence >= 3
    PROVE  Spec => ServesClients
<1>1. Init => Client!Init
  <2> SUFFICES ASSUME Init PROVE Client!Init
    OBVIOUS
  <2>1. signed = {}
    BY Zenon DEF Init, StoresInit
  <2>2. {0} \cup {r.run : r \in signed} = {0}
    BY <2>1, Zenon
  <2>3. SignedUpto = 0
    <3>1. \E r \in {0} : \A q \in {0} : q <= r
      OBVIOUS
    <3>2. Last({0}) \in {0}
      BY <3>1, Zenon DEF Last
    <3> QED
      BY <2>2, <3>2, Zenon DEF SignedUpto
  <2>4. Cover(signed) = {}
    BY <2>1, Zenon DEF Cover
  <2> QED
    BY <2>3, <2>4, Zenon DEF Client!Init
<1>2. Spec => []SingleDigit
  BY IndexStaysShort
<1>3. ShapeInv /\ SingleDigit /\ CoverInv /\ [Next]_vars => CoverInv'
  BY CoverNext
<1>4. ShapeInv /\ RuleInv /\ [Next]_vars => RuleInv'
  BY RuleNext
<1> QED
  BY <1>1, <1>2, <1>3, <1>4, CoverInit, RuleInit, SoundClient, ClientStep, ShapeInvariant, PTL
  DEF Spec, ServesClients, Client!Spec
=============================================================================
