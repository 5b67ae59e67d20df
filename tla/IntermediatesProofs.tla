------------------------- MODULE IntermediatesProofs -------------------------
(***************************************************************************)
(* Proofs about publish_intermediates, for any intermediates, lists, runs  *)
(* and failing requests: the plan that a job makes at its start stays true *)
(* of the collection while the job works it off, whatever earlier jobs     *)
(* have left behind.                                                       *)
(***************************************************************************)
EXTENDS Intermediates, TLAPS

-----------------------------------------------------------------------------
(* What the job read of the collection: one complete record of each key.   *)
ReadInv ==
  /\ \A k \in DOMAIN remote :
       remote[k] \in Record /\ remote[k].key = k /\ remote[k].attached
  /\ \A k, l \in DOMAIN remote : remote[k].id = remote[l].id => k = l

(* What is left to clean, to delete and to update is there as it was read, *)
(* and has not been touched: no two of the loops deal with one record.     *)
LeftInv ==
  /\ \A r \in broken \cup current : ~r.attached
  /\ \A k \in toDelete : k \notin DOMAIN local
  /\ \A k \in toDelete \cup toUpdate : remote[k] \in records

(* What is left to upload is what the collection lacks.                    *)
LackInv ==
  /\ \A r \in records : r.attached => r.key \notin toUpload
  /\ \A k \in DOMAIN local \ toUpload : \E r \in records : r.attached /\ r.key = k
  /\ \A r \in current : r.key \in toUpload /\ broken = {} /\ toDelete = {}

PlanInv == ipc = "write" => ReadInv /\ LeftInv /\ LackInv

(* A job that is not running plans nothing.                                *)
IdleInv == ipc = "idle" => broken = {} /\ current = {}

IInv == TypeOK /\ NoDuplicates /\ PlanInv /\ IdleInv

-----------------------------------------------------------------------------
LEMMA NothingIsList == Nothing \in Lists
<1>1. Nothing \in [{} -> BOOLEAN]
  BY Zenon DEF Nothing
<1> QED
  BY <1>1, Zenon DEF Lists

LEMMA ListFacts ==
  ASSUME NEW f \in Lists
  PROVE  DOMAIN f \subseteq Inters /\ \A k \in DOMAIN f : f[k] \in BOOLEAN
<1>1. PICK D \in SUBSET Inters : f \in [D -> BOOLEAN]
  BY Zenon DEF Lists
<1> QED
  BY <1>1, Zenon

LEMMA IInit == Init => IInv
<1> SUFFICES ASSUME Init PROVE IInv
  BY Zenon
<1> USE DEF Init, JobStart
<1>1. enrolledJson \in Lists
  BY Zenon DEF Lists
<1>2. local \in Lists /\ DOMAIN remote = {} /\ DOMAIN local = {}
  BY NothingIsList, Zenon DEF Nothing
<1>3. runsLeft \in 0..MaxRuns
  BY IntermediatesAssumption
<1>4. TypeOK
  BY <1>1, <1>2, <1>3, Zenon DEF TypeOK
<1>5. NoDuplicates
  BY Zenon DEF NoDuplicates, Good
<1> QED
  BY <1>4, <1>5, Zenon DEF IInv, PlanInv, IdleInv

-----------------------------------------------------------------------------
(* A job that ends leaves no plan behind.                                  *)
LEMMA EndsFacts ==
  ASSUME JobEnds
  PROVE  /\ ipc' = "idle" /\ local' \in Lists /\ DOMAIN remote' = {}
         /\ broken' = {} /\ toDelete' = {} /\ toUpload' = {} /\ toUpdate' = {}
         /\ review' = FALSE /\ current' = {}
BY NothingIsList, Zenon DEF JobEnds, Nothing

LEMMA EndsKeep ==
  ASSUME IInv, JobEnds, UNCHANGED world, records' \subseteq records,
         status' \in {"work-in-progress", "to-review", "signed"}
  PROVE  IInv'
<1>1. TypeOK'
  BY EndsFacts, Zenon DEF IInv, TypeOK, world
<1>2. NoDuplicates'
  BY Zenon DEF IInv, NoDuplicates, Good, Broken
<1>3. PlanInv' /\ IdleInv'
  BY EndsFacts, Zenon DEF PlanInv, IdleInv
<1> QED
  BY <1>1, <1>2, <1>3, Zenon DEF IInv

(* The job compares the list with the collection.                          *)
LEMMA CompareKeeps ==
  ASSUME IInv, Compare
  PROVE  IInv'
<1>1. /\ ipc' = "write" /\ UNCHANGED <<world, kinto>> /\ local' = enrolledJson
      /\ broken' = Broken(records) /\ current' = {} /\ remote' \in ReadFrom(records)
      /\ toDelete' = DOMAIN remote' \ DOMAIN local'
      /\ toUpload' = DOMAIN local' \ DOMAIN remote'
      /\ toUpdate' \subseteq DOMAIN local' \cap DOMAIN remote'
      /\ review' \in BOOLEAN
  BY Zenon DEF Compare, NewKeys
<1>2. DOMAIN remote' = KeysOf(records)
  BY <1>1, Zenon DEF ReadFrom
<1>3. \A k \in DOMAIN remote' :
         remote'[k] \in records /\ remote'[k].attached /\ remote'[k].key = k
  BY <1>1, <1>2, Zenon DEF ReadFrom, Good, Broken
<1>4. \A k : k \in KeysOf(records) <=> \E r \in records : r.attached /\ r.key = k
  BY Zenon DEF KeysOf, Good, Broken
<1>5. DOMAIN remote' \subseteq Inters
  <2>1. \A r \in Record : r.key \in Inters
    BY DEF Record
  <2>2. records \subseteq Record
    BY Zenon DEF IInv, TypeOK
  <2> QED
    BY <1>3, <2>1, <2>2, Zenon
<1>6. TypeOK'
  <2>1. broken' \subseteq records' /\ current' \subseteq records'
    BY <1>1, Zenon DEF Broken, kinto
  <2> QED
    BY <1>1, <1>5, <2>1, Zenon DEF IInv, TypeOK, world, kinto
<1>7. NoDuplicates'
  BY <1>1, Zenon DEF IInv, NoDuplicates, Good, Broken, kinto
<1>8. ReadInv'
  <2>1. records \subseteq Record /\ \A r, q \in records : r.id = q.id => r = q
    BY Zenon DEF IInv, TypeOK
  <2>2. ASSUME NEW k \in DOMAIN remote', NEW l \in DOMAIN remote', remote'[k].id = remote'[l].id
        PROVE  k = l
    <3>1. remote'[k] = remote'[l]
      BY <1>3, <2>1, <2>2, Zenon
    <3>2. remote'[k].key = k /\ remote'[l].key = l
      BY <1>3, <2>2, Zenon
    <3> QED
      BY <3>1, <3>2
  <2>3. \A k \in DOMAIN remote' :
          remote'[k] \in Record /\ remote'[k].key = k /\ remote'[k].attached
    BY <1>3, <2>1, Zenon
  <2> QED
    BY <2>2, <2>3, Zenon DEF ReadInv
<1>9. LeftInv'
  BY <1>1, <1>3, Zenon DEF LeftInv, Broken, kinto
<1>10. LackInv'
  BY <1>1, <1>2, <1>4, Zenon DEF LackInv, kinto
<1> QED
  BY <1>1, <1>6, <1>7, <1>8, <1>9, <1>10, Zenon DEF IInv, PlanInv, IdleInv

-----------------------------------------------------------------------------
(* The steps of a job that works off its plan.                             *)

(* What the next steps have in common: the plan itself stays.              *)
Working ==
  /\ ipc = "write" /\ UNCHANGED <<world, ipc, plan>>
  /\ status' \in {"work-in-progress", "to-review", "signed"}

LEMMA WorkKeeps ==
  ASSUME IInv, Working, broken' \subseteq broken, toDelete' \subseteq toDelete,
         toUpload' \subseteq toUpload, toUpdate' \subseteq toUpdate,
         records' \subseteq Record, \A r, q \in records' : r.id = q.id => r = q,
         broken' \cup current' \subseteq records',
         NoDuplicates', LeftInv', LackInv'
  PROVE  IInv'
<1>1. TypeOK'
  BY Zenon DEF IInv, TypeOK, Working, world, plan
<1>2. ReadInv' /\ ipc' = "write"
  BY Zenon DEF IInv, PlanInv, ReadInv, Working, plan
<1> QED
  BY <1>1, <1>2, Zenon DEF IInv, PlanInv, IdleInv

(* What the invariant says of a job at work, spelled out.                  *)
LEMMA AtWork ==
  ASSUME IInv, ipc = "write"
  PROVE  /\ ReadInv /\ LeftInv /\ LackInv /\ NoDuplicates
         /\ records \subseteq Record /\ \A r, q \in records : r.id = q.id => r = q
         /\ broken \subseteq records /\ current \subseteq records
         /\ toDelete \subseteq DOMAIN remote /\ toUpdate \subseteq DOMAIN remote
         /\ toUpdate \subseteq DOMAIN local /\ toUpload \subseteq DOMAIN local
         /\ local \in Lists /\ status \in {"work-in-progress", "to-review", "signed"}
BY Zenon DEF IInv, PlanInv, TypeOK

(* A record that is deleted, with all it is known by its id.               *)
LEMMA WithoutId ==
  ASSUME IInv, NEW r \in records
  PROVE  records \ WithId(r.id) = records \ {r}
BY Zenon DEF IInv, TypeOK, WithId

(* Fewer records have no more duplicates.                                  *)
LEMMA FewerNoDuplicates ==
  ASSUME NoDuplicates, records' \subseteq records
  PROVE  NoDuplicates'
BY Zenon DEF NoDuplicates, Good, Broken

LEMMA CleanKeeps ==
  ASSUME IInv, NEW r \in broken, Clean(r)
  PROVE  IInv'
<1>1. /\ Working /\ broken' = broken \ {r}
      /\ UNCHANGED <<toDelete, toUpload, toUpdate, current, local, remote>>
      /\ records' = records \ WithId(r.id) \/ records' = records
  BY AtWork, Zenon DEF Clean, Working, Write, Cleaned, kinto, plan
<1>2. r \in records /\ ~r.attached /\ ipc = "write"
  BY <1>1, AtWork, Zenon DEF LeftInv, Working
<1>3. records' = records \ {r} \/ records' = records
  BY <1>1, <1>2, WithoutId, Zenon
<1>4. current = {}
  BY <1>2, AtWork, Zenon DEF LackInv
<1>5. LeftInv'
  <2>1. \A k \in toDelete \cup toUpdate : remote[k].attached
    BY <1>2, AtWork, Zenon DEF ReadInv
  <2>2. \A k \in toDelete \cup toUpdate : remote[k] # r
    BY <1>2, <2>1
  <2> QED
    BY <1>1, <1>2, <1>3, <2>2, AtWork, ZenonT(30) DEF LeftInv
<1>6. LackInv'
  BY <1>1, <1>2, <1>3, <1>4, AtWork, ZenonT(30) DEF LackInv
<1>7. NoDuplicates'
  BY <1>2, <1>3, AtWork, FewerNoDuplicates, Zenon
<1> QED
  BY <1>1, <1>2, <1>3, <1>4, <1>5, <1>6, <1>7, AtWork, WorkKeeps, ZenonT(30)

LEMMA DeleteKeeps ==
  ASSUME IInv, NEW k \in toDelete, DeleteFromKinto(k)
  PROVE  IInv'
<1>1. /\ Working /\ broken = {} /\ toDelete' = toDelete \ {k}
      /\ UNCHANGED <<broken, toUpload, toUpdate, current, local, remote>>
      /\ records' = records \ WithId(remote[k].id) \/ records' = records
  BY AtWork, Zenon DEF DeleteFromKinto, Working, Write, kinto, plan
<1>2. /\ remote[k] \in records /\ ipc = "write" /\ remote[k].attached /\ remote[k].key = k
      /\ k \notin DOMAIN local /\ current = {}
  BY <1>1, AtWork, Zenon DEF LeftInv, LackInv, ReadInv, Working
<1>3. records' = records \ {remote[k]} \/ records' = records
  BY <1>1, <1>2, WithoutId, Zenon
<1>4. \A l \in (toDelete \cup toUpdate) \ {k} : remote[l] # remote[k]
  BY <1>1, <1>2, AtWork, Zenon DEF ReadInv
<1>5. toUpdate = toUpdate \ {k}
  BY <1>2, AtWork, Zenon
<1>6. LeftInv'
  BY <1>1, <1>2, <1>3, <1>4, <1>5, AtWork, ZenonT(30) DEF LeftInv
<1>7. LackInv'
  BY <1>1, <1>2, <1>3, AtWork, ZenonT(30) DEF LackInv
<1>8. NoDuplicates'
  BY <1>2, <1>3, AtWork, FewerNoDuplicates, Zenon
<1> QED
  BY <1>1, <1>2, <1>3, <1>6, <1>7, <1>8, AtWork, WorkKeeps, ZenonT(30)

(* The record that is created has a fresh id and no attachment yet.        *)
LEMMA CreateKeeps ==
  ASSUME IInv, NEW k \in toUpload, CreateRecord(k)
  PROVE  IInv'
<1>1. /\ Working /\ broken = {} /\ toDelete = {} /\ current = {} /\ FreshIds # {}
      /\ UNCHANGED <<broken, toDelete, toUpload, toUpdate, local, remote>>
  BY Zenon DEF CreateRecord, Working, Write, plan
<1>2. PICK i \in FreshIds : i = CHOOSE j \in FreshIds : TRUE
  BY <1>1, Zenon
<1>3. PICK r : /\ r = [id |-> i, key |-> k, enrolled |-> local[k], attached |-> FALSE]
               /\ current' = {r} /\ records' = records \cup {r}
  BY <1>2, Zenon DEF CreateRecord, Write
<1>4. ipc = "write" /\ k \in Inters /\ local[k] \in BOOLEAN
  BY <1>1, AtWork, ListFacts, Zenon DEF Working
<1>5. r \in Record /\ r.id = i /\ r.key = k
  BY <1>2, <1>3, <1>4 DEF Record, FreshIds
<1>6. ~r.attached
  BY <1>3, Zenon
<1>7. \A q \in records : q.id # r.id
  BY <1>2, <1>5, Zenon DEF FreshIds
<1>8. \A p, q \in records' : p.id = q.id => p = q
  BY <1>3, <1>4, <1>7, AtWork, ZenonT(30)
<1>9. NoDuplicates'
  BY <1>3, <1>4, <1>6, AtWork, ZenonT(30) DEF NoDuplicates, Good, Broken
<1>10. LeftInv'
  BY <1>1, <1>3, <1>4, <1>6, AtWork, ZenonT(30) DEF LeftInv
<1>11. LackInv'
  BY <1>1, <1>3, <1>4, <1>5, <1>6, AtWork, ZenonT(30) DEF LackInv
<1> QED
  BY <1>1, <1>3, <1>4, <1>5, <1>8, <1>9, <1>10, <1>11, AtWork, WorkKeeps, ZenonT(30)

(* Its attachment makes the key one that the collection has.               *)
LEMMA UploadKeeps ==
  ASSUME IInv, NEW r \in current, UploadPem(r)
  PROVE  IInv'
<1>1. /\ Working /\ current' = {} /\ toUpload' = toUpload \ {r.key}
      /\ UNCHANGED <<broken, toDelete, toUpdate, local, remote>>
  BY Zenon DEF UploadPem, Working, Write, plan
<1>2. PICK q : q = [r EXCEPT !.attached = TRUE] /\ records' = (records \ {r}) \cup {q}
  BY Zenon DEF UploadPem, Write
<1>3. /\ ipc = "write" /\ r \in records /\ r \in Record /\ ~r.attached
      /\ r.key \in toUpload /\ broken = {} /\ toDelete = {}
  BY <1>1, AtWork, Zenon DEF Working, LeftInv, LackInv
<1>4. q \in Record /\ q.id = r.id /\ q.key = r.key /\ q.attached
  <2>1. q = [id |-> r.id, key |-> r.key, enrolled |-> r.enrolled, attached |-> TRUE]
    BY <1>2, <1>3 DEF Record
  <2>2. r.id \in Ids /\ r.key \in Inters /\ r.enrolled \in BOOLEAN
    BY <1>3 DEF Record
  <2>3. q.id = r.id /\ q.key = r.key
    BY <2>1
  <2>4. q.attached
    BY <2>1, Zenon
  <2>5. q \in Record
    BY <2>1, <2>2 DEF Record
  <2> QED
    BY <2>3, <2>4, <2>5, Zenon
<1>5. \A p \in records \ {r} : p.id # q.id /\ (p.attached => p.key # q.key)
  BY <1>3, <1>4, AtWork, ZenonT(30) DEF LackInv
<1>6. \A x, y \in records' : x.id = y.id => x = y
  BY <1>2, <1>3, <1>5, AtWork, ZenonT(30)
<1>7. NoDuplicates'
  <2>1. \A x, y \in records : x.attached /\ y.attached /\ x.key = y.key => x = y
    BY <1>3, AtWork, Zenon DEF NoDuplicates, Good, Broken
  <2>2. \A x, y \in records' : x.attached /\ y.attached /\ x.key = y.key => x = y
    BY <1>2, <1>5, <2>1, ZenonT(30)
  <2> QED
    BY <2>2, Zenon DEF NoDuplicates, Good, Broken
<1>8. LeftInv'
  <2>1. \A k \in toUpdate : remote[k].attached
    BY <1>3, AtWork, Zenon DEF ReadInv
  <2>2. \A k \in toUpdate : remote[k] # r
    BY <1>3, <2>1
  <2> QED
    BY <1>1, <1>2, <1>3, <2>2, AtWork, ZenonT(30) DEF LeftInv
<1>9. LackInv'
  <2>1. \A p \in records' : p.attached => p.key \notin toUpload'
    BY <1>1, <1>2, <1>3, <1>4, AtWork, ZenonT(30) DEF LackInv
  <2>2. ASSUME NEW k \in DOMAIN local, k \notin toUpload'
        PROVE  \E p \in records' : p.attached /\ p.key = k
    <3>1. CASE k = r.key
      BY <1>2, <1>4, <3>1, Zenon
    <3>2. CASE k # r.key
      BY <1>1, <1>2, <1>3, <2>2, <3>2, AtWork, ZenonT(30) DEF LackInv
    <3> QED
      BY <3>1, <3>2, Zenon
  <2> QED
    BY <1>1, <2>1, <2>2, Zenon DEF LackInv
<1> QED
  BY <1>1, <1>2, <1>3, <1>4, <1>6, <1>7, <1>8, <1>9, AtWork, WorkKeeps, ZenonT(30)

(* A record that is updated keeps its id, its key and its attachment.      *)
LEMMA UpdateKeeps ==
  ASSUME IInv, NEW k \in toUpdate, UpdateKinto(k)
  PROVE  IInv'
<1>1. /\ Working /\ broken = {} /\ toDelete = {} /\ toUpload = {} /\ toUpdate' = toUpdate \ {k}
      /\ UNCHANGED <<broken, toDelete, toUpload, current, local, remote>>
      /\ records' = Patched(k) \/ records' = records
  BY AtWork, Zenon DEF UpdateKinto, Working, Write, kinto, plan
<1>2. ipc = "write" /\ current = {}
  BY <1>1, AtWork, Zenon DEF Working, LackInv
<1>3. PICK r \in records : /\ r = remote[k] /\ r \in Record /\ r.attached
                           /\ local[k] \in BOOLEAN
  BY <1>2, AtWork, ListFacts, Zenon DEF LeftInv, ReadInv
<1>4. PICK q : q = [r EXCEPT !.enrolled = local[k]]
  BY Zenon
<1>5. q \in Record /\ q.id = r.id /\ q.key = r.key /\ q.attached
  <2>1. q = [id |-> r.id, key |-> r.key, enrolled |-> local[k], attached |-> r.attached]
    BY <1>3, <1>4 DEF Record
  <2>2. r.id \in Ids /\ r.key \in Inters /\ r.attached \in BOOLEAN
    BY <1>3 DEF Record
  <2>3. q.id = r.id /\ q.key = r.key
    BY <2>1
  <2>4. q.attached
    BY <1>3, <2>1, Zenon
  <2>5. q \in Record
    BY <1>3, <2>1, <2>2 DEF Record
  <2> QED
    BY <2>3, <2>4, <2>5, Zenon
<1>6. records' = (records \ {r}) \cup {q} \/ records' = records
  BY <1>1, <1>3, <1>4, WithoutId, Zenon DEF Patched
<1>7. \A p \in records \ {r} : p.id # q.id /\ (p.attached => p.key # q.key)
  BY <1>2, <1>3, <1>5, AtWork, ZenonT(30) DEF NoDuplicates, Good, Broken
<1>8. \A x, y \in records' : x.id = y.id => x = y
  BY <1>2, <1>6, <1>7, AtWork, ZenonT(30)
<1>9. NoDuplicates'
  BY <1>2, <1>6, <1>7, AtWork, ZenonT(30) DEF NoDuplicates, Good, Broken
<1>10. LeftInv'
  <2>1. \A l \in toUpdate \ {k} : remote[l] # r
    BY <1>2, <1>3, AtWork, Zenon DEF ReadInv
  <2> QED
    BY <1>1, <1>2, <1>6, <2>1, AtWork, ZenonT(30) DEF LeftInv
<1>11. LackInv'
  BY <1>1, <1>2, <1>5, <1>6, AtWork, ZenonT(30) DEF LackInv
<1> QED
  BY <1>1, <1>2, <1>5, <1>6, <1>8, <1>9, <1>10, <1>11, AtWork, WorkKeeps, ZenonT(30)

-----------------------------------------------------------------------------
LEMMA INext == IInv /\ [Next]_vars => IInv'
<1> SUFFICES ASSUME IInv, [Next]_vars PROVE IInv'
  BY Zenon
<1>1. status \in {"work-in-progress", "to-review", "signed"}
  BY Zenon DEF IInv, TypeOK
<1>2. ASSUME NEW r \in current, UploadRefused(r) PROVE IInv'
  BY <1>2, EndsKeep, Zenon DEF UploadRefused, Write
<1>3. CASE VerifyAndReview
  BY <1>1, <1>3, EndsKeep, Zenon DEF VerifyAndReview
<1>4. CASE JobDies
  BY <1>1, <1>4, EndsKeep, Zenon DEF JobDies, kinto
<1>5. CASE NewRun
  <2>1. runsLeft' \in 0..MaxRuns
    <3>1. runsLeft \in 0..MaxRuns /\ runsLeft > 0 /\ runsLeft' = runsLeft - 1
      BY <1>5, Zenon DEF NewRun, IInv, TypeOK
    <3> QED
      BY <3>1, IntermediatesAssumption
  <2>2. TypeOK'
    BY <1>5, <2>1, Zenon DEF NewRun, IInv, TypeOK, kinto, job
  <2> QED
    BY <1>5, <2>2, ZenonT(30) DEF NewRun, kinto, job, IInv, NoDuplicates, Good, Broken,
       PlanInv, IdleInv, ReadInv, LeftInv, LackInv
<1>6. CASE Sign \/ CalmDown \/ UNCHANGED vars
  <2>1. UNCHANGED <<records, ipc, job>>
    BY <1>6, Zenon DEF Sign, CalmDown, kinto, vars, job
  <2>2. TypeOK'
    BY <1>1, <1>6, <2>1, Zenon DEF Sign, CalmDown, IInv, TypeOK, kinto, job, world, vars
  <2> QED
    BY <2>1, <2>2, ZenonT(30) DEF job, IInv, NoDuplicates, Good, Broken,
       PlanInv, IdleInv, ReadInv, LeftInv, LackInv
<1> QED
  BY <1>2, <1>3, <1>4, <1>5, <1>6, CompareKeeps, CleanKeeps, DeleteKeeps, CreateKeeps,
     UploadKeeps, UpdateKeeps, ZenonT(30) DEF Next, Publishing

LEMMA IHolds == Spec => []IInv
BY IInit, INext, PTL DEF Spec

(* publish_intermediates keeps the type of every variable, and no two      *)
(* records of the collection have one id.                                  *)
THEOREM TypeCorrect == Spec => []TypeOK
<1>1. IInv => TypeOK
  BY Zenon DEF IInv
<1> QED
  BY <1>1, IHolds, PTL

(* No intermediate gets a second complete record, for any lists and runs,  *)
(* and wherever earlier jobs have died.                                    *)
THEOREM NeverTwice == Spec => []NoDuplicates
<1>1. IInv => NoDuplicates
  BY Zenon DEF IInv
<1> QED
  BY <1>1, IHolds, PTL

(* What is set for review matches the list the job loaded: it has a record *)
(* of every intermediate of the list.  The verification alone does not say *)
(* so without --delete, for it only notices a proper subset; that the plan *)
(* has been worked off does.                                               *)
THEOREM ReviewIsTrue == Spec => ReviewedMatches
<1> DEFINE A == status # "to-review" /\ status' = "to-review" => Matches(local)
<1>1. IInv /\ [Next]_vars => [A]_vars
  <2> SUFFICES ASSUME IInv, [Next]_vars, status # "to-review", status' = "to-review"
               PROVE  Matches(local)
    BY Zenon
  <2>1. VerifyAndReview
    BY Zenon DEF Next, Publishing, Compare, Clean, DeleteFromKinto, CreateRecord, UploadPem,
       UploadRefused, UpdateKinto, JobDies, NewRun, Sign, CalmDown, Write, kinto, vars
  <2>2. PICK f \in ReadFrom(records) : Verified(f)
    BY <2>1, Zenon DEF VerifyAndReview
  <2>3. ipc = "write" /\ toUpload = {}
    BY <2>1, Zenon DEF VerifyAndReview
  <2>4. Broken(records) = {}
    BY <2>2, Zenon DEF Verified
  <2>5. \A k : k \in KeysOf(records) <=> \E r \in records : r.attached /\ r.key = k
    BY Zenon DEF KeysOf, Good, Broken
  <2>6. DOMAIN local \subseteq KeysOf(records)
    BY <2>3, <2>5, AtWork, Zenon DEF LackInv
  <2>7. delete => KeysOf(records) = DOMAIN local
    BY <2>2, Zenon DEF Verified, ReadFrom
  <2>8. ASSUME NEW r \in records, r.key \in DOMAIN local PROVE r.enrolled = local[r.key]
    <3>1. r \in Good(records) /\ r.key \in KeysOf(records)
      BY <2>4, Zenon DEF Good, KeysOf
    <3>2. f[r.key] \in Good(records) /\ f[r.key].key = r.key /\ r.key \in DOMAIN f
      BY <3>1, Zenon DEF ReadFrom
    <3>3. f[r.key] = r
      BY <2>3, <3>1, <3>2, AtWork, Zenon DEF NoDuplicates
    <3> QED
      BY <2>2, <2>8, <3>2, <3>3, Zenon DEF Verified, Agree, Equals
  <2> QED
    BY <2>4, <2>6, <2>7, <2>8, Zenon DEF Matches
<1> QED
  BY <1>1, IHolds, PTL DEF Spec, ReviewedMatches
=============================================================================
