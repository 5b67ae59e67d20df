-------------------------- MODULE DownloaderProofs --------------------------
(***************************************************************************)
(* Downloader implements VerifiedFile, for every number of versions,       *)
(* whatever their sizes and signatures, and no download outgrows the       *)
(* largest version.                                                        *)
(***************************************************************************)
EXTENDS Downloader, TLAPS

(* A whole version is a file's content.                                    *)
LEMMA WholeIsContent == \A v \in Versions : Whole(v) \in Seq(Versions)
<1> SUFFICES ASSUME NEW v \in Versions PROVE Whole(v) \in Seq(Versions)
  OBVIOUS
<1>1. Size[v] \in Nat
  BY DownloaderAssumption
<1>2. Whole(v) \in [1..Size[v] -> Versions]
  BY DEF Whole
<1> QED
  BY <1>1, <1>2

(* What verifies is a file's content.                                      *)
LEMMA ValidIsContent == \A f : Valid(f) => f \in Seq(Versions)
BY WholeIsContent, DownloaderAssumption DEF Valid

(* The initial states of the downloader are initial states of the promise. *)
LEMMA InitKept == Init => Promise!Init
<1> SUFFICES ASSUME Init PROVE Promise!Init
  OBVIOUS
<1>1. 1 \in Versions
  BY DownloaderAssumption DEF Versions
<1>2. <<>> \in Seq(Versions) /\ <<1>> \in Seq(Versions)
  BY <1>1
<1>3. final = <<>> \/ final = <<1>> \/ final = Whole(1)
  BY DEF Init, NoFile
<1>4. final \in Seq(Versions)
  BY <1>1, <1>2, <1>3, WholeIsContent, Zenon
<1> QED
  BY <1>4 DEF Init, Promise!Init

(* Every step is a call, a replacement, a return without one, a death of   *)
(* the process, or a step the caller does not see.                         *)
LEMMA NextKept ==
  [Next]_vars => [Promise!Called \/ Promise!Replaced \/ Promise!Kept
                    \/ Promise!Abandoned]_(Promise!vars)
<1> SUFFICES ASSUME [Next]_vars
             PROVE  [Promise!Called \/ Promise!Replaced \/ Promise!Kept
                       \/ Promise!Abandoned]_(Promise!vars)
  OBVIOUS
<1>1. CASE Call
  BY <1>1 DEF Call, Promise!Called
<1>2. CASE Cancelled
  BY <1>2 DEF Cancelled, Promise!vars
<1>3. CASE DetermineAction
  BY <1>3 DEF DetermineAction, Promise!vars
<1>4. CASE RequestFails
  BY <1>4 DEF RequestFails, AttemptFails, Promise!vars
<1>5. CASE StatusOK
  BY <1>5 DEF StatusOK, Promise!vars
<1>6. CASE StatusPartialContent
  BY <1>6 DEF StatusPartialContent, Promise!vars
<1>7. CASE CopyChunk
  BY <1>7 DEF CopyChunk, Promise!vars
<1>8. CASE CopyDone
  BY <1>8 DEF CopyDone, Promise!vars
<1>9. CASE Rename
  <2>1. final' \in Seq(Versions) /\ Valid(final')
    BY <1>9, ValidIsContent DEF Rename
  <2>2. Promise!Replaced
    BY <1>9, <2>1 DEF Rename, Return, Promise!Replaced
  <2> QED
    BY <2>2
<1>10. CASE Fallback
  BY <1>10 DEF Fallback, Return, Promise!Kept
<1>11. CASE Publish
  BY <1>11 DEF Publish, Promise!vars
<1>12. CASE Cancel
  BY <1>12 DEF Cancel, Promise!vars
<1>13. CASE Crash
  BY <1>13 DEF Crash, Promise!Abandoned
<1>14. CASE CalmDown
  BY <1>14 DEF CalmDown, Promise!vars
<1>15. CASE UNCHANGED vars
  BY <1>15 DEF vars, Promise!vars
<1> QED
  BY <1>1, <1>2, <1>3, <1>4, <1>5, <1>6, <1>7, <1>8, <1>9, <1>10, <1>11, <1>12,
     <1>13, <1>14, <1>15 DEF Next, Downloading

(* DownloadAndVerifyFileSync keeps its promise: finalPath only ever changes*)
(* to content that verifies, in the rename of a call, and the Boolean each *)
(* call returns says whether finalPath verifies.                           *)
THEOREM DownloaderKeepsPromise == Spec => KeepsPromise
BY InitKept, NextKept, PTL DEF Spec, KeepsPromise, Promise!Spec

-----------------------------------------------------------------------------
(* While a body is copied, the next chunk goes to the place it has in the  *)
(* version it is of: a resumed file is as long as what was skipped.        *)
FileInv ==
  /\ TypeOK
  /\ final \in Seq(Versions) /\ tmp \in Seq(Versions)
  /\ dpc = "copy" => Len(tmp) = at /\ at <= Size[source]

(* A file of chunks, no longer than some version.                          *)
Fits(f) == f \in Seq(Versions) /\ \E v \in Versions : Len(f) <= Size[v]

(* What verifies fits, and so do the files there may be at first.          *)
LEMMA FirstFiles ==
  /\ Fits(<<>>) /\ Fits(<<1>>)
  /\ \A v \in Versions : Fits(Whole(v))
<1>1. 1 \in Versions /\ \A v \in Versions : Size[v] \in Nat \ {0}
  BY DownloaderAssumption DEF Versions
<1>2. Fits(<<>>) /\ Fits(<<1>>)
  <2>1. /\ <<>> \in Seq(Versions) /\ Len(<<>>) = 0
        /\ <<1>> \in Seq(Versions) /\ Len(<<1>>) = 1
    BY <1>1
  <2>2. 0 <= Size[1] /\ 1 <= Size[1]
    BY <1>1
  <2> QED
    BY <1>1, <2>1, <2>2 DEF Fits
<1>3. ASSUME NEW v \in Versions PROVE Fits(Whole(v))
  <2>1. Whole(v) \in Seq(Versions)
    BY WholeIsContent
  <2>2. Len(Whole(v)) = Size[v]
    BY <1>1, <2>1 DEF Whole
  <2>3. Len(Whole(v)) <= Size[v]
    BY <1>1, <2>2
  <2> QED
    BY <2>1, <2>3 DEF Fits
<1> QED
  BY <1>2, <1>3

(* What TypeOK says of a file, and more.                                   *)
LEMMA FitsIsType ==
  ASSUME NEW f, Fits(f)
  PROVE  /\ f \in Seq(Versions) /\ \A i \in 1..Len(f) : f[i] \in Versions
         /\ \E v \in Versions : Len(f) <= Size[v]
BY DEF Fits

(* The rest of FileInv: what is not about the contents of the files.       *)
CallInv ==
  /\ latest \in Versions /\ source \in Versions
  /\ tmpDate \in 0..MaxVersion
  /\ dpc \in {"idle", "attempt", "get", "copy", "downloaded", "failed", "returned"}
  /\ tries \in 0..MaxRetries /\ at \in Nat
  /\ action \in {"create", "resume", "upToDate"}
  /\ result \in BOOLEAN /\ cancelled \in BOOLEAN /\ calm \in BOOLEAN
  /\ dpc = "copy" => Len(tmp) = at /\ at <= Size[source]

(* FileInv is that the files fit, and CallInv.                             *)
LEMMA FileInvParts == FileInv <=> Fits(final) /\ Fits(tmp) /\ CallInv
<1>1. FileInv => Fits(final) /\ Fits(tmp) /\ CallInv
  BY DEF FileInv, TypeOK, Fits, CallInv
<1>2. ASSUME Fits(final), Fits(tmp), CallInv PROVE FileInv
  <2>1. \A f \in {final, tmp} : /\ \A i \in 1..Len(f) : f[i] \in Versions
                                /\ \E v \in Versions : Len(f) <= Size[v]
    BY <1>2, FitsIsType
  <2> QED
    BY <1>2, <2>1 DEF FileInv, TypeOK, Fits, CallInv
<1> QED
  BY <1>1, <1>2

(* FileInv holds at first.                                                 *)
LEMMA FileInit == Init => FileInv
<1> SUFFICES ASSUME Init PROVE FileInv
  OBVIOUS
<1>1. 1 \in Versions /\ MaxVersion \in Nat /\ MaxRetries \in Nat
  BY DownloaderAssumption DEF Versions
<1>2. Fits(final) /\ Fits(tmp)
  BY <1>1, FirstFiles DEF Init, NoFile
<1>3. /\ latest \in Versions /\ source \in Versions /\ tmpDate \in 0..MaxVersion
      /\ tries \in 0..MaxRetries /\ at \in Nat /\ dpc = "idle" /\ action = "create"
  BY <1>1 DEF Init
<1>4. result \in BOOLEAN /\ cancelled \in BOOLEAN /\ calm \in BOOLEAN
  BY Zenon DEF Init
<1>5. CallInv
  BY <1>3, <1>4 DEF CallInv
<1> QED
  BY <1>2, <1>5, FileInvParts

(* FileInv is inductive.                                                   *)
LEMMA FileNext == FileInv /\ [Next]_vars => FileInv'
<1> SUFFICES ASSUME Fits(final), Fits(tmp), CallInv, [Next]_vars
             PROVE  Fits(final') /\ Fits(tmp') /\ CallInv'
  <2>1. (Fits(final) /\ Fits(tmp) /\ CallInv)' <=> FileInv'
    BY FileInvParts, PTL
  <2> QED
    BY <2>1, FileInvParts
<1>1. /\ MaxVersion \in Nat \ {0} /\ MaxRetries \in Nat
      /\ \A v \in Versions : Size[v] \in Nat \ {0}
  BY DownloaderAssumption
<1>2. tmp \in Seq(Versions) /\ Len(tmp) \in Nat
  BY DEF Fits
<1>3. Served \subseteq Versions
  BY <1>1 DEF CallInv, Served, Versions
<1>4. CASE Call \/ Cancelled \/ Cancel \/ Crash \/ CalmDown \/ UNCHANGED vars
  <2>1. /\ UNCHANGED <<latest, final, tmp, tmpDate, action, source, at, result>>
        /\ tries' = tries \/ tries' = 0
        /\ dpc' = dpc \/ dpc' \in {"attempt", "downloaded", "idle"}
    BY <1>4 DEF Call, Cancelled, Cancel, Crash, CalmDown, vars
  <2>2. cancelled' \in BOOLEAN /\ calm' \in BOOLEAN
    BY <1>4, Zenon DEF Call, Cancelled, Cancel, Crash, CalmDown, vars, CallInv
  <2> QED
    BY <1>1, <2>1, <2>2 DEF CallInv
<1>5. CASE Publish
  BY <1>1, <1>5 DEF Publish, CallInv, Versions
<1>6. CASE DetermineAction
  <2>1. action' \in {"create", "resume", "upToDate"} /\ dpc' \in {"downloaded", "get"}
    BY <1>6 DEF DetermineAction, ActionFor
  <2> QED
    BY <1>6, <2>1 DEF DetermineAction, CallInv
<1>7. CASE RequestFails
  BY <1>1, <1>7 DEF RequestFails, AttemptFails, CallInv
<1>8. CASE StatusOK
  <2>1. Fits(tmp') /\ Len(tmp') = 0
    BY <1>8, FirstFiles DEF StatusOK, NoFile
  <2>2. source' \in Versions /\ 0 <= Size[source']
    BY <1>1, <1>3, <1>8 DEF StatusOK
  <2> QED
    BY <1>1, <1>8, <2>1, <2>2 DEF StatusOK, CallInv, Versions
<1>9. CASE StatusPartialContent
  <2>1. source' \in Versions /\ Len(tmp) <= Size[source']
    BY <1>1, <1>2, <1>3, <1>9 DEF StatusPartialContent
  <2> QED
    BY <1>2, <1>9, <2>1 DEF StatusPartialContent, CallInv
<1>10. CASE CopyChunk
  <2>1. /\ Len(tmp) = at /\ at < Size[source] /\ source \in Versions /\ at \in Nat
        /\ tmp' = Append(tmp, source)
    BY <1>10 DEF CopyChunk, CallInv
  <2>2. tmp' \in Seq(Versions) /\ Len(tmp') = at + 1
    BY <1>2, <2>1
  <2>3. at + 1 <= Size[source]
    BY <1>1, <2>1
  <2>4. Fits(tmp')
    BY <2>1, <2>2, <2>3 DEF Fits
  <2> QED
    BY <1>1, <1>10, <2>1, <2>2, <2>3, <2>4 DEF CopyChunk, CallInv, Versions
<1>11. CASE CopyDone
  BY <1>1, <1>11 DEF CopyDone, CallInv, Versions
<1>12. CASE Rename
  <2>1. Fits(final') /\ Fits(tmp')
    BY <1>12, FirstFiles DEF Rename, Return, NoFile
  <2> QED
    BY <1>1, <1>12, <2>1 DEF Rename, Return, CallInv
<1>13. CASE Fallback
  <2>1. Fits(final') /\ Fits(tmp')
    BY <1>13, FirstFiles DEF Fallback, Return, NoFile
  <2>2. result' \in BOOLEAN
    BY <1>13 DEF Fallback, Valid
  <2> QED
    BY <1>1, <1>13, <2>1, <2>2 DEF Fallback, Return, CallInv
<1> QED
  BY <1>4, <1>5, <1>6, <1>7, <1>8, <1>9, <1>10, <1>11, <1>12, <1>13 DEF Next, Downloading

(* Every variable keeps its type, and no file outgrows the largest         *)
(* version, however often downloads are resumed, mixed and cut off: a      *)
(* partial response is appended at the place it was asked for.             *)
THEOREM DownloaderTypes == Spec => []TypeOK
<1>1. FileInv => TypeOK
  BY DEF FileInv
<1> QED
  BY <1>1, FileInit, FileNext, PTL DEF Spec
=============================================================================
