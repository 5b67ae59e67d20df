----------------------------- MODULE Downloader -----------------------------
(***************************************************************************)
(* The downloader of CRLs and of the CCADB report: DownloadFileSync to a   *)
(* temporary file, with retries that may resume it, then verification and  *)
(* a rename (DownloadAndVerifyFileSync), one call after the other for one  *)
(* URL and one path on the persistent disk.                                *)
(*                                                                         *)
(* A server publishes numbered versions, each the Last-Modified date and   *)
(* thisUpdate of its content.  A file is the sequence of the versions its  *)
(* chunks come from, so a resumed download may mix versions.               *)
(***************************************************************************)
EXTENDS Integers, Sequences

CONSTANTS
  MaxVersion,   \* bound on the versions published
  Signed,       \* the versions whose signature verifies
  Size,         \* version -> its number of chunks
  MaxRetries,   \* maxRetries
  Stale,        \* whether a response may hold an older version
  MaxCrashes    \* bound on the crashes

Versions == 1..MaxVersion

ASSUME DownloaderAssumption ==
  /\ MaxVersion \in Nat \ {0} /\ MaxRetries \in Nat /\ MaxCrashes \in Nat
  /\ Signed \subseteq Versions
  /\ Size \in [Versions -> Nat \ {0}]
  /\ Stale \in BOOLEAN

VARIABLES
  latest,   \* the server's newest version
  final,    \* the content of finalPath
  tmp,      \* the content of finalPath.tmp
  tmpDate,  \* its modification time
  dpc,      \* where the call is
  tries,    \* i of DownloadFileSync
  action,   \* what determineAction answered
  source,   \* the version the body being copied is of
  at,       \* the chunks of it before the next one
  result,   \* the Boolean the last call returned
  cancelled,\* ctx is done
  calm,     \* no error, crash, cancellation or new version from here on
  crashes   \* crashes so far

vars == <<latest, final, tmp, tmpDate, dpc, tries, action, source, at, result,
          cancelled, calm, crashes>>

(* A missing file, or an empty one: neither verifies, and to create a file *)
(* or to resume it at offset 0 is the same.                                *)
NoFile == <<>>

Whole(v) == [i \in 1..Size[v] |-> v]

(* The signature of the CRL verifies: it is one signed version, complete.  *)
Valid(f) == \E v \in Signed : f = Whole(v)

(* The versions a response may carry.                                      *)
Served == IF Stale /\ ~calm THEN 1..latest ELSE {latest}

Init ==
  /\ latest = 1
  /\ final \in {NoFile, <<1>>, Whole(1)}
  /\ tmp = NoFile /\ tmpDate = 0
  /\ dpc = "idle" /\ tries = 0 /\ action = "create"
  /\ source = 1 /\ at = 0
  /\ result = FALSE
  /\ cancelled = FALSE /\ calm = FALSE
  /\ crashes = 0

(* The server publishes a version.                                         *)
Publish ==
  /\ ~calm /\ latest < MaxVersion
  /\ latest' = latest + 1
  /\ UNCHANGED <<final, tmp, tmpDate, dpc, tries, action, source, at, result,
                 cancelled, calm, crashes>>

Call ==
  /\ dpc \in {"idle", "returned"}
  /\ dpc' = "attempt" /\ tries' = 0
  /\ UNCHANGED <<latest, final, tmp, tmpDate, action, source, at, result,
                 cancelled, calm, crashes>>

(* DownloadFileSync finds ctx done and returns as if it had succeeded.     *)
Cancelled ==
  /\ dpc = "attempt" /\ cancelled
  /\ dpc' = "downloaded"
  /\ UNCHANGED <<latest, final, tmp, tmpDate, tries, action, source, at, result,
                 cancelled, calm, crashes>>

(* determineAction on the answer to a HEAD request that shows version v.   *)
ActionFor(v) ==
  IF tmpDate < v THEN {"create"}
  ELSE IF Size[v] = Len(tmp) THEN {"upToDate"}
  ELSE IF Size[v] > Len(tmp) THEN {"resume", "create"}  \* Accept-Ranges or not
  ELSE {"create"}

(* No file, no answer or an answer without the headers: create.            *)
DetermineAction ==
  /\ dpc = "attempt" /\ ~cancelled
  /\ action' \in IF tmp = NoFile THEN {"create"}
                 ELSE {"create"} \cup UNION {ActionFor(v) : v \in Served}
  /\ dpc' = IF action' = "upToDate" THEN "downloaded" ELSE "get"
  /\ UNCHANGED <<latest, final, tmp, tmpDate, tries, source, at, result,
                 cancelled, calm, crashes>>

(* An attempt fails: DownloadFileSync tries again, up to maxRetries times. *)
AttemptFails ==
  /\ IF tries < MaxRetries
     THEN dpc' = "attempt" /\ tries' = tries + 1
     ELSE dpc' = "failed" /\ UNCHANGED tries
  /\ UNCHANGED <<latest, final, tmp, tmpDate, action, source, at, result,
                 cancelled, calm, crashes>>

(* The GET fails, or a read of the body, or ctx is done.                   *)
RequestFails == dpc \in {"get", "copy"} /\ (~calm \/ cancelled) /\ AttemptFails

(* Status 200: the file is truncated and the whole body copied.            *)
StatusOK ==
  /\ dpc = "get"
  /\ source' \in Served
  /\ tmp' = NoFile /\ tmpDate' = latest /\ at' = 0
  /\ dpc' = "copy"
  /\ UNCHANGED <<latest, final, tries, action, result, cancelled, calm, crashes>>

(* Mutant of StatusPartialContent: the whole body is appended.             *)
StatusWholeContent ==
  /\ dpc = "get" /\ action = "resume"
  /\ source' \in {v \in Served : Size[v] > Len(tmp)}
  /\ at' = 0
  /\ dpc' = "copy"
  /\ UNCHANGED <<latest, final, tmp, tmpDate, tries, action, result, cancelled,
                 calm, crashes>>

(* Status 206, to a request that resumes: the rest of the body is appended *)
(* to whatever is there.                                                   *)
StatusPartialContent ==
  /\ dpc = "get" /\ action = "resume"
  /\ source' \in {v \in Served : Size[v] > Len(tmp)}
  /\ at' = Len(tmp)
  /\ dpc' = "copy"
  /\ UNCHANGED <<latest, final, tmp, tmpDate, tries, action, result, cancelled,
                 calm, crashes>>

CopyChunk ==
  /\ dpc = "copy" /\ at < Size[source]
  /\ tmp' = Append(tmp, source) /\ tmpDate' = latest /\ at' = at + 1
  /\ UNCHANGED <<latest, final, dpc, tries, action, source, result, cancelled,
                 calm, crashes>>

(* The body is complete; a Last-Modified header dates the file.            *)
CopyDone ==
  /\ dpc = "copy" /\ at = Size[source]
  /\ tmpDate' \in {source, tmpDate}
  /\ dpc' = "downloaded"
  /\ UNCHANGED <<latest, final, tmp, tries, action, source, at, result, cancelled,
                 calm, crashes>>

(* Mutant of Return: the temporary file is left behind.                    *)
ReturnKeepsTmp ==
  /\ dpc' = "returned"
  /\ UNCHANGED <<latest, tmp, tmpDate, tries, action, source, at, cancelled, calm,
                 crashes>>

(* The call returns; the deferred function removes the temporary file.     *)
Return ==
  /\ dpc' = "returned"
  /\ tmp' = NoFile /\ tmpDate' = 0
  /\ UNCHANGED <<latest, tries, action, source, at, cancelled, calm, crashes>>

(* Mutant of Rename: the download is not verified.                         *)
RenameUnverified ==
  /\ dpc = "downloaded"
  /\ final' = tmp
  /\ result' = TRUE
  /\ Return

(* The download verifies and replaces the file.                            *)
Rename ==
  /\ dpc = "downloaded" /\ Valid(tmp)
  /\ final' = tmp
  /\ result' = TRUE
  /\ Return

(* attemptFallbackToExistingFile, after a failed download, verification or *)
(* rename.                                                                 *)
Fallback ==
  /\ \/ dpc = "failed"
     \/ dpc = "downloaded" /\ (~Valid(tmp) \/ ~calm)
  /\ result' = Valid(final)
  /\ UNCHANGED final
  /\ Return

Cancel ==
  /\ ~calm /\ ~cancelled
  /\ cancelled' = TRUE
  /\ UNCHANGED <<latest, final, tmp, tmpDate, dpc, tries, action, source, at,
                 result, calm, crashes>>

(* The process dies and is run again later; both files survive.            *)
Crash ==
  /\ ~calm /\ crashes < MaxCrashes
  /\ crashes' = crashes + 1
  /\ dpc' = "idle" /\ cancelled' = FALSE
  /\ UNCHANGED <<latest, final, tmp, tmpDate, tries, action, source, at, result,
                 calm>>

CalmDown ==
  /\ ~calm /\ ~cancelled
  /\ calm' = TRUE
  /\ UNCHANGED <<latest, final, tmp, tmpDate, dpc, tries, action, source, at,
                 result, cancelled, crashes>>

Downloading ==
  \/ Call \/ Cancelled \/ DetermineAction \/ RequestFails
  \/ StatusOK \/ StatusPartialContent \/ CopyChunk \/ CopyDone
  \/ Rename \/ Fallback

Next == Downloading \/ Publish \/ Cancel \/ Crash \/ CalmDown

Spec == Init /\ [][Next]_vars

FairSpec == Spec /\ WF_vars(Downloading)

-----------------------------------------------------------------------------
(* Every variable keeps its type; no file outgrows the largest version.    *)
TypeOK ==
  /\ latest \in Versions /\ source \in Versions
  /\ \A f \in {final, tmp} : /\ \A i \in 1..Len(f) : f[i] \in Versions
                             /\ \E v \in Versions : Len(f) <= Size[v]
  /\ tmpDate \in 0..MaxVersion
  /\ dpc \in {"idle", "attempt", "get", "copy", "downloaded", "failed",
              "returned"}
  /\ tries \in 0..MaxRetries /\ at \in Nat
  /\ action \in {"create", "resume", "upToDate"}
  /\ result \in BOOLEAN /\ cancelled \in BOOLEAN /\ calm \in BOOLEAN

(* DownloadAndVerifyFileSync keeps its promise to its callers, whatever    *)
(* resumed, mixed, stale, truncated or unsigned content the server sends   *)
(* and wherever the process dies.                                          *)
Promise == INSTANCE VerifiedFile WITH
  Contents <- Seq(Versions),
  phase <- IF dpc \in {"idle", "returned"} THEN dpc ELSE "calling",
  answer <- result

KeepsPromise == Promise!Spec

(* Once errors and publications cease, and the newest version is signed,   *)
(* repeated calls bring it to finalPath and keep it there: no temporary    *)
(* file left by a crash, and no resumed mix of versions, blocks them.      *)
BecomesFresh == (calm /\ latest \in Signed) ~> [](final = Whole(latest))
=============================================================================
