------------------------------ MODULE PipelineInv ------------------------------
(***************************************************************************)
(* The inductive invariants behind the safety properties of Pipeline: what *)
(* each job may rely on at each of its requests.  ShapeInv holds           *)
(* whatever the servers do; CoverInv when crlite-publish reads the         *)
(* collection from the server it writes to and no day has more than ten    *)
(* runs; RuleInv when it reads the server it writes to, however many runs  *)
(* a day has.                                                              *)
(***************************************************************************)
EXTENDS Pipeline

(* A run whose folder is not in the bucket yet is being prepared.          *)
Pending == gpc = "allocated" \/ (gpc = "uploading" /\ "timestamp" \in draft.files)

(* Run m precedes run n in time, and its identifier precedes n's.          *)
Precedes(m, n) ==
    /\ m.time < n.time
    /\ m.date <= n.date
    /\ m.date = n.date => m.idx < n.idx

(* Runs come in order, and a stash is the difference to the run before.    *)
BucketInv ==
    /\ Len(runs) <= MaxRuns
    /\ runs # <<>> => firstRun <= Len(runs)
    /\ runs = <<>> => firstRun = 1
    /\ \A n \in 1 .. Len(runs) :
         /\ runs[n].time <= clock
         /\ runs[n].date = runs[n].time \div 24
         /\ "stash" \in runs[n].files => n > 1 /\ runs[n].prev = n - 1
    /\ \A m, n \in 1 .. Len(runs) : m < n => Precedes(runs[m], runs[n])
    /\ gpc = "allocated" => draft.files = {"timestamp"}
    /\ Pending =>
         /\ Len(runs) < MaxRuns
         /\ draft.time = clock
         /\ draft.date = clock \div 24
         /\ \A n \in 1 .. Len(runs) : Precedes(runs[n], draft)
         /\ "stash" \in draft.files => Len(runs) >= 1 /\ draft.prev = Len(runs)
    /\ gpc = "uploading" /\ ~Pending =>
         /\ Len(runs) >= 1
         /\ "stash" \in draft.files => Len(runs) > 1 /\ runs[Len(runs)].prev = Len(runs) - 1

-----------------------------------------------------------------------------
(* Records are of complete runs, and a stash record of a run with a stash. *)
Stored(S) ==
    \A r \in S :
        /\ r.run \in 1 .. Len(runs)
        /\ "completed" \in runs[r.run].files
        /\ r.incremental => "stash" \in runs[r.run].files

Interval(R) == \E a, b \in 1 .. Len(runs) : a <= b /\ R = a .. b

(* The runs of R are in the bucket, complete and with their stash.         *)
Downloaded(R) == \A n \in R : {"stash", "completed"} \subseteq runs[n].files

JobShape ==
    /\ ppc = "determine" => Interval(listed)
    /\ ppc \in {"clear", "measure", "download", "decide", "clearFull",
                "createFull", "attachFull", "stash", "attachStash"} =>
         Interval(upload)
    /\ ppc = "download" => at \in upload /\ Downloaded({n \in upload : n < at})
    /\ ppc \in {"decide", "clearFull", "createFull", "attachFull", "stash", "attachStash"} =>
         Downloaded(upload)
    /\ ppc \in {"stash", "attachStash"} => at \in upload

ShapeInv ==
    /\ TypeOK
    /\ BucketInv
    /\ Stored(records) /\ Stored(replica) /\ Stored(existing) /\ Stored(signed)
    /\ JobShape

-----------------------------------------------------------------------------
(* No day has more than ten runs.                                          *)
SingleDigit == \A n \in 1 .. Len(runs) : runs[n].idx < 10

(* An index is behind the hour of the day when two starts of generate are  *)
(* three hours or more apart.                                              *)
EarlyIndex(run) == 3 * run.idx <= run.time - 24 * run.date

IndexInv ==
    /\ \A n \in 1 .. Len(runs) : EarlyIndex(runs[n])
    /\ Pending => EarlyIndex(draft)

(* What a record adds, given that a stash is the difference to the run     *)
(* before.                                                                 *)
Keys(rec) ==
    IF IsFilter(rec) THEN Revoked[rec.run] ELSE Revoked[rec.run] \ Revoked[rec.run - 1]

(* From the filter to any record with a file everything is covered.        *)
Covered(S) ==
    \A f \in Filters(S), r \in S : f.attached /\ r.attached =>
        \A n \in f.run .. r.run : \A c \in Revoked[n] :
            \E q \in S : q.attached /\ c \in Keys(q)

(* There is at most one filter and only the latest record may lack its     *)
(* file.                                                                   *)
Coherent(S) ==
    /\ \A r, q \in S : r.id = q.id => r = q
    /\ \A f, g \in Filters(S) : f = g
    /\ \A f \in Filters(S) : f.attached \/ S = {f}
    /\ \A u \in S : u.attached \/ \A r \in S \ {u} : r.run < u.run
    /\ Covered(S)

(* What may be signed.                                                     *)
Sound(S) ==
    /\ \E f \in Filters(S) : Filters(S) = {f}
    /\ \A r \in S : r.attached
    /\ Covered(S)

(* The collection, when the next stash to publish is that of run n.        *)
ReadyFor(S, n) ==
    /\ Sound(S)
    /\ \A r \in S : r.run < n
    /\ \E r \in S : r.run = n - 1

(* The job has just created the stash record of run at.                    *)
StashCreated ==
    \E u \in records :
        /\ u.id = previousId /\ u.incremental /\ u.run = at /\ ~u.attached
        /\ ReadyFor(records \ {u}, at)

FilterCreated == \E u \in records : records = {u} /\ u.id = previousId /\ IsFilter(u)

JobCover ==
    /\ ppc = "clearInsane" => existing = {}
    /\ ppc \in {"list", "determine"} =>
         existing = records /\ (records = {} \/ Filters(records) # {})
    /\ ppc = "clear" => clearAll
    /\ ppc \in {"measure", "download", "decide"} /\ ~clearAll =>
         existing = records /\ ReadyFor(records, First(upload))
    /\ ppc = "createFull" => records = {}
    /\ ppc = "attachFull" => FilterCreated
    /\ ppc = "stash" => ReadyFor(records, at)
    /\ ppc = "attachStash" => StashCreated
    /\ ppc = "dropRecord" => FilterCreated \/ StashCreated
    /\ ppc = "review" => Sound(records)

CoverInv ==
    /\ Coherent(records)
    /\ JobCover
    /\ status = "to-review" => Sound(records)
    /\ signed # {} => Sound(signed)

-----------------------------------------------------------------------------
(* What holds without a bound on the runs of a day, when crlite-publish    *)
(* reads the collection from the server it writes to.                      *)

(* What the job read of the collection is what is there, until it clears   *)
(* it or adds to it.                                                       *)
SeenInv ==
    /\ \A r, q \in records : r.id = q.id => r = q
    /\ ppc = "clearInsane" => existing = {}
    /\ ppc \in {"list", "determine"} =>
         existing = records /\ (records = {} \/ Filters(records) # {})
    /\ ppc = "clear" => clearAll
    /\ ppc \in {"measure", "download", "decide"} /\ ~clearAll =>
         existing = records /\ Filters(records) # {}
    /\ ppc = "createFull" => records = {}
    /\ ppc = "attachFull" => FilterCreated
    /\ ppc \in {"attachFull", "attachStash", "dropRecord"} => status = "work-in-progress"
    /\ ppc \in {"attachStash", "dropRecord"} =>
         FilterCreated \/ \E u \in Stashes(records) : u.id = previousId

(* The stashes in the collection, with those the job will add.             *)
SizeInv ==
    /\ IsFiniteSet(records)
    /\ Cardinality(Stashes(records)) <= StashesPerFilter
    /\ ppc = "stash" =>
         Cardinality(Stashes(records)) + Cardinality({n \in upload : n >= at})
           <= StashesPerFilter
    /\ ppc = "attachStash" =>
         Cardinality(Stashes(records)) + Cardinality({n \in upload : n > at})
           <= StashesPerFilter
    /\ StashesOutweighNoFilter

(* The records S take Firefox no further back than what is signed.         *)
Newer(S) == Filters(S) # {} /\ \A r \in signed : \E q \in S : r.run <= q.run

(* While there is a filter, the collection is newer than what is signed,   *)
(* also without a record that the job may have to drop; and a job that     *)
(* clears it will publish a run that no record is later than.              *)
AgeInv ==
    /\ \A f, g \in Filters(records) : f = g
    /\ Filters(records) # {} => Newer(records)
    /\ status = "to-review" => Filters(records) # {}
    /\ ppc = "determine" => \A r \in signed \cup records : r.run <= Last(listed)
    /\ ppc \in {"clear", "measure", "download", "decide", "clearFull", "createFull"} =>
         \A r \in signed \cup records : r.run <= Last(upload)
    /\ ppc \in {"stash", "review"} => Filters(records) # {}
    /\ ppc \in {"attachStash", "dropRecord"} =>
         FilterCreated \/ Newer({r \in records : r.id # previousId})

RuleInv == SeenInv /\ SizeInv /\ AgeInv

-----------------------------------------------------------------------------
(* What clients hold, read off the records alone: a stash they have is the *)
(* difference to the run before.                                           *)
ClientInv == SignedCovers /\ Cover(signed) = UNION {Keys(r) : r \in signed}
=============================================================================
