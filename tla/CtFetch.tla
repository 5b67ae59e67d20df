------------------------------ MODULE CtFetch ------------------------------
(***************************************************************************)
(* ct-fetch: one downloader goroutine per CT log, which sends entries into *)
(* a bounded channel, a pool of workers, which take them out and Store     *)
(* them (CertDatabase), and main, which waits for the downloaders, closes  *)
(* the channel and waits for the workers.  A SIGTERM stops the downloaders *)
(* at the points where they look for it; a crash stops everything and      *)
(* leaves what is in Redis.                                                *)
(***************************************************************************)
EXTENDS CertDatabase

CONSTANTS
  Logs,        \* the logs of LogUrlList
  Entry,       \* log -> sequence of entries: a certificate, "bad" or "skip"
  ChanCap,     \* capacity of entryChan
  Limit,       \* config: most entries in one sync, 0 for no limit
  Offset,      \* config: where to start, 0 for the saved position
  RunForever,  \* config: poll again after a sync
  Started,     \* whether the workers are already registered at the start
  Signals,     \* whether a SIGTERM may come
  Crashes      \* bound on the crashes

ASSUME FetchAssumption ==
  /\ Certs \cap {"bad", "skip"} = {}
  /\ \A l \in Logs : Entry[l] \in Seq(Certs \cup {"bad", "skip"}) /\ Entry[l] # <<>>
  /\ ChanCap \in Nat \ {0}
  /\ Limit \in Nat /\ Offset \in Nat /\ Crashes \in Nat
  /\ RunForever \in BOOLEAN /\ Started \in BOOLEAN /\ Signals \in BOOLEAN

VARIABLES
  tree,      \* log -> the size of its tree
  saved,     \* Redis: log::<url> -> MaxEntry of the saved CertificateLog
  lpc,       \* log -> where its downloader is
  index,     \* log -> index of downloadCTRangeToChannel
  endPos,    \* log -> EndPos of its LogWorker
  batch,     \* log -> entries left of the last response
  outerSig,  \* the downloaders with a signal in the channel made by main
  innerSig,  \* those with one in the channel of downloadCTRangeToChannel
  entryChan, \* the entries sent and not yet received, <<log, index>>
  mpc,       \* where main is
  crashes,   \* crashes so far
  dropped    \* history: the certificates in flight at a crash or not stored

range  == <<index, endPos, batch>>
sigs   == <<outerSig, innerSig>>
process == <<mpc, crashes, dropped>>
fetchVars == <<tree, saved, lpc, range, sigs, entryChan, process>>
ctVars == <<dbVars, fetchVars>>

DownloaderPcs == {"poll", "fetch", "send", "save", "sleep", "done"}

EntryAt(l, i) == Entry[l][i + 1]        \* a CT log counts from 0

FetchInit ==
  /\ DbInit
  /\ pc = [w \in Workers |-> IF Started THEN "idle" ELSE "new"]
  /\ tree = [l \in Logs |-> Len(Entry[l]) - 1]
  /\ saved = [l \in Logs |-> 0]
  /\ lpc = [l \in Logs |-> "poll"]
  /\ index = [l \in Logs |-> 0]
  /\ endPos = [l \in Logs |-> 0]
  /\ batch = [l \in Logs |-> 0]
  /\ outerSig = {} /\ innerSig = {}
  /\ entryChan = <<>>
  /\ mpc = "downloading"
  /\ crashes = 0
  /\ dropped = {}

Running == mpc # "exited"

GotoL(l, where) == lpc' = [lpc EXCEPT ![l] = where]

(* SyncLog has returned: the end of the loop in main.                      *)
AfterSync(l) == GotoL(l, IF RunForever THEN "sleep" ELSE "done")

(* The log's tree grows.                                                   *)
TreeGrows(l) ==
  /\ tree[l] < Len(Entry[l])
  /\ tree' = [tree EXCEPT ![l] = @ + 1]
  /\ UNCHANGED <<dbVars, saved, lpc, range, sigs, entryChan, process>>

(* NewLogWorker and the beginning of Run: the range to download runs from  *)
(* start to the size in the signed tree head, or for Limit entries.  A     *)
(* start beyond the end downloads nothing and saves start again.           *)
BeginSync(l, start) ==
  LET end == IF Limit > 0 /\ start + Limit < tree[l]
             THEN start + Limit ELSE tree[l] IN
  /\ Running /\ lpc[l] = "poll"
  /\ IF start = end
     THEN AfterSync(l) /\ UNCHANGED <<index, endPos>>
     ELSE /\ index' = [index EXCEPT ![l] = start]
          /\ endPos' = [endPos EXCEPT ![l] = end]
          /\ GotoL(l, "fetch")
  /\ UNCHANGED <<dbVars, tree, saved, batch, sigs, entryChan, process>>

(* Mutant of StartSync: the saved position is not used.                    *)
StartSyncAtZero(l) == BeginSync(l, Offset)

StartSync(l) == BeginSync(l, IF Offset > 0 THEN Offset ELSE saved[l])

(* GetLogState answers a failed read of Redis with a brand new log.        *)
StartSyncAnew(l) ==
  RedisFaults /\ BeginSync(l, IF Offset > 0 THEN Offset ELSE 0)

(* The signed tree head cannot be fetched.                                 *)
NoTreeHead(l) ==
  /\ Running /\ lpc[l] = "poll"
  /\ AfterSync(l)
  /\ UNCHANGED <<dbVars, tree, saved, range, sigs, entryChan, process>>

BatchSizes(l) == 1..(endPos[l] - index[l])

(* GetRawEntries returns one or more of the entries asked for.  A response *)
(* with status 429 is retried for as long as it takes: no state changes.   *)
FetchBatch(l) ==
  /\ Running /\ lpc[l] = "fetch"
  /\ \E n \in BatchSizes(l) : batch' = [batch EXCEPT ![l] = n]
  /\ GotoL(l, "send")
  /\ UNCHANGED <<dbVars, tree, saved, index, endPos, sigs, entryChan, process>>

DownloadReturns(l) ==
  /\ GotoL(l, "save")
  /\ innerSig' = innerSig \ {l}
  /\ UNCHANGED <<dbVars, tree, saved, index, endPos, outerSig, entryChan,
                 process>>

(* The end of the range is reached.                                        *)
RangeDone(l) ==
  /\ Running /\ lpc[l] = "fetch"
  /\ index[l] >= endPos[l]
  /\ DownloadReturns(l)
  /\ UNCHANGED batch

(* Any other error ends the download where it stands.                      *)
FetchFails(l) ==
  /\ Running /\ lpc[l] = "fetch"
  /\ index[l] < endPos[l]
  /\ DownloadReturns(l)
  /\ UNCHANGED batch

(* The next entry of the batch has been dealt with.                        *)
Advance(l) ==
  /\ index' = [index EXCEPT ![l] = @ + 1]
  /\ batch' = [batch EXCEPT ![l] = @ - 1]
  /\ IF batch'[l] = 0 THEN GotoL(l, "fetch") ELSE UNCHANGED lpc

(* A leaf that does not parse is passed over, without a look at signals.   *)
SkipLeaf(l) ==
  /\ Running /\ lpc[l] = "send"
  /\ EntryAt(l, index[l]) = "bad"
  /\ Advance(l)
  /\ UNCHANGED <<dbVars, tree, saved, endPos, sigs, entryChan, process>>

Selecting(l) ==
  /\ Running /\ lpc[l] = "send"
  /\ EntryAt(l, index[l]) # "bad"

(* The three cases of the select: the channel takes the entry, ...         *)
SendEntry(l) ==
  /\ Selecting(l)
  /\ Len(entryChan) < ChanCap
  /\ entryChan' = Append(entryChan, <<l, index[l]>>)
  /\ Advance(l)
  /\ UNCHANGED <<dbVars, tree, saved, endPos, sigs, process>>

(* Mutant of Position: the entry at hand is taken for sent.                *)
PositionNext(l) == index[l] + 1

(* Mutant of Position: the end of the range, whatever was downloaded.      *)
PositionEnd(l) == endPos[l]

(* What saveState writes: the next index to download.                      *)
Position(l) == index[l]

(* ... the ticker fires and the position is saved, ...                     *)
TickerSaves(l) ==
  /\ Selecting(l)
  /\ saved' = [saved EXCEPT ![l] = Position(l)]
  /\ UNCHANGED <<dbVars, tree, lpc, range, sigs, entryChan, process>>

(* ... or a signal ends the download.                                      *)
SignalCaught(l) ==
  /\ Selecting(l)
  /\ l \in innerSig
  /\ batch' = [batch EXCEPT ![l] = 0]
  /\ DownloadReturns(l)

(* Run saves the final position, however the download ended.  A failed     *)
(* write is only logged.                                                   *)
FinalSave(l) ==
  /\ Running /\ lpc[l] = "save"
  /\ \/ saved' = [saved EXCEPT ![l] = Position(l)]
     \/ RedisFaults /\ UNCHANGED saved
  /\ AfterSync(l)
  /\ UNCHANGED <<dbVars, tree, range, sigs, entryChan, process>>

(* Between two syncs a downloader waits for its timer or a signal.         *)
PollAgain(l) ==
  /\ Running /\ lpc[l] = "sleep"
  /\ GotoL(l, "poll")
  /\ UNCHANGED <<dbVars, tree, saved, range, sigs, entryChan, process>>

(* Mutant of AfterSignal: the signal only cuts the sleep short.            *)
AfterSignalPoll == "poll"

AfterSignal == "done"

StopPolling(l) ==
  /\ Running /\ lpc[l] = "sleep"
  /\ l \in outerSig
  /\ outerSig' = outerSig \ {l}
  /\ GotoL(l, AfterSignal)
  /\ UNCHANGED <<dbVars, tree, saved, range, innerSig, entryChan, process>>

Downloader(l) ==
  \/ StartSync(l)    \/ StartSyncAnew(l) \/ NoTreeHead(l)
  \/ FetchBatch(l)   \/ RangeDone(l)     \/ FetchFails(l)
  \/ SkipLeaf(l)     \/ SendEntry(l)     \/ TickerSaves(l)
  \/ SignalCaught(l) \/ FinalSave(l)
  \/ PollAgain(l)    \/ StopPolling(l)

(* insertCTWorker registers itself with ThreadWaitGroup only once it runs. *)
Register(w) ==
  /\ Running /\ pc[w] = "new"
  /\ Goto(w, "idle")
  /\ UNCHANGED <<now, redis, memory, locals, fetchVars>>

(* A worker receives an entry.  What it cannot decode, has no issuer for   *)
(* or filters out (a CA, an expired certificate) it drops; for the rest it *)
(* calls Store, and only logs a failure of it.                             *)
Receive(w) ==
  /\ Running /\ pc[w] = "idle"
  /\ entryChan # <<>>
  /\ entryChan' = Tail(entryChan)
  /\ LET e == EntryAt(Head(entryChan)[1], Head(entryChan)[2]) IN
       IF e = "skip" \/ NotAfter[e] < now
       THEN UNCHANGED dbVars
       ELSE StoreCalled(w, e)
  /\ UNCHANGED <<tree, saved, lpc, range, sigs, process>>

(* Mutant of Drained: a worker leaves the channel as it is.                *)
DrainedOrNot == TRUE

Drained == entryChan = <<>>

(* The channel is closed and empty: the worker ends.                       *)
WorkerEnds(w) ==
  /\ mpc = "waiting" /\ pc[w] = "idle"
  /\ Drained
  /\ Goto(w, "gone")
  /\ UNCHANGED <<now, redis, memory, locals, fetchVars>>

(* Store goes on; "Problem inserting certificate" is only logged.          *)
Storing(w) ==
  /\ Running
  /\ \/ StoreStep(w) /\ UNCHANGED dropped
     \/ StoreFails(w) /\ dropped' = dropped \cup {cert[w]}
  /\ UNCHANGED <<tree, saved, lpc, range, sigs, entryChan, mpc, crashes>>

Worker(w) == Register(w) \/ Receive(w) \/ Storing(w) \/ WorkerEnds(w)

(* main: after the last downloader, Stop closes the channel.               *)
CloseChannel ==
  /\ mpc = "downloading"
  /\ \A l \in Logs : lpc[l] = "done"
  /\ mpc' = "waiting"
  /\ UNCHANGED <<dbVars, tree, saved, lpc, range, sigs, entryChan, crashes,
                 dropped>>

(* ThreadWaitGroup.Wait returns when no registered worker is left; Cleanup *)
(* does nothing, and the process exits.                                    *)
Exit ==
  /\ mpc = "waiting"
  /\ \A w \in Workers : pc[w] \in {"new", "gone"}
  /\ mpc' = "exited"
  /\ UNCHANGED <<dbVars, tree, saved, lpc, range, sigs, entryChan, crashes,
                 dropped>>

(* SIGTERM: every channel registered for it receives it, unless full.      *)
Sigterm ==
  /\ Signals
  /\ mpc = "downloading"
  /\ outerSig' = outerSig \cup {l \in Logs : lpc[l] # "done"}
  /\ innerSig' = innerSig \cup {l \in Logs : lpc[l] \in {"fetch", "send"}}
  /\ UNCHANGED <<dbVars, tree, saved, lpc, range, entryChan, process>>

InHand == {cert[w] : w \in {v \in Workers : pc[v] \in StorePcs}}

(* The process dies, and is started again over what Redis holds.           *)
Crash ==
  /\ crashes < Crashes
  /\ crashes' = crashes + 1
  /\ dropped' = dropped \cup InHand
                  \cup {EntryAt(m[1], m[2]) : m \in Range(entryChan)}
  /\ kcOf' = [k \in Keys |-> Nobody]
  /\ expirySet' = {}
  /\ metaOf' = [i \in Issuers |-> Nobody]
  /\ knownDPs' = [o \in Issuers \X Workers |-> {}]
  /\ knownDNs' = [o \in Issuers \X Workers |-> {}]
  /\ pc' = [w \in Workers |-> IF Started THEN "idle" ELSE "new"]
  /\ cert' = [w \in Workers |-> Nobody]
  /\ kc' = [w \in Workers |-> Nobody]
  /\ im' = [w \in Workers |-> Nobody]
  /\ unknown' = [w \in Workers |-> FALSE]
  /\ todo' = [w \in Workers |-> <<>>]
  /\ seenDn' = [w \in Workers |-> FALSE]
  /\ lpc' = [l \in Logs |-> "poll"]
  /\ index' = [l \in Logs |-> 0]
  /\ endPos' = [l \in Logs |-> 0]
  /\ batch' = [l \in Logs |-> 0]
  /\ outerSig' = {} /\ innerSig' = {}
  /\ entryChan' = <<>>
  /\ mpc' = "downloading"
  /\ UNCHANGED <<now, redis, tree, saved>>

FetchNext ==
  \/ \E l \in Logs : Downloader(l) \/ TreeGrows(l)
  \/ \E w \in Workers : Worker(w)
  \/ CloseChannel \/ Exit
  \/ Sigterm
  \/ Crash
  \/ Tick /\ UNCHANGED fetchVars

FetchSpec == FetchInit /\ [][FetchNext]_ctVars

(* Goroutines are scheduled fairly, Redis answers, and a log that is asked *)
(* again and again answers at last: neither 429 nor an error for ever.     *)
(* Where a select has several ready cases Go picks one at random, so a     *)
(* case that is ready again and again is taken.                            *)
FetchFairness ==
  /\ \A l \in Logs :
       /\ SF_ctVars(StartSync(l))
       /\ SF_ctVars(FetchBatch(l))
       /\ SF_ctVars(SendEntry(l))
       /\ SF_ctVars(StopPolling(l))
       /\ WF_ctVars(RangeDone(l) \/ SkipLeaf(l) \/ FinalSave(l) \/ PollAgain(l))
  /\ \A w \in Workers : WF_ctVars(Worker(w))
  /\ WF_ctVars(CloseChannel \/ Exit)

FairFetchSpec == FetchSpec /\ FetchFairness

-----------------------------------------------------------------------------
(* Every variable keeps its type.                                          *)
FetchTypeOK ==
  /\ DbTypeOK
  /\ pc \in [Workers -> StorePcs \cup {"new", "idle", "gone"}]
  /\ \A w \in Workers : pc[w] \in StorePcs <=> cert[w] \in Certs
  /\ \A l \in Logs :
       /\ tree[l] \in 0..Len(Entry[l])
       /\ saved[l] \in Nat /\ index[l] \in Nat
       /\ lpc[l] = "send" => index[l] + batch[l] <= endPos[l]
       /\ lpc[l] # "send" => batch[l] = 0
  /\ lpc \in [Logs -> DownloaderPcs]
  /\ innerSig \subseteq {l \in Logs : lpc[l] \in {"fetch", "send"}}
  /\ outerSig \subseteq Logs
  /\ Len(entryChan) <= ChanCap
  /\ mpc \in {"downloading", "waiting", "exited"}

BeforeInsert == {cert[w] : w \in {v \in Workers : pc[v] \in
                                    {"lookup", "newKc", "insert"}}}

(* A saved position never passes an entry that is neither in Redis nor on  *)
(* its way there, in the channel or in the hands of a worker that has not  *)
(* inserted it: what saveState writes is the next index to download, and a *)
(* worker finishes what it holds.  Only a crash loses entries, those that  *)
(* were on their way, and an error of Store the one it was called with.    *)
(* It holds of a certificate up to its hour of expiry.                     *)
NoEntryLost ==
  \A l \in Logs : \A i \in 0..(saved[l] - 1) :
    LET e == EntryAt(l, i) IN
      e \in Certs /\ now < ExpDate(e) =>
        \/ Known(e)
        \/ <<l, i>> \in Range(entryChan)
        \/ e \in BeforeInsert
        \/ e \in dropped

(* The saved position of a log never goes back, over syncs with a limit,   *)
(* ticks, signals and errors of the log, as long as Redis answers.         *)
PositionNeverBack == [][\A l \in Logs : saved'[l] >= saved[l]]_ctVars

(* "Wait for workers to stop" (main): when the process exits, no entry is  *)
(* left in the channel or in a worker's hands.                             *)
ExitDrained == mpc = "exited" => entryChan = <<>> /\ InHand = {}

(* "Ensure cache is coherent" (main): a known serial without one of its    *)
(* distribution points, or its issuer's DN, in Redis is a loss, for Store  *)
(* does not accumulate the metadata of a known serial again.  It is always *)
(* explained by a Store of a certificate with that very point or DN that   *)
(* is going on, was refused by Redis or cut off by a crash: marks left in  *)
(* memory, by whichever worker, lose nothing else.                         *)
LossesExplained ==
  LET suspects(c) == {d \in dropped \cup InHand : d \in Certs /\ Issuer[d] = Issuer[c]}
  IN \A c \in Certs : Known(c) =>
       /\ (Range(Dps[c]) \cap WebDps) \ crls[Issuer[c]]
            \subseteq UNION {Range(Dps[d]) : d \in suspects(c)}
       /\ {Dn[c]} \ issuerDNs[Issuer[c]] \subseteq {Dn[d] : d \in suspects(c)}

(* What the next crlite-generate finds after ct-fetch has stopped: if no   *)
(* Store was cut off or refused, every certificate below the position that *)
(* Redis keeps of its log is known until its hour of expiry, and its       *)
(* distribution points and its issuer's DN are there too.  It takes what   *)
(* downloaders save, what workers finish and what Store accumulates.       *)
ExitComplete ==
  mpc = "exited" /\ dropped = {} =>
    \A l \in Logs : \A i \in 0..(saved[l] - 1) :
      LET e == EntryAt(l, i) IN
        e \in Certs /\ now < ExpDate(e) => Known(e) /\ Accounted(e)

(* Every certificate a log shows is in Redis in the end, with what         *)
(* aggregate-crls needs of it, whatever errors the log gives on the way,   *)
(* as long as it does not give them for ever and no SIGTERM ends the       *)
(* process before.                                                         *)
EverythingStored ==
  \A l \in Logs : \A i \in 0..(Len(Entry[l]) - 1) :
    EntryAt(l, i) \in Certs =>
      (tree[l] > i ~> \/ Known(EntryAt(l, i)) /\ Accounted(EntryAt(l, i))
                    \/ mpc = "exited")

(* A SIGTERM that every downloader receives ends the process, also when it *)
(* comes while a downloader does not listen (fetching the tree head or a   *)
(* batch).                                                                 *)
ShutdownCompletes == outerSig = Logs ~> mpc = "exited"
=============================================================================
