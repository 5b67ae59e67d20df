--------------------------- MODULE CtFetchProofs ---------------------------
(***************************************************************************)
(* Proofs about CtFetch, on top of the lemmas about Store.                 *)
(***************************************************************************)
EXTENDS CtFetch, CertDatabaseProofs

(* The entries that may be in the channel.                                 *)
Entries == {m \in Logs \X Nat : EntryAt(m[1], m[2]) \in Certs \cup {"skip"}}

FetchTypes ==
  /\ tree \in [Logs -> Nat] /\ saved \in [Logs -> Nat]
  /\ index \in [Logs -> Nat] /\ endPos \in [Logs -> Nat] /\ batch \in [Logs -> Nat]
  /\ lpc \in [Logs -> DownloaderPcs]
  /\ \A l \in Logs :
       /\ endPos[l] <= tree[l] /\ tree[l] <= Len(Entry[l])
       /\ lpc[l] = "send" => batch[l] # 0 /\ index[l] + batch[l] <= endPos[l]
       /\ lpc[l] # "send" => batch[l] = 0
  /\ innerSig \subseteq {l \in Logs : lpc[l] \in {"fetch", "send"}}
  /\ outerSig \subseteq Logs
  /\ entryChan \in Seq(Entries) /\ Len(entryChan) <= ChanCap
  /\ mpc \in {"downloading", "waiting", "exited"}

-----------------------------------------------------------------------------
LEMMA InRange ==
  ASSUME NEW S, NEW s \in Seq(S), NEW k \in 1..Len(s)
  PROVE  s[k] \in Range(s)
BY DEF Range

(* What is in a channel after a send and after a receive.                  *)
LEMMA AfterSend ==
  ASSUME NEW S, NEW s \in Seq(S), NEW e \in S
  PROVE  /\ Append(s, e) \in Seq(S) /\ Len(Append(s, e)) = Len(s) + 1
         /\ Range(s) \subseteq Range(Append(s, e)) /\ e \in Range(Append(s, e))
<1>1. Append(s, e) \in Seq(S) /\ Len(Append(s, e)) = Len(s) + 1
  OBVIOUS
<1>2. \A k \in 1..Len(s) : Append(s, e)[k] = s[k] /\ k \in 1..Len(Append(s, e))
  OBVIOUS
<1>3. Append(s, e)[Len(s) + 1] = e /\ Len(s) + 1 \in 1..Len(Append(s, e))
  OBVIOUS
<1> QED
  BY <1>1, <1>2, <1>3 DEF Range

LEMMA AfterReceive ==
  ASSUME NEW S, NEW s \in Seq(S), s # <<>>
  PROVE  /\ Tail(s) \in Seq(S) /\ Len(Tail(s)) = Len(s) - 1 /\ Head(s) \in S
         /\ Range(s) \subseteq {Head(s)} \cup Range(Tail(s))
<1>1. Tail(s) \in Seq(S) /\ Len(Tail(s)) = Len(s) - 1 /\ Head(s) \in S
  OBVIOUS
<1>2. \A k \in 1..Len(s) :
        s[k] = Head(s) \/ (k - 1 \in 1..Len(Tail(s)) /\ Tail(s)[k - 1] = s[k])
  <2> SUFFICES ASSUME NEW k \in 1..Len(s), k # 1
               PROVE  k - 1 \in 1..Len(Tail(s)) /\ Tail(s)[k - 1] = s[k]
    OBVIOUS
  <2> QED
    BY <1>1
<1>3. ASSUME NEW x \in Range(s), x # Head(s) PROVE x \in Range(Tail(s))
  <2>1. PICK k \in 1..Len(s) : s[k] = x
    BY DEF Range
  <2>2. k - 1 \in 1..Len(Tail(s)) /\ Tail(s)[k - 1] = x
    BY <1>2, <1>3, <2>1
  <2> QED
    BY <1>1, <2>2, InRange, Zenon
<1> QED
  BY <1>1, <1>3

(* The entry a downloader is about to deal with.                           *)
LEMMA EntryFacts ==
  ASSUME FetchTypes, NEW l \in Logs, lpc[l] = "send"
  PROVE  /\ index[l] \in Nat /\ EntryAt(l, index[l]) \in Certs \cup {"bad", "skip"}
         /\ index[l] < endPos[l]
<1>1. /\ index[l] \in Nat /\ batch[l] \in Nat \ {0} /\ endPos[l] \in Nat /\ tree[l] \in Nat
      /\ index[l] + batch[l] <= endPos[l] /\ endPos[l] <= tree[l]
      /\ tree[l] <= Len(Entry[l])
  BY DEF FetchTypes
<1>2. Entry[l] \in Seq(Certs \cup {"bad", "skip"})
  BY FetchAssumption
<1>3. index[l] + 1 \in 1..Len(Entry[l]) /\ index[l] < endPos[l]
  BY <1>1, <1>2
<1> QED
  BY <1>1, <1>2, <1>3 DEF EntryAt

LEMMA AdvanceCases ==
  ASSUME FetchTypes, NEW l \in Logs, lpc[l] = "send", Advance(l)
  PROVE  /\ index' = [index EXCEPT ![l] = @ + 1]
         /\ batch' = [batch EXCEPT ![l] = @ - 1]
         /\ \/ batch[l] = 1 /\ lpc' = [lpc EXCEPT ![l] = "fetch"]
            \/ batch[l] # 1 /\ lpc' = lpc
<1>1. batch \in [Logs -> Nat] /\ batch' = [batch EXCEPT ![l] = @ - 1]
  BY DEF FetchTypes, Advance
<1>2. batch'[l] = 0 <=> batch[l] = 1
  BY <1>1
<1> QED
  BY <1>1, <1>2 DEF Advance, GotoL

LEMMA AdvanceTypes ==
  ASSUME FetchTypes, NEW l \in Logs, lpc[l] = "send", Advance(l),
         UNCHANGED <<tree, saved, endPos, sigs, process>>,
         entryChan' \in Seq(Entries), Len(entryChan') <= ChanCap
  PROVE  FetchTypes'
<1> USE DEF FetchTypes, DownloaderPcs
<1>1. /\ index' = [index EXCEPT ![l] = index[l] + 1]
      /\ batch' = [batch EXCEPT ![l] = batch[l] - 1]
  BY AdvanceCases, Zenon
<1>2. index[l] \in Nat /\ batch[l] \in Nat \ {0} /\ endPos[l] \in Nat
  OBVIOUS
<1>3. index' \in [Logs -> Nat] /\ batch' \in [Logs -> Nat]
  BY <1>1, <1>2, SMTT(30)
<1>4. /\ index'[l] + batch'[l] <= endPos[l]
      /\ \A m \in Logs \ {l} : index'[m] = index[m] /\ batch'[m] = batch[m]
  BY <1>1, <1>2
<1>5. lpc' \in [Logs -> DownloaderPcs] /\ \A m \in Logs \ {l} : lpc'[m] = lpc[m]
  <2>1. lpc' = [lpc EXCEPT ![l] = "fetch"] \/ lpc' = lpc
    BY AdvanceCases, Zenon
  <2>2. lpc \in [Logs -> DownloaderPcs]
    OBVIOUS
  <2> QED
    BY <2>1, <2>2, Zenon
<1>6. \/ lpc'[l] = "fetch" /\ batch'[l] = 0
      \/ lpc'[l] = "send" /\ batch'[l] # 0
  <2>1. batch'[l] = batch[l] - 1 /\ lpc \in [Logs -> DownloaderPcs]
    BY <1>1
  <2>2. CASE batch[l] = 1 /\ lpc' = [lpc EXCEPT ![l] = "fetch"]
    BY <2>1, <2>2
  <2>3. CASE batch[l] # 1 /\ lpc' = lpc
    BY <1>2, <2>1, <2>3
  <2> QED
    BY <2>2, <2>3, AdvanceCases, Zenon
<1>7. innerSig' \subseteq {m \in Logs : lpc'[m] \in {"fetch", "send"}}
  BY <1>5, <1>6, Zenon DEF sigs
<1>8. \A m \in Logs :
        /\ endPos'[m] <= tree'[m] /\ tree'[m] <= Len(Entry[m])
        /\ lpc'[m] = "send" => batch'[m] # 0 /\ index'[m] + batch'[m] <= endPos'[m]
        /\ lpc'[m] # "send" => batch'[m] = 0
  <2> SUFFICES ASSUME NEW m \in Logs
               PROVE  /\ endPos[m] <= tree[m] /\ tree[m] <= Len(Entry[m])
                      /\ lpc'[m] = "send" =>
                           batch'[m] # 0 /\ index'[m] + batch'[m] <= endPos[m]
                      /\ lpc'[m] # "send" => batch'[m] = 0
    OBVIOUS
  <2>1. CASE m = l
    BY <1>4, <1>6, <2>1
  <2>2. CASE m # l
    BY <1>4, <1>5, <2>2, Zenon
  <2> QED
    BY <2>1, <2>2
<1> QED
  BY <1>3, <1>5, <1>7, <1>8, Zenon DEF sigs, process

LEMMA BeginSyncCases ==
  ASSUME FetchTypes, NEW l \in Logs, NEW start \in Nat, BeginSync(l, start)
  PROVE  \/ AfterSync(l) /\ UNCHANGED <<index, endPos>>
         \/ /\ index' = [index EXCEPT ![l] = start]
            /\ \E end \in Nat : end <= tree[l] /\ endPos' = [endPos EXCEPT ![l] = end]
            /\ GotoL(l, "fetch")
<1> DEFINE end == IF Limit > 0 /\ start + Limit < tree[l] THEN start + Limit ELSE tree[l]
<1>1. end \in Nat /\ end <= tree[l]
  BY FetchAssumption DEF FetchTypes
<1>2. IF start = end
      THEN AfterSync(l) /\ UNCHANGED <<index, endPos>>
      ELSE /\ index' = [index EXCEPT ![l] = start]
           /\ endPos' = [endPos EXCEPT ![l] = end]
           /\ GotoL(l, "fetch")
  BY DEF BeginSync
<1> QED
  BY <1>1, <1>2

(* A downloader keeps its types and touches nothing of the database.       *)
LEMMA DownloaderTypes ==
  ASSUME FetchTypes, NEW l \in Logs, Downloader(l)
  PROVE  FetchTypes'
<1> USE DEF FetchTypes, GotoL, AfterSync, DownloaderPcs, DownloadReturns, range, sigs, process
<1>1. ASSUME NEW start \in Nat, BeginSync(l, start) PROVE FetchTypes'
  <2>1. lpc[l] = "poll" /\ UNCHANGED <<tree, saved, batch, sigs, entryChan, process>>
    BY <1>1 DEF BeginSync
  <2>2. CASE AfterSync(l) /\ UNCHANGED <<index, endPos>>
    BY <2>1, <2>2, Zenon
  <2>3. ASSUME index' = [index EXCEPT ![l] = start], GotoL(l, "fetch"),
               NEW end \in Nat, end <= tree[l], endPos' = [endPos EXCEPT ![l] = end]
        PROVE  FetchTypes'
    BY <2>1, <2>3, Zenon
  <2> QED
    BY <1>1, <2>2, <2>3, BeginSyncCases, Zenon
<1>2. CASE StartSync(l) \/ StartSyncAnew(l)
  BY <1>1, <1>2, FetchAssumption, Zenon DEF StartSync, StartSyncAnew
<1>3. CASE NoTreeHead(l)
  <2>1. lpc[l] = "poll" /\ UNCHANGED <<tree, saved, range, sigs, entryChan, process>>
    BY <1>3 DEF NoTreeHead
  <2>2. lpc' = [lpc EXCEPT ![l] = "sleep"] \/ lpc' = [lpc EXCEPT ![l] = "done"]
    BY <1>3, Zenon DEF NoTreeHead
  <2> QED
    BY <2>1, <2>2, Zenon
<1>4. CASE FetchBatch(l)
  <2>1. PICK n \in BatchSizes(l) : batch' = [batch EXCEPT ![l] = n]
    BY <1>4, Zenon DEF FetchBatch
  <2>2. n \in Nat /\ n # 0 /\ index[l] + n <= endPos[l]
    <3>1. index[l] \in Nat /\ endPos[l] \in Nat /\ n \in 1..(endPos[l] - index[l])
      BY DEF BatchSizes
    <3> QED
      BY <3>1
  <2> QED
    BY <1>4, <2>1, <2>2, Zenon DEF FetchBatch
<1>5. CASE RangeDone(l) \/ FetchFails(l)
  BY <1>5, Zenon DEF RangeDone, FetchFails
<1>6. CASE SkipLeaf(l)
  BY <1>6, AdvanceTypes, Zenon DEF SkipLeaf
<1>7. CASE SendEntry(l)
  <2>1. lpc[l] = "send" /\ <<l, index[l]>> \in Entries
    BY <1>7, EntryFacts, Zenon DEF SendEntry, Selecting, Entries
  <2>2. entryChan' \in Seq(Entries) /\ Len(entryChan') <= ChanCap
    BY <1>7, <2>1, AfterSend, FetchAssumption DEF SendEntry
  <2> QED
    BY <1>7, <2>1, <2>2, AdvanceTypes, Zenon DEF SendEntry
<1>8. CASE TickerSaves(l)
  BY <1>8, Zenon DEF TickerSaves, Position
<1>9. CASE SignalCaught(l)
  BY <1>9, Zenon DEF SignalCaught, Selecting
<1>10. CASE FinalSave(l)
  BY <1>10, Zenon DEF FinalSave, Position
<1>11. CASE PollAgain(l)
  BY <1>11, Zenon DEF PollAgain
<1>12. CASE StopPolling(l)
  BY <1>12, Zenon DEF StopPolling, AfterSignal
<1> QED
  BY <1>2, <1>3, <1>4, <1>5, <1>6, <1>7, <1>8, <1>9, <1>10, <1>11, <1>12, Zenon DEF Downloader

LEMMA DownloaderFrame ==
  ASSUME NEW l \in Logs, Downloader(l)
  PROVE  UNCHANGED <<dbVars, tree, mpc, crashes, dropped>>
BY Zenon DEF Downloader, StartSync, StartSyncAnew, BeginSync, NoTreeHead, FetchBatch, RangeDone,
   FetchFails, SkipLeaf, SendEntry, TickerSaves, SignalCaught, FinalSave, PollAgain,
   StopPolling, DownloadReturns, process

(* A worker that receives an entry drops it or calls Store with it.        *)
LEMMA ReceiveCases ==
  ASSUME FetchTypes, NEW w \in Workers, Receive(w)
  PROVE  \E m \in Entries :
           /\ m = Head(entryChan) /\ entryChan # <<>> /\ entryChan' = Tail(entryChan)
           /\ \/ /\ EntryAt(m[1], m[2]) = "skip" \/ NotAfter[EntryAt(m[1], m[2])] < now
                 /\ UNCHANGED dbVars
              \/ EntryAt(m[1], m[2]) \in Certs /\ StoreCalled(w, EntryAt(m[1], m[2]))
<1> DEFINE m == Head(entryChan)
           e == EntryAt(m[1], m[2])
<1>1. entryChan # <<>> /\ entryChan' = Tail(entryChan)
  BY DEF Receive
<1>2. m \in Entries
  BY <1>1, AfterReceive DEF FetchTypes
<1>3. e \in Certs \cup {"skip"}
  BY <1>2, Zenon DEF Entries
<1>4. \/ (e = "skip" \/ NotAfter[e] < now) /\ UNCHANGED dbVars
      \/ e # "skip" /\ StoreCalled(w, e)
  BY DEF Receive
<1> QED
  BY <1>1, <1>2, <1>3, <1>4, Zenon

(* Restarted over what Redis holds, the process has its types.             *)
LEMMA CrashTypes ==
  ASSUME StoreTypes, FetchTypes, Crash
  PROVE  StoreTypes' /\ FetchTypes'
<1>1. FetchTypes'
  <2>1. <<>> \in Seq(Entries) /\ Len(<<>>) <= ChanCap
    BY FetchAssumption
  <2> QED
    BY <2>1 DEF Crash, FetchTypes, DownloaderPcs
<1>2. /\ pc' = [w \in Workers |-> IF Started THEN "idle" ELSE "new"]
      /\ cert' = [w \in Workers |-> Nobody] /\ todo' = [w \in Workers |-> <<>>]
  BY DEF Crash
<1>3. pc' \in [Workers -> {"idle", "new"}] /\ todo' \in [Workers -> Seq(Urls)]
  BY <1>2, SMTT(30)
<1>4. DbTypeOK'
  BY Zenon DEF Crash, StoreTypes, DbTypeOK, redis
<1>5. \A w \in Workers : pc'[w] \notin StorePcs /\ cert'[w] \notin Certs
  BY <1>2, <1>3, DatabaseAssumption DEF StorePcs
<1> QED
  BY <1>1, <1>3, <1>4, <1>5, Zenon DEF StoreTypes, StorePcs

LEMMA FetchStepTypes ==
  ASSUME StoreTypes, FetchTypes, [FetchNext]_ctVars
  PROVE  StoreTypes' /\ FetchTypes'
<1>1. ASSUME UNCHANGED dbVars PROVE StoreTypes'
  BY <1>1 DEF dbVars, redis, memory, locals, StoreTypes, DbTypeOK
<1>2. ASSUME UNCHANGED <<tree, saved, lpc, range, sigs, entryChan, mpc>> PROVE FetchTypes'
  BY <1>2, Zenon DEF range, sigs, FetchTypes
<1>3. ASSUME NEW l \in Logs, Downloader(l) PROVE StoreTypes' /\ FetchTypes'
  BY <1>1, <1>3, DownloaderTypes, DownloaderFrame, Zenon
<1>4. ASSUME NEW l \in Logs, TreeGrows(l) PROVE StoreTypes' /\ FetchTypes'
  <2>1. Len(Entry[l]) \in Nat
    BY FetchAssumption
  <2>2. FetchTypes'
    <3>1. /\ tree \in [Logs -> Nat] /\ endPos \in [Logs -> Nat]
          /\ \A m \in Logs : endPos[m] <= tree[m] /\ tree[m] <= Len(Entry[m])
      BY DEF FetchTypes
    <3>2. /\ tree' = [tree EXCEPT ![l] = tree[l] + 1] /\ tree[l] < Len(Entry[l])
          /\ UNCHANGED <<saved, lpc, range, sigs, entryChan, process>>
      BY <1>4 DEF TreeGrows
    <3>3. /\ tree' \in [Logs -> Nat]
          /\ \A m \in Logs : endPos[m] <= tree'[m] /\ tree'[m] <= Len(Entry[m])
      BY <2>1, <3>1, <3>2
    <3> QED
      BY <3>2, <3>3, Zenon DEF FetchTypes, range, sigs, process
  <2> QED
    BY <1>1, <1>4, <2>2, Zenon DEF TreeGrows
<1>5. ASSUME NEW w \in Workers, Register(w) \/ WorkerEnds(w) PROVE StoreTypes' /\ FetchTypes'
  <2>1. StoreTypes'
    <3>1. /\ pc[w] \in {"new", "idle"} /\ UNCHANGED <<now, redis, memory, locals>>
          /\ \/ pc' = [pc EXCEPT ![w] = "idle"]
             \/ pc' = [pc EXCEPT ![w] = "gone"]
      BY <1>5, Zenon DEF Register, WorkerEnds, Goto
    <3>2. DbTypeOK'
      BY <3>1 DEF StoreTypes, DbTypeOK, redis, memory, locals
    <3>3. pc' \in [Workers -> StorePcs \cup {"new", "idle", "gone"}]
      BY <3>1, ZenonT(30) DEF StoreTypes
    <3>4. \A v \in Workers : pc'[v] = pc[v] \/ (pc[v] \notin StorePcs /\ pc'[v] \notin StorePcs)
      BY <3>1 DEF StoreTypes, StorePcs
    <3> QED
      BY <3>1, <3>2, <3>3, <3>4, ZenonT(30) DEF StoreTypes, StorePcs, locals
  <2> QED
    BY <1>2, <1>5, <2>1, Zenon DEF Register, WorkerEnds, fetchVars, process
<1>6. ASSUME NEW w \in Workers, Receive(w) PROVE StoreTypes' /\ FetchTypes'
  <2>1. StoreTypes'
    BY <1>1, <1>6, ReceiveCases, CalledTypes, Zenon
  <2>2. entryChan' \in Seq(Entries) /\ Len(entryChan') <= ChanCap
    <3>1. entryChan \in Seq(Entries) /\ Len(entryChan) <= ChanCap /\ ChanCap \in Nat
      BY FetchAssumption, Zenon DEF FetchTypes
    <3>2. entryChan # <<>> /\ entryChan' = Tail(entryChan)
      BY <1>6 DEF Receive
    <3> QED
      BY <3>1, <3>2, AfterReceive
  <2> QED
    BY <1>6, <2>1, <2>2, Zenon DEF Receive, FetchTypes, range, sigs, process
<1>7. ASSUME NEW w \in Workers, Storing(w) PROVE StoreTypes' /\ FetchTypes'
  BY <1>2, <1>7, StepTypes, FailTypes DEF Storing
<1>8. CASE CloseChannel \/ Exit \/ Sigterm
  <2>1. StoreTypes'
    BY <1>1, <1>8, Zenon DEF CloseChannel, Exit, Sigterm
  <2>2. FetchTypes'
    BY <1>8, Zenon DEF CloseChannel, Exit, Sigterm, FetchTypes, range, sigs, process
  <2> QED
    BY <2>1, <2>2
<1>9. CASE Crash
  BY <1>9, CrashTypes
<1>10. CASE Tick /\ UNCHANGED fetchVars
  BY <1>2, <1>10, TickTypes DEF fetchVars, process
<1>11. CASE UNCHANGED ctVars
  BY <1>1, <1>2, <1>11, Zenon DEF ctVars, fetchVars, process
<1> QED
  BY <1>3, <1>4, <1>5, <1>6, <1>7, <1>8, <1>9, <1>10, <1>11, Zenon DEF FetchNext, Worker

LEMMA FetchInitTypes ==
  ASSUME FetchInit
  PROVE  StoreTypes /\ FetchTypes
<1>1. FetchTypes
  <2>1. <<>> \in Seq(Entries) /\ Len(<<>>) <= ChanCap
    BY FetchAssumption
  <2>2. \A l \in Logs : Len(Entry[l]) - 1 \in Nat /\ Len(Entry[l]) - 1 <= Len(Entry[l])
    BY FetchAssumption
  <2> QED
    BY <2>1, <2>2 DEF FetchInit, FetchTypes, DownloaderPcs
<1>2. /\ pc = [w \in Workers |-> IF Started THEN "idle" ELSE "new"]
      /\ cert = [w \in Workers |-> Nobody] /\ todo = [w \in Workers |-> <<>>]
  BY DEF FetchInit, DbInit, MemoryInit
<1>3. pc \in [Workers -> {"idle", "new"}] /\ todo \in [Workers -> Seq(Urls)]
  BY <1>2, SMTT(30)
<1>4. DbTypeOK
  BY DatabaseAssumption DEF FetchInit, DbInit, RedisHolds, MemoryInit, DbTypeOK
<1>5. \A w \in Workers : pc[w] \notin StorePcs /\ cert[w] \notin Certs
  BY <1>2, <1>3, DatabaseAssumption DEF StorePcs
<1> QED
  BY <1>1, <1>3, <1>4, <1>5, Zenon DEF StoreTypes, StorePcs

(* The types of Store and of the downloaders hold throughout.              *)
THEOREM FetchTypesHold == FetchSpec => [](StoreTypes /\ FetchTypes)
BY FetchInitTypes, FetchStepTypes, PTL DEF FetchSpec

(* ct-fetch keeps the type of every variable, over crashes, signals and    *)
(* errors of the logs and of Redis; so the channel never holds more than   *)
(* its capacity, and a batch never reaches beyond the range asked for.     *)
THEOREM FetchTypeCorrect == FetchSpec => []FetchTypeOK
<1>1. StoreTypes /\ FetchTypes => FetchTypeOK
  BY DEF StoreTypes, FetchTypes, FetchTypeOK
<1> QED
  BY <1>1, FetchTypesHold, PTL

-----------------------------------------------------------------------------
(* What a step does to the database.                                       *)
LEMMA DatabaseSteps ==
  ASSUME FetchTypes, [FetchNext]_ctVars
  PROVE  \/ UNCHANGED <<dbVars, dropped>>
         \/ \E w \in Workers, c \in Certs : StoreCalled(w, c) /\ UNCHANGED dropped
         \/ \E w \in Workers : StoreStep(w) /\ UNCHANGED dropped
         \/ \E w \in Workers : StoreFails(w) /\ dropped' = dropped \cup {cert[w]}
         \/ /\ \E w \in Workers : Register(w) \/ WorkerEnds(w)
            /\ UNCHANGED dropped
         \/ Tick /\ UNCHANGED dropped
         \/ Crash
<1>1. ASSUME NEW l \in Logs, Downloader(l) \/ TreeGrows(l)
      PROVE  UNCHANGED <<dbVars, dropped>>
  BY <1>1, DownloaderFrame DEF TreeGrows, process
<1>2. ASSUME NEW w \in Workers, Receive(w)
      PROVE  \/ UNCHANGED <<dbVars, dropped>>
             \/ \E c \in Certs : StoreCalled(w, c) /\ UNCHANGED dropped
  <2>1. UNCHANGED dropped
    BY <1>2 DEF Receive, process
  <2> QED
    BY <1>2, <2>1, ReceiveCases, Zenon
<1>3. ASSUME NEW w \in Workers, Storing(w)
      PROVE  \/ StoreStep(w) /\ UNCHANGED dropped
             \/ StoreFails(w) /\ dropped' = dropped \cup {cert[w]}
  BY <1>3 DEF Storing
<1>4. ASSUME NEW w \in Workers, Register(w) \/ WorkerEnds(w)
      PROVE  UNCHANGED dropped
  BY <1>4 DEF Register, WorkerEnds, fetchVars, process
<1>5. CASE CloseChannel \/ Exit \/ Sigterm
  BY <1>5, Zenon DEF CloseChannel, Exit, Sigterm, process
<1>6. CASE Tick /\ UNCHANGED fetchVars
  BY <1>6 DEF fetchVars, process
<1>7. CASE UNCHANGED ctVars
  BY <1>7, Zenon DEF ctVars, fetchVars, process
<1> QED
  BY <1>1, <1>2, <1>3, <1>4, <1>5, <1>6, <1>7, Zenon DEF FetchNext, Worker

LEMMA FetchKeepsKnown ==
  ASSUME StoreTypes, FetchTypes, [FetchNext]_ctVars,
         NEW c \in Certs, Known(c), now' < ExpDate(c)
  PROVE  Known(c)'
<1>1. CASE UNCHANGED <<now, redis>>
  BY <1>1 DEF redis, Known
<1>2. ASSUME NEW w \in Workers, StoreStep(w) \/ StoreFails(w) PROVE Known(c)'
  <2>1. now' = now
    BY <1>2, Zenon DEF StoreStep, LookupKnown, NewKnown, InsertSerial, SetExpiry,
       LookupMetadata, NewMetadata, ReadSeen, SkipDp, MarkDp, AddCRL, DpsDone, AddDN,
       StoreFails, InsertSerialFails, AddCRLFails, AddDNFails
  <2> QED
    BY <1>2, <2>1, StepKeepsKnown, Zenon
<1>3. CASE Tick
  BY <1>3, TickKeepsKnown
<1> QED
  BY <1>1, <1>2, <1>3, DatabaseSteps, Zenon DEF StoreCalled, Register, WorkerEnds, Crash, dbVars

(* ct-fetch: a serial that Redis knows stays known until the hour in which *)
(* its certificate ends, over crashes, restarts and failed calls.          *)
THEOREM FetchKnownUntilExpiry == FetchSpec => KnownUntilItsHour
<1>1. StoreTypes /\ FetchTypes /\ [FetchNext]_ctVars =>
        [\A c \in Certs : Known(c) /\ now' < ExpDate(c) => Known(c)']_dbVars
  BY FetchKeepsKnown
<1> QED
  BY <1>1, FetchTypesHold, PTL DEF FetchSpec, KnownUntilItsHour

-----------------------------------------------------------------------------
(* A downloader that has read its position is not behind it.               *)
Ahead ==
  \A l \in Logs : lpc[l] \in {"fetch", "send", "save"} => saved[l] <= index[l]

LEMMA DownloaderAhead ==
  ASSUME FetchTypes, Ahead, ~RedisFaults, Offset = 0, NEW l \in Logs, Downloader(l)
  PROVE  Ahead' /\ \A m \in Logs : saved'[m] >= saved[m]
<1>1. /\ saved \in [Logs -> Nat] /\ index \in [Logs -> Nat] /\ lpc \in [Logs -> DownloaderPcs]
      /\ saved[l] \in Nat /\ index[l] \in Nat
  BY Zenon DEF FetchTypes
<1> DEFINE Sync == {"fetch", "send", "save"}
<1>2. ASSUME UNCHANGED saved,
             \A m \in Logs \ {l} : lpc'[m] = lpc[m] /\ index'[m] = index[m],
             lpc'[l] \in Sync => saved[l] <= index'[l]
      PROVE  Ahead' /\ \A m \in Logs : saved'[m] >= saved[m]
  BY <1>1, <1>2, SMTT(30) DEF Ahead
<1>3. CASE StartSync(l)
  <2>1. BeginSync(l, saved[l])
    BY <1>3, SMTT(30) DEF StartSync
  <2>2. UNCHANGED saved
    BY <2>1, Zenon DEF BeginSync
  <2>3. /\ \A m \in Logs \ {l} : lpc'[m] = lpc[m] /\ index'[m] = index[m]
        /\ lpc'[l] \in Sync => index'[l] = saved[l]
    BY <1>1, <2>1, BeginSyncCases DEF AfterSync, GotoL
  <2> QED
    BY <1>1, <1>2, <2>2, <2>3
<1>4. ~StartSyncAnew(l)
  BY Zenon DEF StartSyncAnew
<1>5. CASE NoTreeHead(l) \/ PollAgain(l) \/ StopPolling(l)
  <2>1. /\ UNCHANGED <<saved, index>>
        /\ \A m \in Logs \ {l} : lpc'[m] = lpc[m]
        /\ lpc'[l] \notin Sync
    BY <1>1, <1>5, Zenon DEF NoTreeHead, PollAgain, StopPolling, AfterSync, AfterSignal, GotoL, range
  <2> QED
    BY <1>2, <2>1, Zenon
<1>6. CASE FetchBatch(l) \/ RangeDone(l) \/ FetchFails(l) \/ SignalCaught(l)
  <2>1. /\ UNCHANGED <<saved, index>> /\ lpc[l] \in Sync
        /\ \A m \in Logs \ {l} : lpc'[m] = lpc[m]
    BY <1>1, <1>6 DEF FetchBatch, RangeDone, FetchFails, SignalCaught, Selecting,
       DownloadReturns, GotoL
  <2> QED
    BY <1>2, <2>1, Zenon DEF Ahead
<1>7. CASE SkipLeaf(l) \/ SendEntry(l)
  <2>1. lpc[l] = "send" /\ Advance(l) /\ UNCHANGED saved
    BY <1>7, Zenon DEF SkipLeaf, SendEntry, Selecting
  <2>2. /\ \A m \in Logs \ {l} : lpc'[m] = lpc[m] /\ index'[m] = index[m]
        /\ index'[l] = index[l] + 1
    BY <1>1, <2>1, AdvanceCases, Zenon
  <2> QED
    <3>1. saved[l] <= index[l]
      BY <2>1, Zenon DEF Ahead
    <3>2. saved[l] <= index'[l]
      BY <1>1, <2>2, <3>1, SMTT(30)
    <3> QED
      BY <1>2, <2>1, <2>2, <3>2, ZenonT(30), ZenonT(30)
<1>8. CASE TickerSaves(l) \/ FinalSave(l)
  <2>1. /\ UNCHANGED index /\ lpc[l] \in Sync
        /\ saved' = [saved EXCEPT ![l] = index[l]]
        /\ \A m \in Logs \ {l} : lpc'[m] = lpc[m]
    BY <1>1, <1>8 DEF TickerSaves, FinalSave, Selecting, AfterSync, GotoL, Position, range
  <2> QED
    BY <1>1, <2>1, SMTT(30) DEF Ahead
<1> QED
  BY <1>3, <1>4, <1>5, <1>6, <1>7, <1>8, Zenon DEF Downloader

(* While Redis answers and no offset is configured, the saved position of  *)
(* a log never goes back, whatever the limit, the logs and the signals.    *)
THEOREM PositionOnwards ==
  ~RedisFaults /\ Offset = 0 => (FetchSpec => PositionNeverBack)
<1> SUFFICES ASSUME ~RedisFaults, Offset = 0 PROVE FetchSpec => PositionNeverBack
  OBVIOUS
<1>1. FetchInit => Ahead
  BY DEF FetchInit, Ahead
<1>2. FetchTypes /\ Ahead /\ [FetchNext]_ctVars =>
        Ahead' /\ [\A l \in Logs : saved'[l] >= saved[l]]_ctVars
  <2> SUFFICES ASSUME FetchTypes, Ahead, [FetchNext]_ctVars
               PROVE  Ahead' /\ \A l \in Logs : saved'[l] >= saved[l]
    OBVIOUS
  <2>1. \A l \in Logs : saved[l] \in Nat
    BY Zenon DEF FetchTypes
  <2>2. CASE UNCHANGED <<saved, lpc, index>>
    BY <2>1, <2>2, SMTT(30) DEF Ahead
  <2>3. CASE Crash
    <3>1. saved' = saved /\ \A l \in Logs : lpc'[l] = "poll"
      BY <2>3, Zenon DEF Crash
    <3> QED
      BY <2>1, <3>1, SMTT(30) DEF Ahead
  <2>4. ASSUME NEW l \in Logs, Downloader(l)
        PROVE  Ahead' /\ \A m \in Logs : saved'[m] >= saved[m]
    BY <2>4, DownloaderAhead
  <2> QED
    BY <2>2, <2>3, <2>4, ZenonT(30) DEF FetchNext, TreeGrows, Worker, Register, Receive, Storing,
       WorkerEnds, CloseChannel, Exit, Sigterm, fetchVars, ctVars, range
<1> QED
  BY <1>1, <1>2, FetchTypesHold, PTL DEF FetchSpec, PositionNeverBack

-----------------------------------------------------------------------------
(* When a worker has ended, the channel is closed and empty and stays so.  *)
DrainInv ==
  /\ mpc # "downloading" => \A l \in Logs : lpc[l] = "done"
  /\ \A w \in Workers : pc[w] = "gone" => mpc # "downloading" /\ entryChan = <<>>
  /\ Started => \A w \in Workers : pc[w] # "new"
  /\ mpc = "exited" => \A w \in Workers : pc[w] \in {"new", "gone"}

LEMMA StepPcs ==
  ASSUME StoreTypes, NEW w \in Workers,
         StoreStep(w) \/ StoreFails(w) \/ \E c \in Certs : StoreCalled(w, c)
  PROVE  /\ pc[w] \in StorePcs \cup {"idle"} /\ pc'[w] \in StorePcs \cup {"idle"}
         /\ \A v \in Workers \ {w} : pc'[v] = pc[v]
<1>1. pc[w] \in StorePcs \cup {"idle"}
  BY Zenon DEF StoreStep, LookupKnown, NewKnown, InsertSerial, SetExpiry, LookupMetadata,
     NewMetadata, ReadSeen, SkipDp, MarkDp, AddCRL, DpsDone, AddDN, StoreFails,
     InsertSerialFails, AddCRLFails, AddDNFails, StoreCalled, StorePcs
<1>2. pc'[w] \in StorePcs \cup {"idle"}
  <2>1. pc \in [Workers -> StorePcs \cup {"new", "idle", "gone"}]
    BY DEF StoreTypes
  <2>2. \A p \in StorePcs \cup {"idle"} : Goto(w, p) => pc'[w] = p
    BY <2>1, Zenon DEF Goto
  <2>3. CASE Return(w)
    BY <2>2, <2>3 DEF Return
  <2>4. CASE LookupKnown(w) \/ NewKnown(w) \/ InsertSerial(w) \/ LookupMetadata(w)
    BY <2>1, <2>4, Zenon DEF LookupKnown, NewKnown, InsertSerial, LookupMetadata, Goto, StorePcs
  <2>5. CASE NewMetadata(w) \/ ReadSeen(w) \/ SkipDp(w) \/ MarkDp(w) \/ AddCRL(w)
    BY <1>1, <2>1, <2>5, Zenon DEF NewMetadata, ReadSeen, SkipDp, MarkDp, AddCRL, Goto, StorePcs
  <2>6. CASE SetExpiry(w)
    BY <2>2, <2>3, <2>6, SetExpiryCases, Zenon DEF Continue, StorePcs
  <2>7. CASE DpsDone(w)
    BY <2>2, <2>3, <2>7, DpsDoneCases, Zenon DEF Continue, StorePcs
  <2>8. CASE \E c \in Certs : StoreCalled(w, c)
    BY <2>2, <2>8, Zenon DEF StoreCalled, StorePcs
  <2> QED
    BY <2>3, <2>4, <2>5, <2>6, <2>7, <2>8, ZenonT(30)
       DEF StoreStep, AddDN, StoreFails, InsertSerialFails, AddCRLFails, AddDNFails
<1> QED
  BY <1>1, <1>2, Others, Zenon

LEMMA StepDrain ==
  ASSUME StoreTypes, FetchTypes, DrainInv, [FetchNext]_ctVars
  PROVE  DrainInv'
<1>1. pc \in [Workers -> StorePcs \cup {"new", "idle", "gone"}] /\ lpc \in [Logs -> DownloaderPcs]
  BY ZenonT(30) DEF StoreTypes, FetchTypes
<1>2. ASSUME NEW l \in Logs, Downloader(l) PROVE DrainInv'
  <2>1. lpc[l] # "done"
    BY <1>2, Zenon DEF Downloader, StartSync, StartSyncAnew, BeginSync, NoTreeHead, FetchBatch,
       RangeDone, FetchFails, SkipLeaf, SendEntry, Selecting, TickerSaves, SignalCaught,
       FinalSave, PollAgain, StopPolling
  <2>2. mpc = "downloading" /\ \A w \in Workers : pc[w] # "gone"
    BY <2>1 DEF DrainInv
  <2>3. UNCHANGED <<pc, mpc>>
    BY <1>2, DownloaderFrame, Zenon DEF dbVars
  <2> QED
    BY <2>2, <2>3 DEF DrainInv
<1>3. ASSUME NEW w \in Workers, Register(w) \/ WorkerEnds(w) PROVE DrainInv'
  <2>1. /\ mpc # "exited" /\ UNCHANGED <<lpc, entryChan, mpc>>
        /\ \/ pc' = [pc EXCEPT ![w] = "idle"]
           \/ pc' = [pc EXCEPT ![w] = "gone"] /\ mpc = "waiting" /\ entryChan = <<>>
    BY <1>3, SMTT(20) DEF Register, WorkerEnds, Running, Drained, Goto, fetchVars, process
  <2> QED
    BY <1>1, <2>1, Zenon DEF DrainInv
<1>4. ASSUME NEW w \in Workers, UNCHANGED <<lpc, mpc>>, mpc # "exited",
             entryChan' = entryChan \/ (entryChan # <<>> /\ entryChan' = Tail(entryChan)),
             UNCHANGED dbVars \/ StoreStep(w) \/ StoreFails(w)
               \/ \E c \in Certs : StoreCalled(w, c)
      PROVE  DrainInv'
  <2>1. \A v \in Workers : pc'[v] = pc[v] \/ pc'[v] \in StorePcs \cup {"idle"}
    BY <1>4, StepPcs, Zenon DEF dbVars
  <2> QED
    BY <1>4, <2>1, Zenon DEF DrainInv, StorePcs
<1>5. ASSUME NEW w \in Workers, Receive(w) PROVE DrainInv'
  <2>1. UNCHANGED <<lpc, mpc>> /\ mpc # "exited"
    BY <1>5, Zenon DEF Receive, Running, process
  <2> QED
    BY <1>4, <1>5, <2>1, ReceiveCases
<1>6. ASSUME NEW w \in Workers, Storing(w) PROVE DrainInv'
  BY <1>4, <1>6, Zenon DEF Storing, Running
<1>7. CASE CloseChannel
  BY <1>7, Zenon DEF CloseChannel, DrainInv, dbVars
<1>8. CASE Exit
  BY <1>8, Zenon DEF Exit, DrainInv, dbVars
<1>9. CASE Crash
  BY <1>9, Zenon DEF Crash, DrainInv
<1>10. CASE UNCHANGED <<lpc, mpc, entryChan, pc>>
  BY <1>10 DEF DrainInv
<1> QED
  BY <1>2, <1>3, <1>5, <1>6, <1>7, <1>8, <1>9, <1>10, Zenon DEF FetchNext, Worker, TreeGrows,
     Sigterm, Tick, fetchVars, ctVars, dbVars, process

(* When there are workers, and they are registered before main waits for   *)
(* them, the process exits with nothing in the channel or in their hands,  *)
(* for any number of logs and workers and any capacity of the channel.     *)
THEOREM ExitsDrained ==
  Started /\ Workers # {} => (FetchSpec => []ExitDrained)
<1> SUFFICES ASSUME Started, Workers # {} PROVE FetchSpec => []ExitDrained
  BY Zenon
<1>1. FetchInit => DrainInv
  BY DEF FetchInit, DrainInv
<1>2. StoreTypes /\ FetchTypes /\ DrainInv /\ [FetchNext]_ctVars => DrainInv'
  BY StepDrain, Zenon
<1>3. DrainInv => ExitDrained
  BY Zenon DEF DrainInv, ExitDrained, InHand, StorePcs
<1> QED
  BY <1>1, <1>2, <1>3, FetchTypesHold, PTL DEF FetchSpec

-----------------------------------------------------------------------------
(* A distribution point, or a DN, of an issuer of which a Store was lost.  *)
LostDp(i, u) == \E d \in dropped : d \in Certs /\ Issuer[d] = i /\ u \in Range(Dps[d])
LostDn(i, n) == \E d \in dropped : d \in Certs /\ Issuer[d] = i /\ Dn[d] = n

LossInv ==
  \A i \in Issuers : /\ \A u \in WebDps : LostDp(i, u) \/ CoherentDp(i, u)
                     /\ \A n \in DNs : LostDn(i, n) \/ CoherentDn(i, n)

(* What a worker owes it has of the certificate in its hands.              *)
LEMMA OwedInHand ==
  ASSUME StoreTypes, NEW w \in Workers, NEW i, NEW x
  PROVE  /\ Owes(w, i, x) => /\ cert[w] \in InHand \cap Certs
                             /\ Issuer[cert[w]] = i /\ x \in Range(Dps[cert[w]])
         /\ OwesDn(w, i, x) => /\ cert[w] \in InHand \cap Certs
                               /\ Issuer[cert[w]] = i /\ Dn[cert[w]] = x
<1>1. cert[w] \in Certs => cert[w] \in InHand
  BY ZenonT(30) DEF StoreTypes, InHand
<1>2. Owes(w, i, x) => x \in Range(Dps[cert[w]])
  BY Zenon DEF Owes, StoreTypes
<1> QED
  BY <1>1, <1>2, Zenon DEF Owes, OwesDn

(* A crash loses what was owed, and forgets the marks.                     *)
LEMMA CrashLosses ==
  ASSUME StoreTypes, Crash, NEW i \in Issuers, NEW x
  PROVE  /\ CoherentDp(i, x) => LostDp(i, x)' \/ CoherentDp(i, x)'
         /\ CoherentDn(i, x) => LostDn(i, x)' \/ CoherentDn(i, x)'
<1>1. dropped \cup InHand \subseteq dropped' /\ UNCHANGED redis
  BY Zenon DEF Crash
<1>2. \A v \in Workers : knownDPs'[<<i, v>>] = {} /\ knownDNs'[<<i, v>>] = {}
  BY Zenon DEF Crash
<1>3. \A c \in Certs : Known(c)' <=> Known(c)
  BY <1>1 DEF redis, Known
<1>4. ASSUME NEW w \in Workers, Owes(w, i, x) PROVE LostDp(i, x)'
  BY <1>1, <1>4, OwedInHand, ZenonT(30) DEF LostDp
<1>5. ASSUME NEW w \in Workers, OwesDn(w, i, x) PROVE LostDn(i, x)'
  BY <1>1, <1>5, OwedInHand, ZenonT(30) DEF LostDn
<1> QED
  BY <1>1, <1>2, <1>3, <1>4, <1>5, ZenonT(30) DEF CoherentDp, CoherentDn, redis

LEMMA StepLosses ==
  ASSUME StoreTypes, FetchTypes, LossInv, [FetchNext]_ctVars
  PROVE  LossInv'
<1>1. dropped \subseteq dropped'
  BY DatabaseSteps DEF Crash
<1>2. \A i, x : (LostDp(i, x) => LostDp(i, x)') /\ (LostDn(i, x) => LostDn(i, x)')
  BY <1>1, Zenon DEF LostDp, LostDn
<1> SUFFICES ASSUME NEW i \in Issuers, NEW x
             PROVE  /\ x \in WebDps /\ CoherentDp(i, x) => LostDp(i, x)' \/ CoherentDp(i, x)'
                    /\ CoherentDn(i, x) => LostDn(i, x)' \/ CoherentDn(i, x)'
  BY <1>2, Zenon DEF LossInv
<1>3. CASE UNCHANGED dbVars
  BY <1>3, StillCoherent, Zenon DEF dbVars
<1>4. CASE \E w \in Workers, c \in Certs : StoreCalled(w, c)
  BY <1>4, CalledKeepsCoherent, Zenon
<1>5. CASE \E w \in Workers : StoreStep(w)
  BY <1>5, StepKeepsDp, StepKeepsDn, Zenon
<1>6. ASSUME NEW w \in Workers, StoreFails(w), dropped' = dropped \cup {cert[w]}
      PROVE  /\ CoherentDp(i, x) => LostDp(i, x)' \/ CoherentDp(i, x)'
             /\ CoherentDn(i, x) => LostDn(i, x)' \/ CoherentDn(i, x)'
  <2>1. cert[w] \in Certs
    BY <1>6, Zenon DEF StoreFails, InsertSerialFails, AddCRLFails, AddDNFails, StoreTypes, StorePcs
  <2> QED
    BY <1>6, <2>1, FailsKeepsCoherent, ZenonT(30) DEF LostDp, LostDn
<1>7. ASSUME NEW w \in Workers, Register(w) \/ WorkerEnds(w)
      PROVE  /\ CoherentDp(i, x) => CoherentDp(i, x)'
             /\ CoherentDn(i, x) => CoherentDn(i, x)'
  <2>1. /\ UNCHANGED <<redis, memory, locals>> /\ pc[w] \notin StorePcs /\ pc'[w] \notin StorePcs
        /\ \A v \in Workers \ {w} : pc'[v] = pc[v]
    BY <1>7, ZenonT(30) DEF Register, WorkerEnds, Goto, StoreTypes, StorePcs
  <2>2. \A c \in Certs : Known(c)' <=> Known(c)
    BY <2>1 DEF redis, Known
  <2>3. \A v \in Workers : /\ Owes(v, i, x) => Owes(v, i, x)'
                           /\ Adds(v, i, x) => Adds(v, i, x)'
                           /\ OwesDn(v, i, x) => OwesDn(v, i, x)'
                           /\ AddsDn(v, i, x) => AddsDn(v, i, x)'
    BY <2>1, Zenon DEF locals, Owes, Adds, OwesDn, AddsDn, Fresh, StorePcs
  <2> QED
    BY <2>1, <2>2, <2>3, Zenon DEF CoherentDp, CoherentDn, redis, memory
<1>8. CASE Tick
  BY <1>8, TickKeepsCoherent
<1>9. CASE Crash
  BY <1>9, CrashLosses
<1> QED
  BY <1>3, <1>4, <1>5, <1>6, <1>7, <1>8, <1>9, DatabaseSteps, ZenonT(30)

(* ct-fetch: a known serial lacks a distribution point or its issuer's DN  *)
(* in Redis only while a Store with that very point or DN is going on, or  *)
(* when one was lost, for any number of workers, logs and certificates.    *)
THEOREM LossesAreExplained == FetchSpec => []LossesExplained
<1>1. FetchInit => LossInv
  <2> SUFFICES ASSUME FetchInit PROVE LossInv
    BY SMTT(20)
  <2>1. \A c \in Certs : ~Known(c)
    BY CertFacts, Zenon DEF FetchInit, DbInit, RedisHolds, Known
  <2>2. \A i \in Issuers, v \in Workers : knownDPs[<<i, v>>] = {} /\ knownDNs[<<i, v>>] = {}
    BY DEF FetchInit, DbInit, MemoryInit
  <2> QED
    BY <2>1, <2>2, ZenonT(30) DEF LossInv, CoherentDp, CoherentDn
<1>2. StoreTypes /\ FetchTypes /\ LossInv /\ [FetchNext]_ctVars => LossInv'
  BY StepLosses, Zenon
<1>3. StoreTypes /\ LossInv => LossesExplained
  <2> SUFFICES ASSUME StoreTypes, LossInv, NEW c \in Certs, Known(c)
               PROVE  LET suspects == {d \in dropped \cup InHand :
                                         d \in Certs /\ Issuer[d] = Issuer[c]}
                      IN /\ (Range(Dps[c]) \cap WebDps) \ crls[Issuer[c]]
                              \subseteq UNION {Range(Dps[d]) : d \in suspects}
                         /\ {Dn[c]} \ issuerDNs[Issuer[c]] \subseteq {Dn[d] : d \in suspects}
    BY ZenonT(30) DEF LossesExplained
  <2> DEFINE i == Issuer[c]
  <2>1. i \in Issuers /\ Dn[c] \in DNs
    BY CertFacts, Zenon
  <2>2. ASSUME NEW u \in Range(Dps[c]) \cap WebDps, u \notin crls[i]
        PROVE  \E d \in dropped \cup InHand : d \in Certs /\ Issuer[d] = i /\ u \in Range(Dps[d])
    <3>1. LostDp(i, u) \/ \E w \in Workers : Owes(w, i, u)
      BY <2>1, <2>2, Zenon DEF LossInv, CoherentDp
    <3> QED
      BY <3>1, OwedInHand, Zenon DEF LostDp
  <2>3. ASSUME Dn[c] \notin issuerDNs[i]
        PROVE  \E d \in dropped \cup InHand : d \in Certs /\ Issuer[d] = i /\ Dn[d] = Dn[c]
    <3>1. LostDn(i, Dn[c]) \/ \E w \in Workers : OwesDn(w, i, Dn[c])
      BY <2>1, <2>3, Zenon DEF LossInv, CoherentDn
    <3> QED
      BY <3>1, OwedInHand, Zenon DEF LostDn
  <2> QED
    BY <2>2, <2>3, Zenon
<1> QED
  BY <1>1, <1>2, <1>3, FetchTypesHold, PTL DEF FetchSpec

-----------------------------------------------------------------------------
(* The entry a saved position has passed is accounted for, and so is one   *)
(* that a downloader has passed in the sync that is going on.              *)
Safe(l, i) ==
  EntryAt(l, i) \in Certs /\ now < ExpDate(EntryAt(l, i)) =>
    \/ Known(EntryAt(l, i))
    \/ <<l, i>> \in Range(entryChan)
    \/ EntryAt(l, i) \in BeforeInsert
    \/ EntryAt(l, i) \in dropped

SafeInv ==
  \A l \in Logs :
    /\ \A i \in Nat : i < saved[l] => Safe(l, i)
    /\ lpc[l] \in {"fetch", "send", "save"} => \A i \in Nat : i < index[l] => Safe(l, i)

(* A Store that goes on inserts the serial before it does anything else.   *)
LEMMA StepKeepsInserting ==
  ASSUME StoreTypes, NEW w \in Workers, StoreStep(w), NEW c \in BeforeInsert, c \in Certs
  PROVE  c \in BeforeInsert' \/ Known(c)'
<1>1. PICK v \in Workers : pc[v] \in {"lookup", "newKc", "insert"} /\ cert[v] = c
  BY ZenonT(30) DEF BeforeInsert
<1>2. CASE v # w
  BY <1>1, <1>2, Others, Zenon DEF BeforeInsert
<1>3. CASE v = w
  <2>1. CASE LookupKnown(w) \/ NewKnown(w)
    <3>1. cert' = cert /\ pc'[w] \in {"newKc", "insert"}
      BY <2>1, ZenonT(30) DEF LookupKnown, NewKnown, Goto, StoreTypes
    <3> QED
      BY <1>1, <1>3, <3>1 DEF BeforeInsert
  <2>2. CASE InsertSerial(w)
    BY <1>1, <1>3, <2>2, CertFacts, Zenon DEF InsertSerial, Known, StoreTypes, DbTypeOK
  <2> QED
    BY <1>1, <1>3, <2>1, <2>2, ZenonT(30)
       DEF StoreStep, SetExpiry, LookupMetadata, NewMetadata, ReadSeen,
       SkipDp, MarkDp, AddCRL, DpsDone, AddDN
<1> QED
  BY <1>2, <1>3, Zenon

LEMMA OthersInserting ==
  ASSUME StoreTypes, NEW w \in Workers, NEW c \in BeforeInsert,
         StoreFails(w) \/ \E d \in Certs : StoreCalled(w, d)
  PROVE  c \in BeforeInsert' \/ (c = cert[w] /\ StoreFails(w))
<1>1. PICK v \in Workers : pc[v] \in {"lookup", "newKc", "insert"} /\ cert[v] = c
  BY ZenonT(30) DEF BeforeInsert
<1>2. CASE v # w
  BY <1>1, <1>2, Others, ZenonT(30) DEF BeforeInsert
<1>3. CASE v = w
  BY <1>1, <1>3, Zenon DEF StoreCalled
<1> QED
  BY <1>2, <1>3

(* No step loses an entry.                                                 *)
LEMMA StepKeepsSafe ==
  ASSUME StoreTypes, FetchTypes, [FetchNext]_ctVars, NEW l \in Logs, NEW i \in Nat, Safe(l, i)
  PROVE  Safe(l, i)'
<1> DEFINE e == EntryAt(l, i)
<1> SUFFICES ASSUME e \in Certs, now' < ExpDate(e)
             PROVE  \/ Known(e)' \/ <<l, i>> \in Range(entryChan')
                    \/ e \in BeforeInsert' \/ e \in dropped'
  BY Zenon DEF Safe
<1>1. now \in Int /\ ExpDate(e) \in Int /\ NotAfter[e] \in Nat /\ ExpDate(e) <= NotAfter[e]
  <2>1. NotAfter[e] \in Nat /\ Hour \in Nat \ {0}
    BY DatabaseAssumption, Zenon
  <2>2. NotAfter[e] % Hour \in Nat
    BY <2>1, SMTT(30)
  <2>3. now \in Int
    <3>1. now \in 0..MaxTime
      BY Zenon DEF StoreTypes, DbTypeOK
    <3> QED
      BY <3>1, DatabaseAssumption, SMTT(30)
  <2>4. ExpDate(e) = NotAfter[e] - (NotAfter[e] % Hour)
    BY Zenon DEF ExpDate
  <2> QED
    BY <2>1, <2>2, <2>3, <2>4, SMTT(30)
<1>2. now' = now \/ now' = now + 1
  BY DatabaseSteps, Zenon DEF dbVars, StoreCalled, StoreStep, LookupKnown, NewKnown, InsertSerial,
     SetExpiry, LookupMetadata, NewMetadata, ReadSeen, SkipDp, MarkDp, AddCRL, DpsDone, AddDN,
     StoreFails, InsertSerialFails, AddCRLFails, AddDNFails, Register, WorkerEnds, Tick, Crash
<1>3. now < ExpDate(e)
  BY <1>1, <1>2
<1>4. CASE Known(e)
  BY <1>4, FetchKeepsKnown, Zenon
<1>5. dropped \subseteq dropped'
  BY DatabaseSteps DEF Crash
<1>6. CASE <<l, i>> \in Range(entryChan)
  <2>1. CASE UNCHANGED entryChan
    BY <1>6, <2>1, Zenon
  <2>2. ASSUME NEW m \in Logs, SendEntry(m) PROVE <<l, i>> \in Range(entryChan')
    <3>1. lpc[m] = "send" /\ <<m, index[m]>> \in Entries
      BY <2>2, EntryFacts, Zenon DEF SendEntry, Selecting, Entries
    <3> QED
      BY <1>6, <2>2, <3>1, AfterSend, Zenon DEF SendEntry, FetchTypes
  <2>3. ASSUME NEW w \in Workers, Receive(w)
        PROVE  <<l, i>> \in Range(entryChan') \/ e \in BeforeInsert'
    <3>1. PICK m \in Entries :
            /\ m = Head(entryChan) /\ entryChan # <<>> /\ entryChan' = Tail(entryChan)
            /\ \/ /\ EntryAt(m[1], m[2]) = "skip" \/ NotAfter[EntryAt(m[1], m[2])] < now
                  /\ UNCHANGED dbVars
               \/ EntryAt(m[1], m[2]) \in Certs /\ StoreCalled(w, EntryAt(m[1], m[2]))
      BY <2>3, ReceiveCases, ZenonT(30)
    <3>2. CASE m # <<l, i>>
      BY <1>6, <3>1, <3>2, AfterReceive DEF FetchTypes
    <3>3. CASE m = <<l, i>>
      <4>1. e # "skip" /\ ~(NotAfter[e] < now)
        <5>1. e # "skip"
          BY FetchAssumption, Zenon
        <5>2. ~(NotAfter[e] < now)
          BY <1>1, <1>3, SMTT(30)
        <5> QED
          BY <5>1, <5>2, Zenon
      <4>2. StoreCalled(w, e)
        BY <3>1, <3>3, <4>1, SMTT(20)
      <4>3. pc'[w] = "lookup" /\ cert'[w] = e
        BY <4>2, ZenonT(30) DEF StoreCalled, Goto, StoreTypes, DbTypeOK
      <4> QED
        BY <4>3, Zenon DEF BeforeInsert
    <3> QED
      BY <3>2, <3>3, Zenon
  <2>4. CASE Crash
    BY <1>6, <2>4 DEF Crash
  <2>5. ASSUME NEW m \in Logs, Downloader(m), ~SendEntry(m) PROVE UNCHANGED entryChan
    BY <2>5, Zenon DEF Downloader, StartSync, StartSyncAnew, BeginSync, NoTreeHead, FetchBatch,
       RangeDone, FetchFails, SkipLeaf, TickerSaves, SignalCaught, FinalSave, PollAgain,
       StopPolling, DownloadReturns
  <2> QED
    BY <2>1, <2>2, <2>3, <2>4, <2>5, ZenonT(30) DEF FetchNext, TreeGrows, Worker, Register, Storing,
       WorkerEnds, CloseChannel, Exit, Sigterm, fetchVars, ctVars
<1>7. CASE e \in BeforeInsert
  <2>1. CASE UNCHANGED dbVars
    BY <1>7, <2>1, Zenon DEF dbVars, locals, BeforeInsert
  <2>2. CASE \E w \in Workers, c \in Certs : StoreCalled(w, c)
    BY <1>7, <2>2, OthersInserting, Zenon
       DEF StoreFails, InsertSerialFails, AddCRLFails, AddDNFails, StoreCalled
  <2>3. CASE \E w \in Workers : StoreStep(w)
    BY <1>7, <2>3, StepKeepsInserting, Zenon
  <2>4. CASE \E w \in Workers : StoreFails(w) /\ dropped' = dropped \cup {cert[w]}
    BY <1>7, <2>4, OthersInserting, SMTT(20)
  <2>5. ASSUME NEW w \in Workers, Register(w) \/ WorkerEnds(w) PROVE e \in BeforeInsert'
    <3>1. PICK v \in Workers : pc[v] \in {"lookup", "newKc", "insert"} /\ cert[v] = e
      BY <1>7 DEF BeforeInsert
    <3>2. pc'[v] = pc[v] /\ cert' = cert
      BY <2>5, <3>1, Zenon DEF Register, WorkerEnds, Goto, locals, StoreTypes
    <3> QED
      BY <3>1, <3>2, ZenonT(30) DEF BeforeInsert
  <2>6. CASE Tick
    BY <1>7, <2>6, ZenonT(30) DEF Tick, locals, BeforeInsert
  <2>7. CASE Crash
    BY <1>7, <2>7, Zenon DEF Crash, BeforeInsert, InHand, StorePcs
  <2> QED
    BY <2>1, <2>2, <2>3, <2>4, <2>5, <2>6, <2>7, DatabaseSteps, Zenon
<1> QED
  BY <1>3, <1>4, <1>5, <1>6, <1>7, Zenon DEF Safe

(* What a downloader passes is bad, filtered out later, or in the channel. *)
LEMMA DownloaderSafe ==
  ASSUME StoreTypes, FetchTypes, SafeInv, Offset = 0, NEW l \in Logs, Downloader(l)
  PROVE  SafeInv'
<1> DEFINE Sync == {"fetch", "send", "save"}
<1>1. /\ saved \in [Logs -> Nat] /\ index \in [Logs -> Nat] /\ lpc \in [Logs -> DownloaderPcs]
      /\ saved[l] \in Nat /\ index[l] \in Nat
  BY Zenon DEF FetchTypes
<1>2. \A m \in Logs, i \in Nat : Safe(m, i) => Safe(m, i)'
  BY StepKeepsSafe DEF FetchNext
<1>3. ASSUME \A m \in Logs \ {l} : lpc'[m] = lpc[m] /\ index'[m] = index[m] /\ saved'[m] = saved[m],
             \A i \in Nat : i < saved'[l] => Safe(l, i)',
             lpc'[l] \in Sync => \A i \in Nat : i < index'[l] => Safe(l, i)'
      PROVE  SafeInv'
  BY <1>2, <1>3, Zenon DEF SafeInv
<1>4. ASSUME NEW start \in Nat, start <= saved[l], BeginSync(l, start) PROVE SafeInv'
  <2>1. UNCHANGED saved /\ lpc[l] = "poll"
    BY <1>4, ZenonT(30) DEF BeginSync
  <2>2. /\ \A m \in Logs \ {l} : lpc'[m] = lpc[m] /\ index'[m] = index[m]
        /\ lpc'[l] \in Sync => index'[l] = start
    BY <1>1, <1>4, BeginSyncCases, SMTT(20) DEF AfterSync, GotoL
  <2>3. \A i \in Nat : i < saved[l] => Safe(l, i)'
    BY <1>2, Zenon DEF SafeInv
  <2> QED
    <3>1. lpc'[l] \in Sync => \A i \in Nat : i < index'[l] => Safe(l, i)'
      <4> SUFFICES ASSUME lpc'[l] \in Sync, NEW i \in Nat, i < index'[l] PROVE Safe(l, i)'
        BY ZenonT(30)
      <4>a. index'[l] = start
        BY <2>2, Zenon
      <4>1. i < saved[l]
        BY <4>a, <1>1, <1>4, SMTT(30)
      <4> QED
        BY <2>3, <4>1, Zenon
    <3> QED
      BY <1>3, <2>1, <2>2, <2>3, <3>1, Zenon
<1>5. CASE StartSync(l) \/ StartSyncAnew(l)
  BY <1>1, <1>4, <1>5 DEF StartSync, StartSyncAnew
<1>6. CASE NoTreeHead(l) \/ PollAgain(l) \/ StopPolling(l)
  <2>1. /\ UNCHANGED <<saved, index>>
        /\ \A m \in Logs \ {l} : lpc'[m] = lpc[m]
        /\ lpc'[l] \notin Sync
    BY <1>1, <1>6 DEF NoTreeHead, PollAgain, StopPolling, AfterSync, AfterSignal, GotoL, range
  <2> QED
    BY <1>2, <1>3, <2>1, ZenonT(30) DEF SafeInv
<1>7. CASE FetchBatch(l) \/ RangeDone(l) \/ FetchFails(l) \/ SignalCaught(l)
  <2>1. /\ UNCHANGED <<saved, index>> /\ lpc[l] \in Sync
        /\ \A m \in Logs \ {l} : lpc'[m] = lpc[m]
    BY <1>1, <1>7 DEF FetchBatch, RangeDone, FetchFails, SignalCaught, Selecting,
       DownloadReturns, GotoL
  <2> QED
    BY <1>2, <1>3, <2>1, ZenonT(30) DEF SafeInv
<1>8. CASE SkipLeaf(l) \/ SendEntry(l)
  <2>1. lpc[l] = "send" /\ Advance(l) /\ UNCHANGED saved
    BY <1>8, Zenon DEF SkipLeaf, SendEntry, Selecting
  <2>2. /\ \A m \in Logs \ {l} : lpc'[m] = lpc[m] /\ index'[m] = index[m]
        /\ index'[l] = index[l] + 1
    BY <1>1, <2>1, AdvanceCases, ZenonT(30)
  <2>3. ASSUME NEW j \in Nat, j = index[l] PROVE Safe(l, j)'
    <3>1. CASE SkipLeaf(l)
      <4>1. EntryAt(l, j) = "bad"
        BY <2>3, <3>1, Zenon DEF SkipLeaf
      <4> QED
        BY <4>1, FetchAssumption, Zenon DEF Safe, EntryAt
    <3>2. CASE SendEntry(l)
      <4>1. <<l, index[l]>> \in Entries
        BY <2>1, <3>2, EntryFacts, Zenon DEF SendEntry, Selecting, Entries
      <4>2. <<l, index[l]>> \in Range(entryChan')
        BY <3>2, <4>1, AfterSend, Zenon DEF SendEntry, FetchTypes
      <4> QED
        BY <2>3, <4>2, Zenon DEF Safe
    <3> QED
      BY <1>8, <3>1, <3>2
  <2>4. ASSUME NEW i \in Nat, i < index[l] + 1 PROVE Safe(l, i)'
    <3>1. CASE i = index[l]
      BY <2>3, <3>1, Zenon
    <3>2. CASE i # index[l]
      BY <1>1, <1>2, <2>1, <2>4, <3>2 DEF SafeInv
    <3> QED
      BY <3>1, <3>2
  <2> QED
    BY <1>2, <1>3, <2>1, <2>2, <2>4, Zenon DEF SafeInv
<1>9. CASE TickerSaves(l) \/ FinalSave(l)
  <2>1. /\ UNCHANGED index /\ lpc[l] \in Sync
        /\ saved' = [saved EXCEPT ![l] = index[l]] \/ saved' = saved
        /\ \A m \in Logs \ {l} : lpc'[m] = lpc[m]
    BY <1>1, <1>9, Zenon DEF TickerSaves, FinalSave, Selecting, AfterSync, GotoL, Position, range
  <2>2. saved'[l] \in {index[l], saved[l]} /\ \A m \in Logs \ {l} : saved'[m] = saved[m]
    BY <1>1, <2>1
  <2> QED
    BY <1>2, <1>3, <2>1, <2>2, ZenonT(30) DEF SafeInv
<1> QED
  BY <1>5, <1>6, <1>7, <1>8, <1>9, Zenon DEF Downloader

(* With no offset configured, a saved position passes only entries that    *)
(* are in Redis, on their way there, or lost with a crash or an error of   *)
(* Store, for any number of logs and workers and any interleaving.         *)
THEOREM NothingLost == Offset = 0 => (FetchSpec => []NoEntryLost)
<1> SUFFICES ASSUME Offset = 0 PROVE FetchSpec => []NoEntryLost
  BY Zenon
<1>1. FetchInit => SafeInv
  BY DEF FetchInit, SafeInv
<1>2. StoreTypes /\ FetchTypes /\ SafeInv /\ [FetchNext]_ctVars => SafeInv'
  <2> SUFFICES ASSUME StoreTypes, FetchTypes, SafeInv, [FetchNext]_ctVars PROVE SafeInv'
    OBVIOUS
  <2>1. \A l \in Logs, i \in Nat : Safe(l, i) => Safe(l, i)'
    BY StepKeepsSafe, Zenon
  <2>2. CASE UNCHANGED <<saved, lpc, index>>
    BY <2>1, <2>2 DEF SafeInv
  <2>3. CASE Crash
    BY <2>1, <2>3, Zenon DEF Crash, SafeInv
  <2>4. ASSUME NEW l \in Logs, Downloader(l) PROVE SafeInv'
    BY <2>4, DownloaderSafe, Zenon
  <2> QED
    BY <2>2, <2>3, <2>4, Zenon DEF FetchNext, TreeGrows, Worker, Register, Receive, Storing,
       WorkerEnds, CloseChannel, Exit, Sigterm, fetchVars, ctVars, range
<1>3. FetchTypes /\ SafeInv => NoEntryLost
  <2> SUFFICES ASSUME FetchTypes, SafeInv, NEW l \in Logs, NEW i \in 0..(saved[l] - 1)
               PROVE  Safe(l, i)
    BY Zenon DEF NoEntryLost, Safe
  <2>1. saved[l] \in Nat
    BY DEF FetchTypes
  <2>2. i \in Nat /\ i < saved[l]
    BY <2>1
  <2> QED
    BY <2>2, Zenon DEF SafeInv
<1> QED
  BY <1>1, <1>2, <1>3, FetchTypesHold, PTL DEF FetchSpec

-----------------------------------------------------------------------------
(* Together: after an exit without a Store that was cut off or refused,    *)
(* Redis has all that lies below the saved positions, with what            *)
(* aggregate-crls needs of it.                                             *)
THEOREM CompleteAtExit ==
  Started /\ Workers # {} /\ Offset = 0 => (FetchSpec => []ExitComplete)
<1> SUFFICES ASSUME Started, Workers # {}, Offset = 0 PROVE FetchSpec => []ExitComplete
  BY Zenon
<1>1. NoEntryLost /\ ExitDrained /\ LossesExplained => ExitComplete
  <2> SUFFICES ASSUME NoEntryLost, ExitDrained, LossesExplained, mpc = "exited", dropped = {},
                      NEW l \in Logs, NEW i \in 0..(saved[l] - 1),
                      EntryAt(l, i) \in Certs, now < ExpDate(EntryAt(l, i))
               PROVE  Known(EntryAt(l, i)) /\ Accounted(EntryAt(l, i))
    BY Zenon DEF ExitComplete
  <2>1. entryChan = <<>> /\ InHand = {}
    BY Zenon DEF ExitDrained
  <2>2. Range(entryChan) = {}
    BY <2>1 DEF Range
  <2>3. BeforeInsert = {}
    BY <2>1, Zenon DEF BeforeInsert, InHand, StorePcs
  <2>4. Known(EntryAt(l, i))
    BY <2>2, <2>3, Zenon DEF NoEntryLost
  <2>5. ASSUME NEW c \in Certs, Known(c) PROVE Accounted(c)
    <3>1. {d \in dropped \cup InHand : d \in Certs /\ Issuer[d] = Issuer[c]} = {}
      BY <2>1, Zenon
    <3>2. /\ (Range(Dps[c]) \cap WebDps) \ crls[Issuer[c]] \subseteq {}
          /\ {Dn[c]} \ issuerDNs[Issuer[c]] \subseteq {}
      BY <2>5, <3>1, Zenon DEF LossesExplained
    <3> QED
      BY <3>2, Zenon DEF Accounted
  <2> QED
    BY <2>4, <2>5, Zenon
<1>2. FetchSpec => []NoEntryLost
  BY NothingLost
<1>3. FetchSpec => []ExitDrained
  BY ExitsDrained
<1> QED
  BY <1>1, <1>2, <1>3, LossesAreExplained, PTL
=============================================================================
