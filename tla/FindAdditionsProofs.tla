------------------------ MODULE FindAdditionsProofs ------------------------
(***************************************************************************)
(* find_additions computes the set difference, for any number of issuers   *)
(* and any order of the previous list.  P counts the groups of the         *)
(* previous list that have been dealt with.  An issuer that none of them   *)
(* names is untouched: its new keys, once read, wait in new_cache.  One    *)
(* that is named has been compared, and its difference is in added.        *)
(***************************************************************************)
EXTENDS FindAdditions, TLAPS

Seen(i) == \E j \in 1..(ni - 1) : Issuers[j] = i

Untouched(i, P) ==
  /\ added[i] = {}
  /\ newCache[i] = IF Seen(i) THEN KnownRevoked(i) ELSE {}
  /\ \A k \in 1..P : prior[k].issuer # i

Compared(i, P) ==
  /\ newCache[i] = {}
  /\ \E k \in 1..P : /\ prior[k].issuer = i
                     /\ added[i] = KnownRevoked(i) \ prior[k].set
  /\ Seen(i)

Progress(P) == \A i \in Names : Untouched(i, P) \/ Compared(i, P)

Types ==
  /\ known \in [Names -> SUBSET AllSerials]
  /\ revoked \in [Names -> SUBSET AllSerials]
  /\ prior \in Seq(Group) /\ IsRead(prior)
  /\ oi \in Nat \ {0} /\ ni \in Nat \ {0}
  /\ newCache \in [Names -> SUBSET AllSerials]
  /\ added \in [Names -> SUBSET AllSerials]

ListInv ==
  pc # "lists" =>
    list = [k \in 1..Len(Issuers) |->
              [issuer |-> Issuers[k], set |-> KnownRevoked(Issuers[k])]]

(* Where the loops are: cur is the last group taken of prior, and when the *)
(* first loop ended because prior was exhausted, cur was dealt with.       *)
LoopInv ==
  /\ pc \in {"zip", "rest", "leftover"} =>
       /\ oi \in 2..(Len(prior) + 1)
       /\ cur = prior[oi - 1]
  /\ pc \in {"lists", "first"} => ni = 1 /\ added = None /\ newCache = None
  /\ pc = "zip" => Progress(oi - 2)
  /\ pc \in {"rest", "leftover"} =>
       \/ Progress(oi - 2)
       \/ oi = Len(prior) + 1 /\ Progress(Len(prior))
  /\ pc \in {"leftover", "merge"} => ni > Len(Issuers)
  /\ pc = "merge" => Progress(Len(prior))

IInv == Types /\ ListInv /\ LoopInv /\ StashIsDifference

-----------------------------------------------------------------------------
(* The issuers and their names.                                            *)
LEMMA IssuersFacts ==
  /\ Len(Issuers) \in Nat
  /\ \A k \in 1..Len(Issuers) : Issuers[k] \in Names
  /\ \A i \in Names : \E k \in 1..Len(Issuers) : Issuers[k] = i
BY ListsAssumption DEF Names

(* The group at ni is of an issuer that was not seen, and reading it makes *)
(* that issuer, and no other, seen.                                        *)
LEMMA SeenStep ==
  ASSUME ni \in Nat \ {0}, ni <= Len(Issuers), ni' = ni + 1
  PROVE  /\ ~Seen(Issuers[ni])
         /\ \A i \in Names : Seen(i)' <=> (Seen(i) \/ i = Issuers[ni])
<1>1. ni \in 1..Len(Issuers)
  BY IssuersFacts
<1>2. ~Seen(Issuers[ni])
  <2> SUFFICES ASSUME NEW j \in 1..(ni - 1), Issuers[j] = Issuers[ni] PROVE FALSE
    BY DEF Seen
  <2>1. j \in 1..Len(Issuers) /\ j # ni
    BY <1>1, IssuersFacts
  <2> QED
    BY <1>1, <2>1, ListsAssumption
<1>3. 1..(ni' - 1) = (1..(ni - 1)) \cup {ni}
  BY <1>1, IssuersFacts
<1> QED
  BY <1>2, <1>3 DEF Seen

(* What the list holds at an index, once it is written.                    *)
LEMMA ListAt ==
  ASSUME IInv, pc # "lists"
  PROVE  /\ Len(list) = Len(Issuers)
         /\ \A k \in 1..Len(Issuers) :
              list[k].issuer = Issuers[k] /\ list[k].set = KnownRevoked(Issuers[k])
BY IssuersFacts DEF IInv, ListInv

(* An action that leaves the inputs and the list alone keeps what is said  *)
(* of them.                                                                *)
LEMMA InputsKept ==
  ASSUME IInv, UNCHANGED <<inputs, list>>, pc # "lists"
  PROVE  ListInv' /\ \A i : KnownRevoked(i)' = KnownRevoked(i)
BY DEF IInv, ListInv, inputs, KnownRevoked

(* An action that leaves the stash alone keeps what is said of it.         *)
LEMMA StashKept ==
  ASSUME IInv, UNCHANGED <<inputs, stash>>
  PROVE  StashIsDifference'
BY DEF IInv, StashIsDifference, inputs, KnownRevoked, OldOf

(* IInv holds at first.                                                    *)
LEMMA InitIInv == Init => IInv
<1> SUFFICES ASSUME Init PROVE IInv
  OBVIOUS
<1>1. Types
  BY DEF Init, Types, None, AllSerials
<1>2. ListInv
  BY DEF Init, ListInv
<1>3. LoopInv
  BY DEF Init, LoopInv
<1>4. StashIsDifference
  BY DEF Init, StashIsDifference
<1> QED
  BY <1>1, <1>2, <1>3, <1>4 DEF IInv

-----------------------------------------------------------------------------
(* createCertLists writes the groups in the order of the issuers.          *)
LEMMA CreateKeeps == IInv /\ CreateCertLists => IInv'
<1> SUFFICES ASSUME IInv, CreateCertLists PROVE IInv'
  OBVIOUS
<1>1. Types'
  BY DEF IInv, Types, CreateCertLists, inputs
<1>2. ListInv'
  BY DEF CreateCertLists, ListInv, inputs, KnownRevoked
<1>3. LoopInv'
  BY DEF IInv, LoopInv, CreateCertLists
<1> QED
  BY <1>1, <1>2, <1>3, StashKept DEF IInv, CreateCertLists

(* Taking the first old group starts the first loop.                       *)
LEMMA FirstKeeps == IInv /\ FirstOld => IInv'
<1> SUFFICES ASSUME IInv, FirstOld PROVE IInv'
  OBVIOUS
<1>1. Types'
  BY DEF IInv, Types, FirstOld, NoOld, WithoutDiff, inputs
<1>2. ListInv' /\ \A i : KnownRevoked(i)' = KnownRevoked(i)
  BY InputsKept DEF FirstOld, NoOld, WithoutDiff
<1>3. ni = 1 /\ added = None /\ newCache = None /\ ni' = ni
  BY DEF IInv, LoopInv, FirstOld, NoOld, WithoutDiff
<1>4. CASE prior = <<>>
  <2>1. pc' = "filter"
    BY <1>4 DEF FirstOld, NoOld, WithoutDiff
  <2> QED
    BY <1>1, <1>2, <2>1, StashKept DEF IInv, LoopInv, FirstOld, NoOld, WithoutDiff
<1>5. CASE prior # <<>>
  <2>1. pc' = "zip" /\ cur' = prior[1] /\ oi' = 2 /\ prior' = prior
    BY <1>5 DEF FirstOld, NoOld, WithoutDiff, inputs
  <2>2. Len(prior) \in Nat \ {0}
    BY <1>5 DEF IInv, Types
  <2>3. \A i \in Names : added'[i] = {} /\ newCache'[i] = {} /\ ~Seen(i)'
    BY <1>3 DEF FirstOld, NoOld, WithoutDiff, None, Seen
  <2>4. Progress(oi - 2)'
    BY <2>1, <2>3 DEF Progress, Untouched
  <2>5. LoopInv'
    BY <2>1, <2>2, <2>4 DEF LoopInv
  <2> QED
    BY <1>1, <1>2, <2>5, StashKept DEF IInv, FirstOld, NoOld, WithoutDiff
<1> QED
  BY <1>4, <1>5

(* An issuer without keys is read, and nothing of it is to be added.       *)
LEMMA SkipKeeps == IInv /\ SkipEmpty => IInv'
<1> SUFFICES ASSUME IInv, SkipEmpty PROVE IInv'
  OBVIOUS
<1>1. Types'
  BY DEF IInv, Types, SkipEmpty, inputs
<1>2. ListInv' /\ \A i : KnownRevoked(i)' = KnownRevoked(i)
  BY InputsKept DEF SkipEmpty
<1>3. /\ ni \in 1..Len(Issuers) /\ ni' = ni + 1
      /\ KnownRevoked(Issuers[ni]) = {}
  BY ListAt, IssuersFacts DEF SkipEmpty, IInv, Types
<1>4. ~Seen(Issuers[ni]) /\ \A i \in Names : Seen(i)' <=> (Seen(i) \/ i = Issuers[ni])
  BY <1>3, SeenStep DEF IInv, Types
<1>5. UNCHANGED <<added, newCache, prior, oi, cur, pc>>
  BY DEF SkipEmpty, inputs
<1>6. ASSUME NEW P, Progress(P) PROVE Progress(P)'
  <2> SUFFICES ASSUME NEW i \in Names PROVE Untouched(i, P)' \/ Compared(i, P)'
    BY DEF Progress
  <2>1. CASE Untouched(i, P)
    BY <1>2, <1>3, <1>4, <1>5, <2>1, Zenon DEF Untouched
  <2>2. CASE Compared(i, P)
    BY <1>2, <1>4, <1>5, <2>2 DEF Compared
  <2> QED
    BY <1>6, <2>1, <2>2 DEF Progress
<1>7. LoopInv'
  BY <1>5, <1>6 DEF IInv, LoopInv, SkipEmpty
<1> QED
  BY <1>1, <1>2, <1>7, StashKept DEF IInv, SkipEmpty

(* CacheNew, of NoMatch and Rest: the issuer read was untouched and stays. *)
LEMMA CacheKeeps ==
  ASSUME IInv, CacheNew, pc \in {"zip", "rest"}
  PROVE  IInv'
<1>1. Types' /\ ni \in 1..Len(Issuers)
  <2>1. ni \in 1..Len(Issuers) /\ list[ni].set = KnownRevoked(Issuers[ni])
    BY ListAt, IssuersFacts DEF CacheNew, Following, IInv, Types
  <2>2. list[ni].set \in SUBSET AllSerials
    BY <2>1, IssuersFacts DEF IInv, Types, KnownRevoked
  <2>3. newCache' \in [Names -> SUBSET AllSerials]
    BY <2>2, Zenon DEF IInv, Types, CacheNew, Following
  <2> QED
    BY <2>1, <2>3 DEF IInv, Types, CacheNew, Following, inputs
<1>2. ListInv' /\ \A i : KnownRevoked(i)' = KnownRevoked(i)
  BY InputsKept DEF CacheNew, Following
<1>3. /\ ni' = ni + 1
      /\ Issuers[ni] \in Names
      /\ \A i \in Names :
           newCache'[i] = IF i = Issuers[ni] THEN KnownRevoked(i) ELSE newCache[i]
  BY <1>1, ListAt, IssuersFacts, Zenon DEF CacheNew, Following, IInv, Types
<1>4. ~Seen(Issuers[ni]) /\ \A i \in Names : Seen(i)' <=> (Seen(i) \/ i = Issuers[ni])
  BY <1>1, <1>3, SeenStep, IssuersFacts DEF IInv, Types
<1>5. UNCHANGED <<added, prior, oi, cur, pc>>
  BY DEF CacheNew, Following, inputs
<1>6. ASSUME NEW P, Progress(P) PROVE Progress(P)'
  <2> SUFFICES ASSUME NEW i \in Names PROVE Untouched(i, P)' \/ Compared(i, P)'
    BY DEF Progress
  <2>1. CASE Untouched(i, P)
    BY <1>2, <1>3, <1>4, <1>5, <2>1 DEF Untouched
  <2>2. CASE Compared(i, P)
    BY <1>2, <1>3, <1>4, <1>5, <2>2 DEF Compared
  <2> QED
    BY <1>6, <2>1, <2>2 DEF Progress
<1>7. LoopInv'
  BY <1>5, <1>6 DEF IInv, LoopInv
<1> QED
  BY <1>1, <1>2, <1>7, StashKept DEF IInv, CacheNew, Following

(* The issuer of cur is compared, and cur has been dealt with.             *)
LEMMA MatchKeeps == IInv /\ Match => IInv'
<1> SUFFICES ASSUME IInv, Match PROVE IInv'
  OBVIOUS
<1>1. /\ ni \in 1..Len(Issuers) /\ ni' = ni + 1
      /\ oi \in 2..(Len(prior) + 1) /\ Len(prior) \in Nat
      /\ cur = prior[oi - 1] /\ cur.issuer = Issuers[ni]
      /\ cur.issuer \in Names /\ Progress(oi - 2)
  BY ListAt, IssuersFacts DEF Match, IInv, Types, LoopInv
<1>2. ListInv' /\ \A i : KnownRevoked(i)' = KnownRevoked(i)
  BY InputsKept DEF Match
<1>3. /\ UNCHANGED <<newCache, prior>>
      /\ \A i \in Names : added'[i] = IF i = cur.issuer
                                      THEN KnownRevoked(i) \ cur.set ELSE added[i]
  BY <1>1, ListAt, Zenon DEF Match, inputs, IInv, Types
<1>4. ~Seen(cur.issuer) /\ \A i \in Names : Seen(i)' <=> (Seen(i) \/ i = cur.issuer)
  BY <1>1, SeenStep, IssuersFacts
<1>5. ASSUME NEW P, P = oi - 1 PROVE Progress(P)'
  <2> SUFFICES ASSUME NEW i \in Names PROVE Untouched(i, P)' \/ Compared(i, P)'
    BY DEF Progress
  <2>1. P \in 1..P /\ 1..P = (1..(oi - 2)) \cup {P} /\ prior[P] = cur
    BY <1>1, <1>5
  <2>2. CASE i = cur.issuer
    <3>1. Untouched(i, oi - 2)
      BY <1>1, <1>4, <2>2 DEF Progress, Compared
    <3>2. newCache'[i] = {} /\ Seen(i)'
      BY <1>3, <1>4, <2>2, <3>1 DEF Untouched
    <3>3. added'[i] = KnownRevoked(i)' \ prior'[P].set /\ prior'[P].issuer = i
      BY <1>2, <1>3, <2>1, <2>2, Zenon
    <3> QED
      BY <2>1, <3>2, <3>3 DEF Compared
  <2>3. CASE i # cur.issuer /\ Untouched(i, oi - 2)
    BY <1>2, <1>3, <1>4, <2>1, <2>3, Zenon DEF Untouched
  <2>4. CASE i # cur.issuer /\ Compared(i, oi - 2)
    BY <1>2, <1>3, <1>4, <2>1, <2>4, Zenon DEF Compared
  <2> QED
    BY <1>1, <2>2, <2>3, <2>4 DEF Progress
<1>6. Types'
  <2>1. added' \in [Names -> SUBSET AllSerials]
    BY <1>1, ListAt, IssuersFacts, ZenonT(30) DEF Match, IInv, Types, KnownRevoked
  <2> QED
    BY <1>1, <2>1, SMTT(30) DEF Match, IInv, Types, inputs
<1>7. CASE oi <= Len(prior)
  <2>1. oi' = oi + 1 /\ cur' = prior[oi] /\ pc' = "zip"
    BY <1>7 DEF Match
  <2>2. Progress(oi - 2)'
    <3>1. (oi - 2)' = oi - 1
      BY <1>1, <2>1
    <3> QED
      BY <1>5, <3>1 DEF Progress, Untouched, Compared
  <2>3. LoopInv'
    BY <1>1, <1>3, <1>7, <2>1, <2>2, SMTT(30) DEF LoopInv
  <2> QED
    BY <1>2, <1>6, <2>3, StashKept DEF IInv, Match
<1>8. CASE ~(oi <= Len(prior))
  <2>1. oi' = oi /\ cur' = cur /\ pc' = "rest" /\ oi = Len(prior) + 1
    BY <1>1, <1>8 DEF Match
  <2>2. Progress(Len(prior))'
    <3>1. Len(prior)' = oi - 1
      BY <1>1, <1>3, <2>1
    <3> QED
      BY <1>5, <3>1 DEF Progress, Untouched, Compared
  <2>3. LoopInv'
    BY <1>1, <1>3, <2>1, <2>2 DEF LoopInv
  <2> QED
    BY <1>2, <1>6, <2>3, StashKept DEF IInv, Match
<1> QED
  BY <1>7, <1>8

(* The loops end when the new list was read to its end.                    *)
LEMMA EndsKeep == IInv /\ (ZipEnds \/ RestEnds) => IInv'
<1> SUFFICES ASSUME IInv, ZipEnds \/ RestEnds PROVE IInv'
  OBVIOUS
<1>1. /\ UNCHANGED <<inputs, list, oi, ni, cur, newCache, added, stash>>
      /\ pc # "lists" /\ pc' # "lists"
  BY DEF ZipEnds, RestEnds
<1>2. Types'
  BY <1>1 DEF IInv, Types, inputs
<1>3. ListInv' /\ \A i : KnownRevoked(i)' = KnownRevoked(i)
  BY <1>1, InputsKept
<1>4. prior' = prior /\ \A P : Progress(P)' <=> Progress(P)
  BY <1>1, <1>3 DEF inputs, Progress, Untouched, Compared, Seen
<1>5. ni > Len(Issuers)
  BY ListAt DEF ZipEnds, RestEnds
<1>6. LoopInv'
  <2>1. CASE ZipEnds
    <3>1. Progress(oi - 2)'
      BY <1>1, <1>4, <2>1 DEF ZipEnds, IInv, LoopInv
    <3> QED
      BY <1>1, <1>4, <2>1, <3>1 DEF ZipEnds, IInv, LoopInv
  <2>2. CASE RestEnds
    <3>1. Progress(oi - 2)' \/ (oi' = Len(prior') + 1 /\ Progress(Len(prior))')
      BY <1>1, <1>4, <2>2 DEF RestEnds, IInv, LoopInv
    <3> QED
      BY <1>1, <1>4, <1>5, <2>2, <3>1 DEF RestEnds, IInv, LoopInv
  <2> QED
    BY <2>1, <2>2
<1> QED
  BY <1>1, <1>2, <1>3, <1>6, StashKept DEF IInv

(* A leftover group: the issuer of cur is compared, unless it was before.  *)
LEMMA LeftoverKeeps == IInv /\ Leftover => IInv'
<1> SUFFICES ASSUME IInv, Leftover PROVE IInv'
  OBVIOUS
<1>1. /\ oi \in 2..(Len(prior) + 1) /\ Len(prior) \in Nat
      /\ cur = prior[oi - 1] /\ cur.issuer \in Names
      /\ ni' = ni /\ prior' = prior /\ ni > Len(Issuers) /\ ni \in Nat
  <2>1. /\ oi \in 2..(Len(prior) + 1) /\ cur = prior[oi - 1]
        /\ ni > Len(Issuers) /\ prior \in Seq(Group)
    BY DEF Leftover, IInv, Types, LoopInv
  <2>2. Len(prior) \in Nat /\ oi - 1 \in 1..Len(prior)
    BY <2>1
  <2>3. cur \in Group
    BY <2>1, <2>2
  <2>4. ni' = ni /\ prior' = prior /\ ni \in Nat
    BY DEF Leftover, inputs, IInv, Types
  <2> QED
    BY <2>1, <2>2, <2>3, <2>4 DEF Group
<1>2. ListInv' /\ \A i : KnownRevoked(i)' = KnownRevoked(i)
  BY InputsKept DEF Leftover
<1>3. \A i \in Names : Seen(i) /\ Seen(i)'
  BY <1>1, IssuersFacts DEF Seen
<1>4. Types'
  BY <1>1, SMTT(30) DEF Leftover, IInv, Types, inputs
<1>5. \A i \in Names :
        IF i = cur.issuer /\ newCache[i] # {}
        THEN added'[i] = newCache[i] \ cur.set /\ newCache'[i] = {}
        ELSE added'[i] = added[i] /\ newCache'[i] = newCache[i]
  BY <1>1 DEF Leftover, IInv, Types
<1>6. ASSUME NEW P, P = oi - 1 PROVE Progress(P)'
  <2> SUFFICES ASSUME NEW i \in Names PROVE Untouched(i, P)' \/ Compared(i, P)'
    BY DEF Progress
  <2>1. P \in 1..P /\ 1..P = (1..(oi - 2)) \cup {P} /\ prior[P] = cur
    BY <1>1, <1>6
  <2>2. \/ Untouched(i, oi - 2) \/ Compared(i, oi - 2)
        \/ Untouched(i, P) \/ Compared(i, P)
    BY <1>1, <1>6 DEF Leftover, IInv, LoopInv, Progress
  <2>3. CASE i = cur.issuer /\ Untouched(i, oi - 2)
    <3>1. added'[i] = KnownRevoked(i) \ cur.set /\ newCache'[i] = {}
      BY <1>3, <1>5, <2>3 DEF Untouched
    <3> QED
      BY <1>1, <1>2, <1>3, <2>1, <2>3, <3>1, Zenon DEF Compared
  <2>4. CASE i = cur.issuer /\ Untouched(i, P)
    BY <2>1, <2>4 DEF Untouched
  <2>5. CASE i # cur.issuer /\ (Untouched(i, oi - 2) \/ Untouched(i, P))
    BY <1>1, <1>2, <1>3, <1>5, <2>1, <2>5, Zenon DEF Untouched
  <2>6. CASE Compared(i, oi - 2) \/ Compared(i, P)
    <3>1. added'[i] = added[i] /\ newCache'[i] = {}
      BY <1>5, <2>6, Zenon DEF Compared
    <3>2. PICK k \in 1..P : prior[k].issuer = i /\ added[i] = KnownRevoked(i) \ prior[k].set
      BY <2>1, <2>6 DEF Compared
    <3> QED
      BY <1>1, <1>2, <1>3, <3>1, <3>2, Zenon DEF Compared
  <2> QED
    BY <2>2, <2>3, <2>4, <2>5, <2>6
<1>7. CASE oi <= Len(prior)
  <2>1. oi' = oi + 1 /\ cur' = prior[oi] /\ pc' = "leftover"
    BY <1>7 DEF Leftover
  <2>2. Progress(oi - 2)'
    <3>1. (oi - 2)' = oi - 1
      BY <1>1, <2>1
    <3> QED
      BY <1>6, <3>1 DEF Progress, Untouched, Compared
  <2>3. LoopInv'
    BY <1>1, <1>7, <2>1, <2>2 DEF LoopInv
  <2> QED
    BY <1>2, <1>4, <2>3, StashKept DEF IInv, Leftover
<1>8. CASE ~(oi <= Len(prior))
  <2>1. pc' = "merge" /\ oi = Len(prior) + 1
    BY <1>1, <1>8 DEF Leftover
  <2>2. Progress(Len(prior))'
    <3>1. Len(prior)' = oi - 1
      BY <1>1, <2>1
    <3> QED
      BY <1>6, <3>1 DEF Progress, Untouched, Compared
  <2>3. LoopInv'
    BY <1>1, <2>1, <2>2, Zenon DEF LoopInv
  <2> QED
    BY <1>2, <1>4, <2>3, StashKept DEF IInv, Leftover
<1> QED
  BY <1>7, <1>8

(* In the end every issuer was read: those untouched are new, and of those *)
(* compared there is one old group, whose keys are all that was old.       *)
LEMMA Differences ==
  ASSUME IInv, pc = "merge", NEW i \in Names
  PROVE  /\ newCache[i] = {} \/ added[i] = {}
         /\ added[i] \cup newCache[i] = KnownRevoked(i) \ OldOf(i)
<1>1. Seen(i) /\ Len(prior) \in Nat
  BY IssuersFacts DEF IInv, LoopInv, Seen, Types
<1>2. CASE Untouched(i, Len(prior))
  <2>1. OldOf(i) = {}
    BY <1>2 DEF Untouched, OldOf
  <2> QED
    BY <1>1, <1>2, <2>1 DEF Untouched
<1>3. CASE Compared(i, Len(prior))
  <2>1. PICK k \in 1..Len(prior) :
          prior[k].issuer = i /\ added[i] = KnownRevoked(i) \ prior[k].set
    BY <1>3 DEF Compared
  <2>2. {j \in 1..Len(prior) : prior[j].issuer = i} = {k}
    BY <2>1 DEF IInv, Types, IsRead
  <2>3. OldOf(i) = prior[k].set
    BY <2>2 DEF OldOf
  <2> QED
    BY <1>3, <2>1, <2>3, Zenon DEF Compared
<1> QED
  BY <1>2, <1>3 DEF IInv, LoopInv, Progress

(* What was compared and what is left together are the difference.         *)
LEMMA MergeKeeps == IInv /\ Merge => IInv'
<1> SUFFICES ASSUME IInv, Merge PROVE IInv'
  OBVIOUS
<1>1. pc = "merge" /\ pc' = "filter"
  BY DEF Merge
<1>2. /\ added' = [i \in Names |-> added[i] \cup newCache[i]]
      /\ stash' = <<added'>>
  BY <1>1, Differences DEF Merge
<1>3. Types'
  BY <1>2 DEF Merge, IInv, Types, inputs
<1>4. ListInv'
  BY <1>1, InputsKept DEF Merge
<1>5. LoopInv'
  BY <1>1 DEF LoopInv
<1>6. \A i \in Names : stash'[1][i] = KnownRevoked(i) \ OldOf(i)
  BY <1>1, <1>2, Differences, Zenon
<1>7. StashIsDifference'
  BY <1>6 DEF StashIsDifference, Merge, inputs, KnownRevoked, OldOf
<1> QED
  BY <1>3, <1>4, <1>5, <1>7 DEF IInv

(* Making the filter leaves the stash alone.                               *)
LEMMA FilterKeeps == IInv /\ MakeFilter => IInv'
<1> SUFFICES ASSUME IInv, MakeFilter PROVE IInv'
  OBVIOUS
<1>1. pc' \in {"failed", "done"} /\ pc = "filter"
  BY Zenon DEF MakeFilter
<1>2. Types'
  BY DEF MakeFilter, IInv, Types, inputs
<1>3. ListInv'
  BY <1>1, InputsKept DEF MakeFilter
<1>4. LoopInv'
  BY <1>1 DEF LoopInv
<1> QED
  BY <1>2, <1>3, <1>4, StashKept DEF IInv, MakeFilter

(* Stuttering keeps IInv.                                                  *)
LEMMA StutterKeeps == IInv /\ UNCHANGED vars => IInv'
<1> SUFFICES ASSUME IInv, UNCHANGED vars PROVE IInv'
  OBVIOUS
<1>1. \A i : KnownRevoked(i)' = KnownRevoked(i)
  BY Zenon DEF vars, inputs, KnownRevoked
<1>2. Types' /\ ListInv'
  BY <1>1, Zenon DEF vars, inputs, IInv, Types, ListInv
<1>3. \A P : Progress(P)' <=> Progress(P)
  BY <1>1 DEF vars, inputs, Progress, Untouched, Compared, Seen
<1>4. Progress(oi - 2)' <=> Progress(oi - 2)
  BY <1>3 DEF vars
<1>5. Progress(Len(prior))' <=> Progress(Len(prior))
  BY <1>3 DEF vars, inputs
<1>6. LoopInv'
  BY <1>4, <1>5 DEF vars, inputs, IInv, LoopInv
<1> QED
  BY <1>2, <1>6, StashKept DEF IInv, vars

(* IInv is inductive.                                                      *)
LEMMA NextKeeps == IInv /\ [Next]_vars => IInv'
<1> SUFFICES ASSUME IInv, [Next]_vars PROVE IInv'
  OBVIOUS
<1>1. CASE NoMatch \/ Rest
  BY <1>1, CacheKeeps DEF NoMatch, Rest
<1>2. CASE Next /\ ~(NoMatch \/ Rest)
  BY <1>2, CreateKeeps, FirstKeeps, SkipKeeps, MatchKeeps, EndsKeep,
     LeftoverKeeps, MergeKeeps, FilterKeeps DEF Next
<1> QED
  BY <1>1, <1>2, StutterKeeps

(* IInv holds in every state.                                              *)
THEOREM IInvHolds == Spec => []IInv
BY InitIInv, NextKeeps, PTL DEF Spec

(* The stash certs_to_crlite writes is, for each issuer, exactly the known *)
(* revoked keys that were not in the previous run's list.                  *)
THEOREM StashCorrect == Spec => []StashIsDifference
<1>1. IInv => StashIsDifference
  BY Zenon DEF IInv
<1> QED
  BY <1>1, IInvHolds, PTL

-----------------------------------------------------------------------------
(* Where a stash exists: not before Merge, and after it whenever there was *)
(* a previous list with a group in it.                                     *)
StashInv ==
  /\ pc \in {"lists", "first", "zip", "rest", "leftover", "merge"} => stash = <<>>
  /\ pc \in {"first", "zip", "rest", "leftover", "merge"} => hasPrior
  /\ pc \in {"zip", "rest", "leftover", "merge"} => prior # <<>>
  /\ pc \in {"filter", "done", "failed"} => (stash = <<>> <=> ~hasPrior \/ prior = <<>>)
  /\ pc \in {"lists", "first", "zip", "rest", "leftover", "merge", "filter",
             "done", "failed"}
  /\ hasPrior \in BOOLEAN

(* When the previous list could be read, certs_to_crlite writes a stash:   *)
(* the assertion of find_additions never fails.                            *)
THEOREM StashWritten == Spec => []StashUnlessNoPrior
<1>1. Init => StashInv
  BY DEF Init, StashInv
<1>2. IInv /\ StashInv /\ [Next]_vars => StashInv'
  <2> SUFFICES ASSUME IInv, StashInv, [Next]_vars PROVE StashInv'
    BY Zenon
  <2>1. CASE CreateCertLists \/ FirstOld \/ MakeFilter
    BY <2>1 DEF CreateCertLists, FirstOld, NoOld, WithoutDiff, MakeFilter, StashInv, inputs
  <2>2. CASE SkipEmpty \/ Match \/ NoMatch \/ ZipEnds \/ Rest \/ RestEnds \/ Leftover
    <3>1. /\ pc \in {"zip", "rest", "leftover"} /\ pc' \in {"zip", "rest", "leftover", "merge"}
          /\ UNCHANGED <<inputs, stash>>
      BY <2>2 DEF SkipEmpty, Match, NoMatch, ZipEnds, Rest, RestEnds, Leftover, CacheNew, Following
    <3> QED
      BY <3>1, Zenon DEF StashInv, inputs
  <2>3. CASE Merge
    <3>1. pc = "merge" /\ pc' = "filter" /\ UNCHANGED inputs
      BY <2>3, Zenon DEF Merge
    <3>2. stash' = <<added'>>
      BY <2>3, <3>1, Differences DEF Merge
    <3>3. stash' # <<>>
      BY <3>2
    <3> QED
      BY <3>1, <3>3 DEF StashInv, inputs
  <2>4. CASE UNCHANGED vars
    BY <2>4 DEF vars, inputs, StashInv
  <2> QED
    BY <2>1, <2>2, <2>3, <2>4 DEF Next
<1>3. StashInv => StashUnlessNoPrior
  BY DEF StashInv, StashUnlessNoPrior
<1> QED
  BY <1>1, <1>2, <1>3, IInvHolds, PTL DEF Spec

-----------------------------------------------------------------------------
(* What was read of the previous list is part of what was written.         *)
InputInv ==
  /\ written \in Seq(Group) /\ prior \in Seq(Group)
  /\ IsCutOff(prior, written)

(* However the previous list was cut off, the stash misses no revoked key  *)
(* that the previous run did not write.                                    *)
THEOREM StashSuffices == Spec => []StashMissesNothing
<1>1. Init => InputInv
  BY DEF Init, InputInv
<1>2. InputInv /\ [Next]_vars => InputInv'
  <2> SUFFICES ASSUME InputInv, [Next]_vars PROVE InputInv'
    OBVIOUS
  <2>1. UNCHANGED inputs
    BY DEF Next, CreateCertLists, FirstOld, SkipEmpty, Match, NoMatch, ZipEnds,
           Rest, RestEnds, Leftover, Merge, MakeFilter, CacheNew, vars
  <2> QED
    BY <2>1, ZenonT(30) DEF InputInv, inputs
<1>3. InputInv /\ StashIsDifference => StashMissesNothing
  <2> SUFFICES ASSUME InputInv, StashIsDifference, stash # <<>>, NEW i \in Names
               PROVE  KnownRevoked(i) \ WrittenOf(i) \subseteq stash[1][i]
    BY DEF StashMissesNothing
  <2>1. \A k \in 1..Len(prior) :
          /\ k \in 1..Len(written)
          /\ prior[k].issuer = written[k].issuer /\ prior[k].set \subseteq written[k].set
    BY DEF InputInv, IsCutOff
  <2>2. OldOf(i) \subseteq WrittenOf(i)
    BY <2>1, Zenon DEF OldOf, WrittenOf
  <2> QED
    BY <2>2 DEF StashIsDifference
<1> QED
  BY <1>1, <1>2, <1>3, StashCorrect, PTL DEF Spec

-----------------------------------------------------------------------------
(* TypeOK, with what its bounds rest on: the list is empty until it is     *)
(* written.                                                                *)
TypeInv == TypeOK /\ (pc = "lists" => list = <<>> /\ ni = 1)

(* A function on 1..n is a sequence of length n.                           *)
LEMMA SeqOfFunction ==
  ASSUME NEW S, NEW n \in Nat, NEW f \in [1..n -> S]
  PROVE  f \in Seq(S) /\ Len(f) = n
OBVIOUS

(* find_additions reads both lists within their bounds, and its variables  *)
(* keep their types.                                                       *)
THEOREM TypeCorrect == Spec => []TypeOK
<1>1. Init => TypeInv
  <2> SUFFICES ASSUME Init PROVE TypeInv
    OBVIOUS
  <2>1. Issuers[1] \in Names
    BY IssuersFacts, ListsAssumption
  <2>2. Len(prior) \in Nat /\ list \in Seq(Group) /\ Len(list) = 0
    BY DEF Init
  <2> QED
    BY <2>1, <2>2 DEF Init, TypeInv, TypeOK, None
<1>2. IInv /\ IInv' /\ TypeInv /\ [Next]_vars => TypeInv'
  <2> SUFFICES ASSUME IInv, IInv', TypeInv, [Next]_vars PROVE TypeInv'
    OBVIOUS
  <2>1. /\ Len(prior) \in Nat /\ Len(list) \in Nat
        /\ \A k \in 1..Len(prior) : prior[k].issuer \in Names
    <3>1. prior \in Seq(Group) /\ list \in Seq(Group)
      BY DEF IInv, Types, TypeInv, TypeOK
    <3>2. \A k \in 1..Len(prior) : prior[k] \in Group
      BY <3>1
    <3> QED
      BY <3>1, <3>2 DEF Group
  <2>2. DOMAIN newCache' = Names /\ DOMAIN added' = Names
    BY Zenon DEF IInv, Types
  <2>3. CASE CreateCertLists
    <3>1. pc' # "lists" /\ ni = 1
      BY <2>3 DEF CreateCertLists, TypeInv
    <3>2. list' \in Seq(Group) /\ Len(list') \in Nat
      <4>1. \A k \in 1..Len(Issuers) :
              [issuer |-> Issuers[k], set |-> KnownRevoked(Issuers[k])] \in Group
        BY IssuersFacts DEF IInv, Types, Group, KnownRevoked
      <4>2. list' \in [1..Len(Issuers) -> Group]
        BY <2>3, <4>1 DEF CreateCertLists
      <4> QED
        BY <4>2, SeqOfFunction, IssuersFacts, Zenon
    <3> QED
      BY <2>1, <2>2, <2>3, <3>1, <3>2 DEF CreateCertLists, TypeInv, TypeOK, inputs
  <2>4. CASE FirstOld
    <3>1. prior # <<>> => 1 \in 1..Len(prior)
      BY <2>1, SMTT(30) DEF IInv, Types
    <3> QED
      BY <2>1, <2>2, <2>4, <3>1 DEF FirstOld, NoOld, WithoutDiff, TypeInv, TypeOK, inputs
  <2>5. CASE SkipEmpty \/ Match \/ NoMatch \/ ZipEnds \/ Rest \/ RestEnds
    BY <2>1, <2>2, <2>5, SMTT(30) DEF SkipEmpty, Match, NoMatch, ZipEnds, Rest, RestEnds,
       CacheNew, Following, TypeInv, TypeOK, inputs
  <2>6. CASE Leftover \/ Merge \/ MakeFilter \/ UNCHANGED vars
    BY <2>1, <2>2, <2>6 DEF Leftover, Merge, MakeFilter, vars, TypeInv, TypeOK, inputs
  <2> QED
    BY <2>3, <2>4, <2>5, <2>6 DEF Next
<1>3. TypeInv => TypeOK
  BY DEF TypeInv
<1> QED
  BY <1>1, <1>2, <1>3, IInvHolds, PTL DEF Spec
=============================================================================
