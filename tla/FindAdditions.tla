--------------------------- MODULE FindAdditions ---------------------------
(***************************************************************************)
(* certs_to_crlite: the list of the known revoked keys of a run, its       *)
(* difference to the list of the previous run (find_additions), which      *)
(* becomes the stash, and the filter.  Lists are grouped by issuer, and    *)
(* find_additions walks two of them side by side, one issuer at a time.    *)
(***************************************************************************)
EXTENDS Integers, Sequences

CONSTANTS
  Issuers,   \* the issuers, in the order of their base64 names
  Serials    \* issuer -> the serials it may have issued

Names == {Issuers[k] : k \in 1..Len(Issuers)}

AllSerials == UNION {Serials[i] : i \in Names}

Group == [issuer : Names, set : SUBSET AllSerials]

(* What readFromCertListByIssuer yields: no issuer twice, no empty set.    *)
IsRead(L) ==
  /\ \A k \in 1..Len(L) : L[k].set # {}
  /\ \A j, k \in 1..Len(L) : L[j].issuer = L[k].issuer => j = k

(* Mutant of IsCutOff: the serials read of the last issuer are others.     *)
IsMisread(p, w) ==
  /\ Len(p) <= Len(w)
  /\ \A k \in 1..Len(p) : p[k].issuer = w[k].issuer
  /\ \A k \in 1..(Len(p) - 1) : p[k].set = w[k].set

(* p is read from a file that was cut off anywhere after w was written to  *)
(* it: EOFException ends the generator without an error, and what was read *)
(* until then counts.                                                      *)
IsCutOff(p, w) ==
  /\ Len(p) <= Len(w)
  /\ \A k \in 1..Len(p) : p[k].issuer = w[k].issuer /\ p[k].set \subseteq w[k].set
  /\ \A k \in 1..(Len(p) - 1) : p[k].set = w[k].set

ASSUME ListsAssumption ==
  /\ Issuers \in Seq(Names) /\ Issuers # <<>>
  /\ \A j, k \in 1..Len(Issuers) : Issuers[j] = Issuers[k] => j = k

VARIABLES
  known,     \* issuer -> the serials in ID/known
  revoked,   \* issuer -> the serials in ID/revoked
  hasPrior,  \* whether the previous run's list-revoked.keys was fetched
  written,   \* it, as the previous run wrote it
  prior,     \* it, as it is read by issuer (old_by_issuer)
  list,      \* list-revoked.keys of this run, as it is written
  pc,        \* where the program is
  oi, ni,    \* the next group of prior and of list
  cur,       \* o_issuer_b64, o_set
  newCache,  \* new_cache, {} where it has no entry
  added,     \* added, likewise
  stash,     \* filter.stash: <<>>, or <<issuer -> serials>>
  filter     \* the filter: <<>>, or what it includes and excludes

inputs == <<known, revoked, hasPrior, written, prior>>
vars == <<inputs, list, pc, oi, ni, cur, newCache, added, stash, filter>>

None == [i \in Names |-> {}]

Init ==
  /\ known \in [Names -> SUBSET AllSerials]
  /\ revoked \in [Names -> SUBSET AllSerials]
  /\ \A i \in Names : known[i] \cup revoked[i] \subseteq Serials[i]
  /\ hasPrior \in BOOLEAN
  /\ written \in Seq(Group) /\ IsRead(written)
  /\ prior \in Seq(Group) /\ IsRead(prior) /\ IsCutOff(prior, written)
  /\ list = <<>> /\ pc = "lists"
  /\ oi = 1 /\ ni = 1
  /\ cur = [issuer |-> Issuers[1], set |-> {}]
  /\ newCache = None /\ added = None
  /\ stash = <<>> /\ filter = <<>>

(* load_and_make_sets *)
KnownRevoked(i) == known[i] \cap revoked[i]
KnownNotRevoked(i) == known[i] \ revoked[i]

(* createCertLists goes through the issuers in order.                      *)
CreateCertLists ==
  /\ pc = "lists"
  /\ list' = [k \in 1..Len(Issuers) |->
                [issuer |-> Issuers[k], set |-> KnownRevoked(Issuers[k])]]
  /\ pc' = IF hasPrior THEN "first" ELSE "filter"
  /\ UNCHANGED <<inputs, oi, ni, cur, newCache, added, stash, filter>>

(* Mutant of NoOld: a list of one group counts as empty.                   *)
OneOld == Len(prior) < 2

NoOld == prior = <<>>

(* Mutant of WithoutDiff: the exception ends the program.                  *)
WithoutFilter == "failed"

(* "Failed to make a diff, proceeding without one"                         *)
WithoutDiff == "filter"

(* find_additions takes the first old group; an empty list raises          *)
(* StopIteration, and main proceeds without a stash.                       *)
FirstOld ==
  /\ pc = "first"
  /\ IF NoOld
     THEN pc' = WithoutDiff /\ UNCHANGED <<oi, cur>>
     ELSE pc' = "zip" /\ cur' = prior[1] /\ oi' = 2
  /\ UNCHANGED <<inputs, list, ni, newCache, added, stash, filter>>

(* readFromCertListByIssuer passes over an issuer without serials.         *)
SkipEmpty ==
  /\ pc \in {"zip", "rest"} /\ ni <= Len(list)
  /\ list[ni].set = {}
  /\ ni' = ni + 1
  /\ UNCHANGED <<inputs, list, pc, oi, cur, newCache, added, stash, filter>>

(* The issuers match: the difference is added, and the next old group is   *)
(* taken.  When there is none, the loop ends and cur keeps the group that  *)
(* was just compared.                                                      *)
Match ==
  /\ pc = "zip" /\ ni <= Len(list) /\ list[ni].set # {}
  /\ list[ni].issuer = cur.issuer
  /\ added' = [added EXCEPT ![cur.issuer] = list[ni].set \ cur.set]
  /\ ni' = ni + 1
  /\ IF oi <= Len(prior)
     THEN cur' = prior[oi] /\ oi' = oi + 1 /\ UNCHANGED pc
     ELSE pc' = "rest" /\ UNCHANGED <<cur, oi>>
  /\ UNCHANGED <<inputs, list, newCache, stash, filter>>

(* Mutant of Following: a group is lost.                                   *)
Skipping(k) == k + 2

Following(k) == k + 1

CacheNew ==
  /\ ni <= Len(list) /\ list[ni].set # {}
  /\ newCache' = [newCache EXCEPT ![list[ni].issuer] = list[ni].set]
  /\ ni' = Following(ni)
  /\ UNCHANGED <<inputs, list, pc, oi, cur, added, stash, filter>>

(* They do not: the new group waits in new_cache.                          *)
NoMatch ==
  /\ pc = "zip" /\ ni <= Len(list)
  /\ list[ni].issuer # cur.issuer
  /\ CacheNew

ZipEnds ==
  /\ pc = "zip" /\ ni > Len(list)
  /\ pc' = "rest"
  /\ UNCHANGED <<inputs, list, oi, ni, cur, newCache, added, stash, filter>>

(* What is left of the new list goes into new_cache.                       *)
Rest == pc = "rest" /\ CacheNew

(* Mutant of RestEnds: the leftover value of next is forgotten.            *)
RestEndsForgets ==
  /\ pc = "rest" /\ ni > Len(list)
  /\ IF oi <= Len(prior)
     THEN pc' = "leftover" /\ cur' = prior[oi] /\ oi' = oi + 1
     ELSE pc' = "merge" /\ UNCHANGED <<cur, oi>>
  /\ UNCHANGED <<inputs, list, ni, newCache, added, stash, filter>>

RestEnds ==
  /\ pc = "rest" /\ ni > Len(list)
  /\ pc' = "leftover"
  /\ UNCHANGED <<inputs, list, oi, ni, cur, newCache, added, stash, filter>>

(* cur, and after it the remaining old groups, are looked up in new_cache. *)
Leftover ==
  /\ pc = "leftover"
  /\ IF newCache[cur.issuer] # {}
     THEN /\ added' = [added EXCEPT ![cur.issuer] = newCache[cur.issuer] \ cur.set]
          /\ newCache' = [newCache EXCEPT ![cur.issuer] = {}]
     ELSE UNCHANGED <<added, newCache>>
  /\ IF oi <= Len(prior)
     THEN cur' = prior[oi] /\ oi' = oi + 1 /\ UNCHANGED pc
     ELSE pc' = "merge" /\ UNCHANGED <<cur, oi>>
  /\ UNCHANGED <<inputs, list, ni, stash, filter>>

(* What is still in new_cache is new, and save_additions writes the stash; *)
(* an issuer that is in added already fails the assertion, and main        *)
(* proceeds without a stash.                                               *)
Merge ==
  /\ pc = "merge"
  /\ \/ /\ \A i \in Names : newCache[i] = {} \/ added[i] = {}
        /\ added' = [i \in Names |-> added[i] \cup newCache[i]]
        /\ stash' = <<added'>>
     \/ /\ \E i \in Names : newCache[i] # {} /\ added[i] # {}
        /\ UNCHANGED <<added, stash>>
  /\ pc' = "filter"
  /\ UNCHANGED <<inputs, list, oi, ni, cur, newCache, filter>>

(* The filter includes the known revoked keys and excludes the others that *)
(* are known, and is verified; with no revoked key the program fails.      *)
MakeFilter ==
  /\ pc = "filter"
  /\ IF \A k \in 1..Len(list) : list[k].set = {}
     THEN pc' = "failed" /\ UNCHANGED filter
     ELSE /\ pc' = "done"
          /\ filter' = <<[include |-> [i \in Names |-> KnownRevoked(i)],
                          exclude |-> [i \in Names |-> KnownNotRevoked(i)]]>>
  /\ UNCHANGED <<inputs, list, oi, ni, cur, newCache, added, stash>>

Next ==
  \/ CreateCertLists \/ FirstOld \/ SkipEmpty \/ Match \/ NoMatch \/ ZipEnds
  \/ Rest \/ RestEnds \/ Leftover \/ Merge \/ MakeFilter

Spec == Init /\ [][Next]_vars

-----------------------------------------------------------------------------
(* Every variable keeps its type, and the two lists are read within their  *)
(* bounds.                                                                 *)
TypeOK ==
  /\ list \in Seq(Group)
  /\ oi \in 1..(Len(prior) + 1) /\ ni \in 1..(Len(list) + 1)
  /\ cur.issuer \in Names
  /\ DOMAIN newCache = Names /\ DOMAIN added = Names
  /\ pc \in {"lists", "first", "zip", "rest", "leftover", "merge", "filter",
             "done", "failed"}

(* The keys of an issuer in the previous run's list.                       *)
OldOf(i) == UNION {prior[k].set : k \in {j \in 1..Len(prior) : prior[j].issuer = i}}

(* The stash holds, for each issuer, exactly the known revoked keys that   *)
(* were not in the previous run's list, whatever issuers appeared,         *)
(* disappeared or changed their order: the set difference that             *)
(* find_additions computes in one pass over both lists.                    *)
StashIsDifference ==
  stash # <<>> => \A i \in Names : stash[1][i] = KnownRevoked(i) \ OldOf(i)

(* The keys of an issuer in the list the previous run wrote.               *)
WrittenOf(i) ==
  UNION {written[k].set : k \in {j \in 1..Len(written) : written[j].issuer = i}}

(* A previous list that was cut off, which readFromCertList does not       *)
(* notice, loses no revocation: a known revoked key that the previous run  *)
(* did not write is in the stash all the same, whose only fault is size.   *)
StashMissesNothing ==
  stash # <<>> => \A i \in Names : KnownRevoked(i) \ WrittenOf(i) \subseteq stash[1][i]

(* A stash is missing only when there was no previous list or it was       *)
(* empty: the assertion in find_additions never fails.                     *)
StashUnlessNoPrior ==
  pc \in {"done", "failed"} => (stash = <<>> <=> ~hasPrior \/ prior = <<>>)

(* The program ends, with a filter or, when no known key is revoked,       *)
(* without one.                                                            *)
MakesFilter ==
  <>(IF \E i \in Names : KnownRevoked(i) # {} THEN pc = "done" ELSE pc = "failed")
=============================================================================
