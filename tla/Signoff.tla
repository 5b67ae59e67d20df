-------------------------------- MODULE Signoff --------------------------------
(***************************************************************************)
(* crlite-signoff: the cron job that checks the collection with            *)
(* moz_crlite_query and then runs main.py --crlite --approve-sign.  It is  *)
(* scheduled at the same minute as crlite-publish and runs beside it.      *)
(***************************************************************************)
EXTENDS CrliteStores

VARIABLES
    spc,          \* "idle", "verified" or "sign"
    verified      \* the records crlite-signoff-tool looked at

signVars == <<spc, verified>>

(* crlite-signoff-tool.py: moz_crlite_query reads the collection and found *)
(* the hosts unrevoked and the data fresh; otherwise the script stops.     *)
Verify ==
    /\ spc = "idle"
    /\ verified' = ReadOnlyView
    /\ spc' = "verified"
    /\ UNCHANGED stores

(* sign_collection asks for the status first ...                           *)
CheckStatus ==
    /\ spc = "verified"
    /\ IF status = "to-review"
         THEN spc' = "sign" /\ UNCHANGED verified
         ELSE spc' = "idle" /\ verified' = {}
    /\ UNCHANGED stores

(* ... and then sets it to to-sign: Kinto signs and serves what the        *)
(* collection holds at that moment, or refuses when it was edited since    *)
(* the review was requested.                                               *)
Sign ==
    /\ spc = "sign"
    /\ IF status = "to-review"
         THEN signed' = records /\ status' = "signed"
         ELSE UNCHANGED <<signed, status>>
    /\ spc' = "idle"
    /\ verified' = {}
    /\ UNCHANGED <<runs, firstRun, records, replica>>

SignoffDies ==
    /\ spc # "idle"
    /\ spc' = "idle"
    /\ verified' = {}
    /\ UNCHANGED stores

SignoffStep == Verify \/ CheckStatus \/ Sign

SignoffInit ==
    /\ spc = "idle"
    /\ verified = {}

SignoffTypeOK ==
    /\ spc \in {"idle", "verified", "sign"}
    /\ verified \subseteq Record
=============================================================================
