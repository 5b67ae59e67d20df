---------------------------- MODULE VerifiedFile ----------------------------
(***************************************************************************)
(* What DownloadAndVerifyFileSync promises its callers about finalPath: the*)
(* file only ever changes to content that verifies, in one step, during a  *)
(* call; and the Boolean it returns says whether finalPath verifies now.   *)
(***************************************************************************)
CONSTANTS
  Contents,  \* what a file may hold
  Valid(_)   \* the verifier

VARIABLES
  final,   \* the content of finalPath
  phase,   \* "idle", "calling" or "returned"
  answer   \* the Boolean of the last call

Called ==
  /\ phase # "calling"
  /\ phase' = "calling"
  /\ UNCHANGED <<final, answer>>

Replaced ==
  /\ phase = "calling"
  /\ final' \in {f \in Contents : Valid(f)}
  /\ phase' = "returned"
  /\ answer' = TRUE

Kept ==
  /\ phase = "calling"
  /\ UNCHANGED final
  /\ phase' = "returned"
  /\ answer' = Valid(final)

(* The process dies in a call, or between two.                             *)
Abandoned ==
  /\ phase' = "idle"
  /\ UNCHANGED <<final, answer>>

Init == final \in Contents /\ phase = "idle" /\ answer = FALSE

vars == <<final, phase, answer>>

Spec == Init /\ [][Called \/ Replaced \/ Kept \/ Abandoned]_vars
=============================================================================
