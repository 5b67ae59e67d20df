---------------------------- MODULE RootProgram ----------------------------
(***************************************************************************)
(* MozIssuers: the issuers of the Mozilla root program, as aggregate-crls  *)
(* reads them from the CCADB report, and as it hands them on, with their   *)
(* enrolment, in enrolled.json.  An issuer stands for its ID, the hash of  *)
(* its key; several certificates may share it.                             *)
(***************************************************************************)
EXTENDS Integers, Sequences, Functions

(* A row of the report holds a certificate, or a PEM that does not decode  *)
(* ("pem"), or is one the CSV reader stumbles over ("csv").                *)
Row(kind, i, c) == [kind |-> kind, issuer |-> i, cert |-> c]

(* The rows before the first that is not a certificate.                    *)
GoodRows(rows) ==
  LET n == CHOOSE n \in 0..Len(rows) :
             /\ \A j \in 1..n : rows[j].kind = "cert"
             /\ n < Len(rows) => rows[n + 1].kind # "cert"
  IN SubSeq(rows, 1, n)

(* parseCCADB fails on a bad PEM, but takes an error of the CSV reader for *)
(* the end of the report.  It is also the verifier of a downloaded report. *)
Acceptable(rows) ==
  LET n == Len(GoodRows(rows)) IN n < Len(rows) => rows[n + 1].kind = "csv"

(* InsertIssuerFromCertAndPem, for each of the entries: the certificates   *)
(* of one issuer are kept together.                                        *)
InsertAll(entries) ==
  [i \in {e.issuer : e \in entries} |->
     [certs |-> {e.cert : e \in {d \in entries : d.issuer = i}}, enrolled |-> FALSE]]

ParseCCADB(rows) == InsertAll(Range(GoodRows(rows)))

Enroll(m, i) == IF i \in DOMAIN m THEN [m EXCEPT ![i].enrolled = TRUE] ELSE m

Enrolled(m) == {i \in DOMAIN m : m[i].enrolled}

(* The entries of enrolled.json, one per certificate; their order, which   *)
(* is that of a Go map, is left out.                                       *)
IssuersList(m) ==
  UNION {{[issuer |-> i, cert |-> c, enrolled |-> m[i].enrolled] : c \in m[i].certs}
           : i \in DOMAIN m}

(* Mutant of LoadEnrolledIssuers: the flag of an entry is not looked at.   *)
LoadAllIssuers(list) == [i \in DOMAIN InsertAll(list) |->
                           [InsertAll(list)[i] EXCEPT !.enrolled = TRUE]]

LoadEnrolledIssuers(list) ==
  [i \in DOMAIN InsertAll(list) |->
     [InsertAll(list)[i] EXCEPT !.enrolled =
        \E e \in list : e.issuer = i /\ e.enrolled]]
=============================================================================
