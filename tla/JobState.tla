------------------------------ MODULE JobState ------------------------------
(***************************************************************************)
(* One row of the jobs table, reduced to the columns the pipeline decides  *)
(* on, and the SQL predicates the services evaluate over such a row.       *)
(*                                                                         *)
(* A blank column (NULL or spaces) is "", and details_status NOT_FETCHED   *)
(* is "" as well: every query treats the two alike.                        *)
(* The three terminal POST_AI verdicts are one value, TERMINAL, and the    *)
(* two final decisions are one value, DECIDED: no query of this module     *)
(* tells them apart.  An ai_status other than EXTRACTED is "": none of     *)
(* them is a result.                                                       *)
(***************************************************************************)

EXTENDS Naturals

CONSTANT MaxAttempts   \* details_max_attempts_per_job

ASSUME MaxAttemptsAssumption == MaxAttempts \in Nat

ClassifierStatus == {"AUTO_KEEP", "REVIEW", "AUTO_EXCLUDE"}
HumanDecision    == {"KEEP", "EXCLUDE"}
GateStatus       == {"PASS", "REJECT"}
Blank            == {""}

JobRow == [class   : ClassifierStatus \cup Blank,   \* "" : not in the table
           human   : HumanDecision \cup Blank,
           details : {"FETCHED", "UNAVAILABLE", "FAILED_OR_EMPTY"} \cup Blank,
           attempts : 0..MaxAttempts,
           gate    : GateStatus \cup Blank,
           ai      : {"EXTRACTED"} \cup Blank,
           post    : {"TERMINAL"} \cup Blank,
           final   : {"DECIDED"} \cup Blank]

UnknownJob == [class |-> "", human |-> "", details |-> "", attempts |-> 0,
               gate |-> "", ai |-> "", post |-> "", final |-> ""]

Known(row) == row.class # ""

\* The human decision overrides the classifier.
Approved(row) ==
  \/ row.human = "KEEP"
  \/ row.human = "" /\ row.class = "AUTO_KEEP"

\* Not fetched yet, or not successfully; and no fetch attempt left.
Unfetched(row) == row.details \in {"", "FAILED_OR_EMPTY"}
Exhausted(row) == row.attempts >= MaxAttempts

\* Rows of the title-review inbox.
AwaitsReview(row) == row.class = "REVIEW" /\ row.human = ""

\* An approved row that has no terminal outcome yet.
Unfinished(row) ==
  /\ Approved(row)
  /\ row.details # "UNAVAILABLE"
  /\ \/ row.details # "FETCHED"
     \/ row.gate \notin GateStatus
     \/ row.gate = "PASS" /\ row.post # "TERMINAL"

\* Rows whose POST_AI proposal still waits for the final decision.
AwaitsFinalDecision(row) == row.post = "TERMINAL" /\ row.final = ""

\* What the metadata gate may answer: two verdicts are forced by the title
\* decision, any other depends on the enabled rules.
GateVerdicts(row) ==
  IF \/ row.human = "EXCLUDE"
     \/ row.class = "AUTO_EXCLUDE" /\ row.human # "KEEP"
  THEN {"REJECT"}
  ELSE GateStatus

\* The ready_for_ai view: approved rows past the gate that have no facts.
ReadyForAi(row) ==
  /\ Approved(row)
  /\ row.details = "FETCHED"
  /\ row.gate = "PASS"
  /\ row.ai = ""
  /\ row.post = ""

\* Extracted rows whose post-AI step was lost: swept at the end of a run.
MissesPostAiAnyhow(row) == row.gate = "PASS" /\ row.post = ""   \* mutant
NothingMissed(row) == FALSE                                   \* mutant

MissesPostAi(row) ==
  /\ row.details = "FETCHED"
  /\ row.gate = "PASS"
  /\ row.ai = "EXTRACTED"
  /\ row.post = ""
=============================================================================
