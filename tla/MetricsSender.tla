--------------------------- MODULE MetricsSender ---------------------------
(***************************************************************************)
(* What MetricsSender::submit_records (crates/vtd-metrics/src/sender.rs)   *)
(* can return for a report, and how a SubmitError follows from each way a  *)
(* submission fails.  The server and the network are the environment: they *)
(* choose the outcome, and which records a rate limited answer names.      *)
(***************************************************************************)
EXTENDS RecordQueue

CONSTANT Outcomes   \* the outcomes of this instance, a subset of AllOutcomes

OkOutcomes == {"Success", "InstanceBlocked"}

\* EncodeFailure covers the encoder and the cipher; UnparsableResponse is the
\* one failure after the server took the report.
DropOutcomes == {"EncodeFailure", "UnparsableResponse", "GenericErrorDrop"}

KeepOutcomes == {"HttpError", "HttpStatus", "GenericErrorKeep", "RateLimited"}

AllOutcomes == OkOutcomes \cup DropOutcomes \cup KeepOutcomes

ASSUME OutcomesAssumption == Outcomes \subseteq AllOutcomes

SubmitErrors ==
    [records_submitted : SUBSET Nat, drop_records : BOOLEAN, retry_delay : BOOLEAN]

\* SubmitError::default(): drop everything, no delay named.
DefaultSubmitError ==
    [records_submitted |-> {}, drop_records |-> TRUE, retry_delay |-> FALSE]

\* The errors submit_records may build from an outcome.  retry_delay only says
\* whether the server named a delay.
SubmitErrorsOf(outcome, report) ==
    CASE outcome \in DropOutcomes ->
            {DefaultSubmitError}
      [] outcome = "RateLimited" ->
            [records_submitted : SUBSET SeqNos(report),
             drop_records : {FALSE}, retry_delay : {TRUE}]
      [] OTHER ->
            {[DefaultSubmitError EXCEPT !.drop_records = FALSE]}
=============================================================================
