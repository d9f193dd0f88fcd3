-------------------------- MODULE MCMetricsClient --------------------------
(***************************************************************************)
(* Instances of MetricsClient for TLC.  The cfg files give the constants   *)
(* their values; here are the sets they name.                              *)
(***************************************************************************)
EXTENDS MetricsClient

CONSTANTS f1, f2

OnlySuccess   == {"Success"}
FlushOutcomes == {"Success", "HttpError", "RateLimited"}

\* One of each effect on the queue.  InstanceBlocked stands for Success too: it
\* is one, after which the process may go on for as long as it likes.
QueueOutcomes == {"InstanceBlocked", "RateLimited", "UnparsableResponse"}
=============================================================================
