-------------------------- MODULE MCUsermodeDriver --------------------------
(***************************************************************************)
(* Instances of UsermodeDriver for TLC.                                    *)
(***************************************************************************)
EXTENDS UsermodeDriver

CONSTANTS f1, f2

OnlySuccess == {"Success"}

\* One of each effect on a round; what InstanceBlocked does besides, the client's
\* own instance has.
EffectOutcomes == {"Success", "GenericErrorDrop", "HttpError", "RateLimited"}
=============================================================================
