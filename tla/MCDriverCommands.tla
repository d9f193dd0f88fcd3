-------------------------- MODULE MCDriverCommands --------------------------
(***************************************************************************)
(* Instances of DriverCommands for TLC.                                    *)
(***************************************************************************)
EXTENDS DriverCommands
=============================================================================
