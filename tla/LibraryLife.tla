----------------------------- MODULE LibraryLife -----------------------------
(***************************************************************************)
(* What the interface promises a driver library, without saying how the    *)
(* library is found: one library at a time; it is started once and before  *)
(* any command; the first command is the greeting, and no other reaches a  *)
(* library that has refused it; it is stopped once, and unmapped only then.*)
(***************************************************************************)
EXTENDS Naturals

CONSTANTS Libraries, NoLibrary

VARIABLES library, life, calls
vars == <<library, life, calls>>

Init == library = NoLibrary /\ life = "absent" /\ calls = 0

Map ==
    /\ life = "absent" /\ life' = "mapped"
    /\ library' \in Libraries
    /\ UNCHANGED calls

Start ==
    /\ life = "mapped" /\ life' = "started"
    /\ UNCHANGED <<library, calls>>

Greet ==
    /\ life = "started" /\ life' \in {"agreed", "refused"}
    /\ calls' = 1
    /\ UNCHANGED library

Serve ==
    /\ life = "agreed"
    /\ calls' = calls + 1
    /\ UNCHANGED <<library, life>>

\* A library that cannot take commands is stopped without a greeting.
Stop ==
    /\ life \in {"started", "agreed", "refused"} /\ life' = "stopped"
    /\ UNCHANGED <<library, calls>>

Unmap ==
    /\ life = "stopped" /\ life' = "absent"
    /\ library' = NoLibrary /\ calls' = 0

Next == Map \/ Start \/ Greet \/ Serve \/ Stop \/ Unmap

Spec == Init /\ [][Next]_vars
=============================================================================
