-------------------------- MODULE MetricsDelivery --------------------------
(***************************************************************************)
(* What the metrics client promises about the records it is given, without *)
(* queues, threads, reports or timers.  Records are numbered in the order  *)
(* of issue.  Each is open until the server has confirmed it or the client *)
(* has given it up, and that verdict is final.                             *)
(*                                                                         *)
(* A record may be given up only on a failed submission, or to make room   *)
(* for others when more than Capacity are open; the client then adds a     *)
(* record of its own to tell the server.                                   *)
(***************************************************************************)
EXTENDS Integers, FiniteSets

CONSTANTS Capacity,     \* records the client keeps before it makes room
          BatchMax      \* records one submission may settle

VARIABLES issued, open, acked, discarded
vars == <<issued, open, acked, discarded>>

Init ==
    /\ issued \in {0, 1}
    /\ open = 1..issued
    /\ acked = {} /\ discarded = {}

Add ==
    /\ issued' = issued + 1
    /\ open' = open \cup {issued'}
    /\ UNCHANGED <<acked, discarded>>

\* Room is made only when it is needed, and the note about it is a record too.
AddMakingRoom ==
    /\ issued' = issued + 2
    /\ \E gone \in SUBSET open :
           /\ gone # {}
           /\ Cardinality(open) > Capacity
           /\ open' = (open \ gone) \cup {issued + 1, issued'}
           /\ discarded' = discarded \cup gone
    /\ UNCHANGED acked

Batches == {batch \in SUBSET open : batch # {} /\ Cardinality(batch) <= BatchMax}

Confirm ==
    \E batch \in Batches :
        /\ acked' = acked \cup batch
        /\ open' = open \ batch
        /\ UNCHANGED <<issued, discarded>>

GiveUp ==
    \E batch \in Batches :
        /\ discarded' = discarded \cup batch
        /\ open' = open \ batch
        /\ UNCHANGED <<issued, acked>>

Next == Add \/ AddMakingRoom \/ Confirm \/ GiveUp

Spec == Init /\ [][Next]_vars
=============================================================================
