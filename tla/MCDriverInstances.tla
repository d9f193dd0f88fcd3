------------------------- MODULE MCDriverInstances -------------------------
(***************************************************************************)
(* Instances of DriverInstances for TLC.                                   *)
(***************************************************************************)
EXTENDS DriverInstances

CONSTANTS i1, i2, i3

\* Zeros stand in the data too; the bytes of the UUID are all different.
Data(length, value) == [n \in 1..(length - 2) |-> value]
SystemData == [n \in 1..25 |-> IF n \in 7..22 THEN 100 + n ELSE 0]

TheStructures ==
    {[type |-> 0,   data |-> Data(10, 0),  strings |-> <<<<1, 65>>, <<66>>>>],
     [type |-> 1,   data |-> Data(8, 1),   strings |-> <<<<67>>>>],
     [type |-> 1,   data |-> SystemData,   strings |-> <<<<68, 68>>>>],
     [type |-> 2,   data |-> Data(4, 1),   strings |-> <<>>]}
=============================================================================
