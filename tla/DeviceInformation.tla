------------------------- MODULE DeviceInformation -------------------------
(***************************************************************************)
(* How the metrics client of Windows tells a device by (win32.rs of        *)
(* vtd-metrics): the UUID that the firmware keeps in its SMBIOS table.     *)
(*                                                                         *)
(* The table is a header and then structures, each of a formatted area,    *)
(* whose second byte is its length, and of NUL-terminated strings, after   *)
(* the last of which there is one more NUL; two when there are none.       *)
(***************************************************************************)
EXTENDS Naturals, Sequences, SequencesExt

HeaderSize == 8             \* of RawSMBIOSData
SystemInformation == 1      \* the type of the structure that has the UUID
UuidEnd == 25               \* 0x19: the length with which it has one
UuidOffset == 8
UuidSize == 16

NoUuid == <<>>
Uuids == {NoUuid} \cup [1..UuidSize -> 0..255]

\* The bytes at offsets that start with zero.
ByteAt(table, offset) == table[offset + 1]
Slice(table, offset, size) == SubSeq(table, offset + 1, offset + size)

-----------------------------------------------------------------------------
(* The scan.                                                               *)

\* Mutant: stops at the first NUL, the end of the first string.
SkipString(table, from) ==
    LET Ends(p) == p + 2 >= Len(table) \/ ByteAt(table, p) = 0
    IN  2 + CHOOSE p \in from..(from + Len(table)) :
                Ends(p) /\ \A q \in from..(p - 1) : ~Ends(q)

\* Past the two NULs that end the strings of a structure, or the table.
SkipStrings(table, from) ==
    LET Ends(p) == \/ p + 2 >= Len(table)
                   \/ ByteAt(table, p) = 0 /\ ByteAt(table, p + 1) = 0
    IN  2 + CHOOSE p \in from..(from + Len(table)) :
                Ends(p) /\ \A q \in from..(p - 1) : ~Ends(q)

\* Mutant: up to the length that was asked for.
UuidToEnd(table, offset) == Slice(table, offset + UuidOffset, UuidEnd - UuidOffset)

UuidAt(table, offset) == Slice(table, offset + UuidOffset, UuidSize)

\* The UUID of the first structure that has one.
ScanTable(table) ==
    LET Scan[offset \in Nat] ==
            IF offset + 4 >= Len(table) THEN NoUuid
            ELSE LET type == ByteAt(table, offset)
                     length == ByteAt(table, offset + 1)
                 IN  IF length < 4 THEN NoUuid
                     ELSE IF type = SystemInformation /\ length >= UuidEnd
                     THEN UuidAt(table, offset)
                     ELSE Scan[SkipStrings(table, offset + length)]
    IN  Scan[HeaderSize]

\* Either of the two calls of GetSystemFirmwareTable may fail.
BiosUniqueId(readable, table) == IF readable THEN ScanTable(table) ELSE NoUuid

-----------------------------------------------------------------------------
(* The table, as the SMBIOS specification has it.                          *)

\* Its length is one byte, and no string is empty or contains a NUL.
IsStructure(structure) ==
    /\ structure.type \in 0..255
    /\ structure.data \in Seq(0..255) /\ Len(structure.data) \in 2..253
    /\ structure.strings \in Seq(Seq(1..255))
    /\ \A i \in DOMAIN structure.strings : structure.strings[i] # <<>>

\* What the type and the length precede in the formatted area is data.
EncodeStructure(structure) ==
    <<structure.type, Len(structure.data) + 2>> \o structure.data
        \o (IF structure.strings = <<>> THEN <<0>>
            ELSE FlattenSeq([i \in DOMAIN structure.strings |-> Append(structure.strings[i], 0)]))
        \o <<0>>

Encode(structures) ==
    [i \in 1..HeaderSize |-> 255] \o FlattenSeq([i \in DOMAIN structures |-> EncodeStructure(structures[i])])

\* The UUID is the data from its offset on of the first structure that has one.
HasUuid(structure) ==
    structure.type = SystemInformation /\ Len(structure.data) + 2 >= UuidEnd

UuidOf(structures) ==
    LET with == {i \in DOMAIN structures : HasUuid(structures[i])}
    IN  IF with = {} THEN NoUuid
        ELSE SubSeq(structures[Min(with)].data, UuidOffset - 1, UuidOffset + UuidSize - 2)
=============================================================================
