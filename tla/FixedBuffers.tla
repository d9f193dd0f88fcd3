---------------------------- MODULE FixedBuffers ----------------------------
(***************************************************************************)
(* Strings in the protocol's buffers of a fixed size (utils.rs of          *)
(* vtd-protocol), and the lossy reading of bytes on both ends of it.       *)
(*                                                                         *)
(* A byte is one of its kind: what matters is where a character begins and *)
(* ends, and where the NUL is.                                             *)
(***************************************************************************)
EXTENDS Naturals, Sequences, SequencesExt

Nul == 0
Ascii == 1
Lead2 == 2          \* the first byte of a character of two
Lead3 == 3          \* of three
Lead4 == 5          \* and of four
Continuation == 4

Bytes == {Nul, Ascii, Lead2, Lead3, Lead4, Continuation}

\* U+FFFD, which stands for bytes that are no character.
Replacement == <<Lead3, Continuation, Continuation>>

\* No string: bytes that are not UTF-8.
NoStr == <<6>>

Zeroed(size) == [i \in 1..size |-> Nul]

\* How many bytes of a character a first byte announces after itself.
Follows(byte) ==
    CASE byte = Lead2 -> 1 [] byte = Lead3 -> 2 [] byte = Lead4 -> 3 [] OTHER -> 0

\* The characters of bytes: those that are whole, and what is left over.
DecodeByte(decoded, byte) ==
    LET done == decoded.done
        broken == IF decoded.open = <<>> THEN done ELSE done \o Replacement
    IN  IF byte = Continuation THEN
            IF decoded.open = <<>> THEN
                 [decoded EXCEPT !.done = done \o Replacement, !.valid = FALSE]
            ELSE LET char == Append(decoded.open, byte) IN
                 IF Len(char) = 1 + Follows(char[1])
                 THEN [done |-> done \o char, open |-> <<>>, valid |-> decoded.valid]
                 ELSE [decoded EXCEPT !.open = char]
        ELSE LET whole == Follows(byte) = 0 IN
             [done  |-> IF whole THEN Append(broken, byte) ELSE broken,
              open  |-> IF whole THEN <<>> ELSE <<byte>>,
              valid |-> decoded.valid /\ decoded.open = <<>>]

Decode(bytes) == FoldLeft(DecodeByte, [done |-> <<>>, open |-> <<>>, valid |-> TRUE], bytes)

\* str::from_utf8 is Ok.
IsUtf8(bytes) ==
    LET decoded == Decode(bytes) IN decoded.valid /\ decoded.open = <<>>

\* String::from_utf8_lossy.
Lossy(bytes) ==
    LET decoded == Decode(bytes) IN
    decoded.done \o IF decoded.open = <<>> THEN <<>> ELSE Replacement

\* Mutant: room is kept for the NUL.
StrToTerminatedBuffer(buffer, value) ==
    [buffer |-> [i \in DOMAIN buffer |->
                    IF i = Len(buffer) \/ i = Len(value) + 1 THEN Nul
                    ELSE IF i <= Len(value) THEN value[i] ELSE buffer[i]],
     fits   |-> Len(value) <= Len(buffer)]

\* Cuts between any two bytes; no NUL when there is no room for it.
StrToFixedBuffer(buffer, value) ==
    [buffer |-> [i \in DOMAIN buffer |->
                    IF i <= Len(value) THEN value[i]
                    ELSE IF i = Len(value) + 1 THEN Nul ELSE buffer[i]],
     fits   |-> Len(value) <= Len(buffer)]

\* What is before the first NUL, or all there is.
UntilNul(buffer) == SubSeq(buffer, 1, SelectInSeq(Append(buffer, Nul), LAMBDA b : b = Nul) - 1)

FixedBufferToStr(buffer) ==
    IF IsUtf8(UntilNul(buffer)) THEN UntilNul(buffer) ELSE NoStr
=============================================================================
