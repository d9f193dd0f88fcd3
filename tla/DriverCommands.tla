--------------------------- MODULE DriverCommands ---------------------------
(***************************************************************************)
(* One command, from the C interface (vtd-libum-ffi) through the library   *)
(* (execute_command in vtd-libum/src/interface.rs) and the registry of the *)
(* user-mode driver to its handler and back to a status; and what the      *)
(* input commands do to the keys and mouse buttons of the system.          *)
(*                                                                         *)
(* Library and driver are built apart and agree on a command by its id and *)
(* its size alone.  The first command, Initialize, is in LibraryLoader.    *)
(***************************************************************************)
EXTENDS Naturals, Sequences, SequencesExt, FixedBuffers

CONSTANTS
    Keys,           \* scan codes
    Buttons,        \* 0..2, left, right and middle; events for the others name none
    Unsigned,       \* 2^32: NtReadVirtualMemory takes a u32
    MaxLength,      \* bound: bytes asked for
    MaxStates,      \* bound: states in one call
    TypeSize,       \* bytes of report_type, 0x100
    ErrorSize,      \* bytes of the error buffer, 0x500
    MaxBytes,       \* bound: bytes of a C string
    MaxText         \* bound: bytes of a message

ASSUME CommandsAssumption ==
    /\ Buttons \subseteq Nat /\ Unsigned \in Nat \ {0}
    /\ MaxLength \in Nat /\ MaxStates \in Nat
    /\ TypeSize \in Nat \ {0} /\ ErrorSize \in Nat \ {0}
    /\ MaxBytes \in Nat /\ MaxText \in Nat

VARIABLES
    sent,           \* the command of the last call
    needed,         \* the features it needs
    handled,        \* the command whose handler ran
    result,         \* the CommandResult
    message,        \* of a handler that fails: the kind of its error message
    text, told,     \* that message, and what the library reads of it
    status,         \* the VtumStatus
    named, record,  \* the type of a metrics record, as given and as the driver has it
    asked, filled,  \* bytes of the last read
    keys,           \* the keys held after the events sent, each named by its scan code
    buttons,        \* the same of the mouse
    keys_sent,      \* ghost: keys down, as the application last said
    buttons_sent    \* ghost: the same of the mouse

reply == <<sent, needed, handled, result, message, text, told, status>>
input == <<keys, buttons, keys_sent, buttons_sent>>
vars == <<reply, named, record, asked, filled, input>>

-----------------------------------------------------------------------------
(* The protocol.                                                           *)

CommandId ==
    [Initialize |-> 0, ProcessList |-> 1, ProcessModules |-> 2, MemoryRead |-> 3,
     MemoryWrite |-> 4, InputKeyboard |-> 5, InputMouse |-> 6, MetricsReportSend |-> 7,
     ProcessProtection |-> 8, MetricsFlush |-> 9,
     Cr3ShenanigansEnable |-> 9, Cr3ShenanigansDisable |-> 10]

Commands == DOMAIN CommandId

\* size_of on a target with 64 bit pointers.
CommandSize ==
    [Initialize |-> 112, ProcessList |-> 24, ProcessModules |-> 48, MemoryRead |-> 64,
     MemoryWrite |-> 64, InputKeyboard |-> 16, InputMouse |-> 16, MetricsReportSend |-> 272,
     ProcessProtection |-> 1, MetricsFlush |-> 16,
     Cr3ShenanigansEnable |-> 12, Cr3ShenanigansDisable |-> 0]

\* The feature that stands for a command.
Feature ==
    [ProcessList |-> {"ProcessList"}, ProcessModules |-> {"ProcessModules"},
     MemoryRead |-> {"MemoryRead"}, MemoryWrite |-> {"MemoryWrite"},
     InputKeyboard |-> {"InputKeyboard"}, InputMouse |-> {"InputMouse"},
     MetricsReportSend |-> {"Metrics"}, MetricsFlush |-> {"Metrics"},
     ProcessProtection |-> {"ProcessProtectionKernel", "ProcessProtectionZenith"},
     Cr3ShenanigansEnable |-> {"CR3Sshenanigans"},
     Cr3ShenanigansDisable |-> {"CR3Sshenanigans"}]

\* And for a way to address memory.
DirectoryTableType ==
    [Default |-> {}, Explicit |-> {"DttExplicit"}, Cr3Shenanigans |-> {"CR3Sshenanigans"}]

\* What a C string or a message can be.
Strings(max) == UNION {[1..n -> Bytes \ {Nul}] : n \in 0..max}

-----------------------------------------------------------------------------
(* The driver.                                                             *)

\* driver_features, set by init.
DriverFeatures ==
    {"ProcessList", "ProcessModules", "MemoryRead", "InputMouse", "InputKeyboard"}

\* Mutant: a handler is not registered.
RegisteredButMouse ==
    <<"Initialize", "ProcessList", "ProcessModules", "MemoryRead",
      "InputKeyboard", "MetricsReportSend", "MetricsFlush">>

Registered ==
    <<"Initialize", "ProcessList", "ProcessModules", "MemoryRead", "InputMouse",
      "InputKeyboard", "MetricsReportSend", "MetricsFlush">>

CommandIdMax == 16

\* Where the handlers of an id are registered.
Slot(id) == {i \in DOMAIN Registered : CommandId[Registered[i]] = id}

\* Mutant: the size of a command is not compared.
HandleUnsized(command) ==
    LET slot == Slot(CommandId[command]) IN
    IF CommandId[command] >= CommandIdMax \/ slot = {}
    THEN [handler |-> "none", result |-> "CommandInvalid"]
    ELSE [handler |-> Registered[Max(slot)], result |-> "Success"]

\* A later handler takes the slot of an earlier one.
Handle(command) ==
    LET slot == Slot(CommandId[command])
        handler == Registered[Max(slot)]
    IN  IF CommandId[command] >= CommandIdMax \/ slot = {}
        THEN [handler |-> "none", result |-> "CommandInvalid"]
        ELSE IF CommandSize[handler] # CommandSize[command]
        THEN [handler |-> "none", result |-> "CommandParameterInvalid"]
        ELSE [handler |-> handler, result |-> "Success"]

\* Messages: of the system any, in its language; of the driver itself, about a
\* size or a case that it does not support, short ones in ASCII.
SystemTexts == {said \in Strings(MaxText) : IsUtf8(said)}
OwnText == <<Ascii>>

-----------------------------------------------------------------------------
(* The library: a CommandResult becomes an InterfaceError, that a status.  *)

CommandStatus(command_result) ==
    IF command_result = "Success" THEN "Success" ELSE "GeneralFailure"

AccessStatus ==
    [Success |-> "Success", ProcessUnknown |-> "ProcessUnknown",
     PartialSuccess |-> "MemoryAccessFailed"]

\* Mutant: a message has to be UTF-8.
ErrorMessageStrict(buffer) == IF FixedBufferToStr(buffer) = NoStr THEN <<>> ELSE UntilNul(buffer)

\* What the library makes of the bytes in the error buffer.
ErrorMessage(buffer) == Lossy(UntilNul(buffer))

\* A call sends a command; its handler, if it runs, ends with an error message
\* or with none.
Execute(command, features, error) ==
    LET reached == Handle(command) IN
    /\ sent' = command
    /\ needed' = features
    /\ handled' = reached.handler
    /\ result' = IF reached.result = "Success" /\ error # "none" THEN "Error" ELSE reached.result
    /\ message' = IF reached.result = "Success" THEN error ELSE "none"
    /\ text' \in CASE message' = "system" -> SystemTexts
                   [] message' = "unsupported" \/ result' = "CommandParameterInvalid" -> {OwnText}
                   [] OTHER -> {<<>>}
    /\ told' = ErrorMessage(IF result' = "CommandInvalid" THEN Zeroed(ErrorSize)
                            ELSE StrToFixedBuffer(Zeroed(ErrorSize), text').buffer)

Reply(command, features, error) ==
    /\ Execute(command, features, error)
    /\ status' = CommandStatus(result')
    /\ asked' = 0 /\ filled' = 0

NoRecord == named' = <<>> /\ record' = <<>>

\* A call that ends before it sends anything.
Refuse(reason) ==
    /\ status' = reason
    /\ sent' = "none" /\ needed' = {} /\ handled' = "none"
    /\ result' = "Success" /\ message' = "none" /\ text' = <<>> /\ told' = <<>>
    /\ asked' = 0 /\ filled' = 0

-----------------------------------------------------------------------------
(* The commands.                                                           *)

TypeOK ==
    /\ sent \in Commands \cup {"none"} /\ handled \in Commands \cup {"none"}
    /\ result \in {"Success", "Error", "CommandInvalid", "CommandParameterInvalid"}
    /\ message \in {"none", "unsupported", "system"}
    /\ status \in {"Success", "GeneralFailure", "Unimplemented", "ProcessUnknown", "MemoryAccessFailed"}
    /\ named \in Seq(Bytes) /\ record \in Seq(Bytes) \cup {NoStr}
    /\ text \in Seq(Bytes) /\ told \in Seq(Bytes)
    /\ asked \in 0..MaxLength /\ filled \in 0..MaxLength
    /\ keys \subseteq Keys /\ keys_sent \subseteq Keys
    /\ buttons \subseteq Buttons /\ buttons_sent \subseteq Buttons

Init ==
    /\ sent = "none" /\ needed = {} /\ handled = "none"
    /\ result = "Success" /\ message = "none" /\ status = "Success"
    /\ text = <<>> /\ told = <<>> /\ named = <<>> /\ record = <<>>
    /\ asked = 0 /\ filled = 0
    /\ keys = {} /\ buttons = {} /\ keys_sent = {} /\ buttons_sent = {}

\* Mutant: the status of NtReadVirtualMemory is ignored.
ReadResultUnchecked(opened, read) ==
    IF opened THEN "Success" ELSE "ProcessUnknown"

ReadResult(opened, read) ==
    IF ~opened THEN "ProcessUnknown" ELSE IF read THEN "Success" ELSE "PartialSuccess"

\* Only the system's own directory table will do; then the process has to be
\* there, and its memory for as many bytes as a u32 can ask for.
MemoryRead(table, length) ==
    \E opened, read \in BOOLEAN, some \in 0..(length % Unsigned) :
        /\ Execute("MemoryRead", Feature.MemoryRead \cup DirectoryTableType[table],
                   IF table = "Default" THEN "none" ELSE "unsupported")
        /\ read => some = length % Unsigned
        /\ asked' = length
        /\ filled' = IF result' = "Success" /\ opened THEN some ELSE 0
        /\ status' = IF result' = "Success" THEN AccessStatus[ReadResult(opened, read)]
                                            ELSE CommandStatus(result')
        /\ NoRecord
        /\ UNCHANGED input

\* EnumProcesses may fail, the process of a list of modules may be gone, and
\* four buffers may be too small.  The list itself is Enumeration.
Listing(command) ==
    /\ command \in {"ProcessList", "ProcessModules"}
    /\ \E error \in {"none", "system"} : Execute(command, Feature[command], error)
    /\ status' \in IF result' # "Success" THEN {CommandStatus(result')}
                  ELSE IF command = "ProcessList" THEN {"Success", "GeneralFailure"}
                  ELSE {"Success", "GeneralFailure", "ProcessUnknown"}
    /\ asked' = 0 /\ filled' = 0
    /\ NoRecord
    /\ UNCHANGED input

\* A record's type comes as the bytes of a C string.  One that does not fit is
\* not sent; of a buffer that is no string the driver makes the type "error",
\* which is NoStr here.
AddMetricsRecord(record_type) ==
    LET set == StrToFixedBuffer(Zeroed(TypeSize), Lossy(record_type)) IN
    /\ named' = record_type
    /\ \/ /\ set.fits
          /\ Reply("MetricsReportSend", Feature.MetricsReportSend, "none")
          /\ record' = IF handled' = sent' THEN FixedBufferToStr(set.buffer) ELSE <<>>
       \/ /\ ~set.fits
          /\ Refuse("GeneralFailure")
          /\ record' = <<>>
    /\ UNCHANGED input

\* The other commands change nothing here, if a handler gets them at all.
OtherCommand(command) ==
    /\ command \in {"MemoryWrite", "MetricsFlush", "ProcessProtection",
                    "Cr3ShenanigansEnable", "Cr3ShenanigansDisable"}
    /\ Reply(command, Feature[command], "none")
    /\ NoRecord
    /\ UNCHANGED input

\* What never gets as far as a command: vtum_interface_process_toggle_protection.
NoCommand == Refuse("Unimplemented") /\ NoRecord /\ UNCHANGED input

-----------------------------------------------------------------------------
(* Input.                                                                  *)

KeyboardState == [scane_code : Keys, down : BOOLEAN]
FfiMouseState == [buttons : SUBSET Buttons, buttons_mask : SUBSET Buttons]

Batches(states) == UNION {[1..n -> states] : n \in 0..MaxStates}

\* Mutant: the flag is set for the wrong state.
KeyInputInverted(held, state) ==
    IF state.down THEN held \ {state.scane_code} ELSE held \cup {state.scane_code}

\* What one INPUT says: its key goes up with KEYEVENTF_KEYUP, and down without.
KeyInput(held, state) ==
    IF state.down THEN held \cup {state.scane_code} ELSE held \ {state.scane_code}

\* What the application has said last of each key.
KeysSaid(before, states) ==
    {key \in Keys :
        LET said == {i \in DOMAIN states : states[i].scane_code = key}
        IN  IF said = {} THEN key \in before ELSE states[Max(said)].down}

Keyboard(states) ==
    /\ Reply("InputKeyboard", Feature.InputKeyboard, "none")
    /\ keys' = IF result' = "Success" THEN FoldLeft(KeyInput, keys, states) ELSE keys
    /\ keys_sent' = KeysSaid(keys_sent, states)
    /\ NoRecord
    /\ UNCHANGED <<buttons, buttons_sent>>

\* Mutant: the bits are counted from one.
MouseStateShifted(state) ==
    [named |-> {b + 1 : b \in state.buttons_mask}, down |-> {b + 1 : b \in state.buttons_mask}]

\* Into MouseState: which buttons are named, and which of them are down.
MouseState(state) ==
    [named |-> state.buttons_mask, down |-> state.buttons_mask]

\* Down or up for each button that is named, no event for the others.
MouseInput(held, state) ==
    LET mouse == MouseState(state) IN (held \ mouse.named) \cup mouse.down

\* What the buttons and the mask of the C structure say.
Said(held, state) ==
    (held \ state.buttons_mask) \cup (state.buttons \cap state.buttons_mask)

Mouse(states) ==
    /\ Reply("InputMouse", Feature.InputMouse, "none")
    /\ buttons' = IF result' = "Success" THEN FoldLeft(MouseInput, buttons, states) ELSE buttons
    /\ buttons_sent' = FoldLeft(Said, buttons_sent, states)
    /\ NoRecord
    /\ UNCHANGED <<keys, keys_sent>>

Next ==
    \/ \E table \in DOMAIN DirectoryTableType, length \in 0..MaxLength : MemoryRead(table, length)
    \/ \E command \in Commands : Listing(command) \/ OtherCommand(command)
    \/ \E record_type \in Strings(MaxBytes) : AddMetricsRecord(record_type)
    \/ NoCommand
    \/ \E states \in Batches(KeyboardState) : Keyboard(states)
    \/ \E states \in Batches(FfiMouseState) : Mouse(states)

Spec == Init /\ [][Next]_vars

-----------------------------------------------------------------------------
(* Properties.                                                             *)

\* A handler casts the bytes it is given to its own command: it only ever gets
\* that command, although two commands share an id; and only that handler makes
\* a success.
HandledAsSent ==
    /\ handled \in {"none", sent}
    /\ result = "Success" => handled = sent

\* An application that asks for the features first, as the example in C does,
\* is never told that a command is invalid or not supported.
AdvertisedIsServed ==
    sent # "none" /\ needed \subseteq DriverFeatures =>
        handled = sent /\ message # "unsupported"

\* A read that reports success has filled the buffer.
ReadIsWhole ==
    sent = "MemoryRead" /\ status = "Success" /\ asked < Unsigned => filled = asked

\* The type of a metrics record arrives as the application gave it, with what is
\* no character replaced: it is refused when it is too long for the command, and
\* never cut, nor replaced by "error", also when it fills the buffer up.
RecordTypeKept ==
    /\ sent = "MetricsReportSend" => record = Lossy(named)
    /\ sent = "none" /\ status = "GeneralFailure" => Len(Lossy(named)) > TypeSize

\* The library reads the message of a handler that failed as the handler wrote
\* it; of one that is too long for the buffer all characters that are whole in it,
\* and at most one replacement for a character that the end of the buffer cuts,
\* of which at most three bytes are lost.
MessageReadable ==
    \/ told = text
    \/ /\ Len(text) > ErrorSize
       /\ \E kept \in (ErrorSize - 3)..ErrorSize :
             told = SubSeq(text, 1, kept) \o (IF kept = ErrorSize THEN <<>> ELSE Replacement)

\* The events sent to the system say of each key, with the last of them, what the
\* application last said of it, whatever the order and the grouping of its calls.
KeysFollow == keys = keys_sent

\* "Mouse movements, button clicks": a button that the application lets go is
\* not held any more.
ButtonsFollow == buttons = buttons_sent
=============================================================================
