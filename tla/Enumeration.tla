---------------------------- MODULE Enumeration ----------------------------
(***************************************************************************)
(* Listing processes, and the modules of a process: the retry loop of the  *)
(* interface (list_processes, list_modules in vtd-libum/src/interface.rs), *)
(* the handler in the user-mode driver that fills the caller's buffer, and *)
(* the loop around EnumProcesses or EnumProcessModules below it.           *)
(*                                                                         *)
(* Both lists are made by the same code up to three constants.  What is    *)
(* listed is called an id: of a process, or the handle of a module.  The   *)
(* system changes what there is at any time, also while a list is made.    *)
(***************************************************************************)
EXTENDS Integers, FiniteSets, Sequences

CONSTANTS
    Ids,            \* all there may ever be, numbers: the system lists in order
    NoId,           \* no id: in a slot nobody has written
    Protected,      \* ids the driver may not open, or cannot name
    Capacity,       \* 4096 processes or 512 modules: the interface's first buffer
    Slack,          \* 0x10 or 0: added to the count when the buffer was too small
    DriverCapacity, \* 1000: the driver's own first buffer
    Retries,        \* 3: attempts after the first
    ReportsNeeded,  \* EnumProcessModules reports what there is, EnumProcesses what fitted
    MaxStarts,      \* bound: new ids during one listing
    MaxExits        \* bound: ids that go during one listing

ASSUME EnumerationAssumption ==
    /\ IsFiniteSet(Ids) /\ Ids \subseteq Nat /\ NoId \notin Ids
    /\ Protected \subseteq Ids
    /\ Capacity \in Nat \ {0} /\ Slack \in Nat
    /\ DriverCapacity \in Nat \ {0} /\ Retries \in Nat /\ ReportsNeeded \in BOOLEAN
    /\ MaxStarts \in Nat /\ MaxExits \in Nat

VARIABLES
    live,           \* what there is
    at,             \* where the listing is
    length,         \* buffer.len() in the interface
    retry,          \* its retry counter
    driver_length,  \* the length of the driver's own Vec
    ids,            \* what the driver still has to look at
    count,          \* process_count or module_count of the command
    buffer,         \* the caller's buffer: ids, and in which attempt they came
    steady,         \* ghost: what has been there all through the listing
    starts, exits   \* ids that came and went since the listing began

listing == <<at, length, retry, driver_length, ids, count, buffer>>
world == <<live, steady, starts, exits>>
vars == <<listing, world>>

Entry == [id : Ids \cup {NoId}, attempt : 0..Retries]

TypeOK ==
    /\ live \subseteq Ids /\ steady \subseteq live
    /\ at \in {"idle", "enumerate", "fill", "done", "exhausted", "error"}
    /\ length \in Nat /\ retry \in 0..(Retries + 1) /\ driver_length \in Nat
    /\ ids \in Seq(Ids \cup {NoId}) /\ count \in Nat
    /\ buffer \in Seq(Entry)
    /\ at \in {"enumerate", "fill"} => Len(buffer) = length
    /\ starts \in 0..MaxStarts /\ exits \in 0..MaxExits

Init ==
    /\ live \in SUBSET Ids
    /\ steady = {} /\ starts = 0 /\ exits = 0
    /\ at = "idle"
    /\ length = 0 /\ retry = 0 /\ driver_length = 0
    /\ ids = <<>> /\ count = 0 /\ buffer = <<>>

-----------------------------------------------------------------------------
(* The interface.                                                          *)

\* resize_with(size, Default::default), which never shrinks here.
Resized(entries, size) ==
    entries \o [i \in 1..(size - Len(entries)) |-> [id |-> NoId, attempt |-> 0]]

Command ==
    /\ at' = "enumerate"
    /\ count' = 0 /\ ids' = <<>>
    /\ driver_length' = DriverCapacity

List ==
    /\ at = "idle"
    /\ Command
    /\ length' = Capacity /\ retry' = 0
    /\ buffer' = Resized(<<>>, Capacity)
    /\ steady' = live /\ starts' = 0 /\ exits' = 0
    /\ UNCHANGED live

\* The driver has answered.  A count above the buffer's length makes the
\* buffer larger and asks again, Retries times.
ListDone ==
    /\ at = "fill" /\ ids = <<>> /\ count <= length
    /\ at' = "done"
    /\ buffer' = SubSeq(buffer, 1, count)
    /\ UNCHANGED <<length, retry, driver_length, ids, count, world>>

\* Mutant: the buffer grows by the slack alone.
ListAgainSlowly ==
    /\ at = "fill" /\ ids = <<>> /\ count > length
    /\ length' = length + Slack /\ buffer' = Resized(buffer, length + Slack)
    /\ retry' = retry + 1
    /\ IF retry' <= Retries
       THEN Command
       ELSE at' = "exhausted" /\ UNCHANGED <<driver_length, ids, count>>
    /\ UNCHANGED world

\* Mutant: the buffer keeps its length, and attempts are not counted.
ListAgainForever ==
    /\ at = "fill" /\ ids = <<>> /\ count > length
    /\ Command
    /\ UNCHANGED <<length, retry, buffer, world>>

ListAgain ==
    /\ at = "fill" /\ ids = <<>> /\ count > length
    /\ length' = count + Slack /\ buffer' = Resized(buffer, count + Slack)
    /\ retry' = retry + 1
    /\ IF retry' <= Retries
       THEN Command
       ELSE at' = "exhausted" /\ UNCHANGED <<driver_length, ids, count>>
    /\ UNCHANGED world

-----------------------------------------------------------------------------
(* The driver.                                                             *)

\* What there is, in the order of the system, as far as a Vec has room.
AtMost(n) ==
    [i \in 1..(IF Cardinality(live) <= n THEN Cardinality(live) ELSE n) |->
        CHOOSE id \in live : Cardinality({other \in live : other < id}) = i - 1]

\* What the enumeration says it found.
Found == IF ReportsNeeded THEN Cardinality(live) ELSE Len(AtMost(driver_length))

\* A Vec that is full may have been too small.
EnumerateAgain ==
    /\ at = "enumerate" /\ Found = driver_length
    /\ driver_length' = 2 * driver_length
    /\ UNCHANGED <<at, length, retry, ids, count, buffer, world>>

\* Mutant: a full Vec is taken for a complete one.
EnumerateFull ==
    /\ at = "enumerate" /\ Found >= driver_length
    /\ at' = "fill"
    /\ ids' = AtMost(driver_length)
    /\ UNCHANGED <<length, retry, driver_length, count, buffer, world>>

\* set_len(Found), which for modules may lie behind the end of the Vec.
Enumerate ==
    /\ at = "enumerate" /\ Found # driver_length
    /\ at' = "fill"
    /\ ids' = AtMost(driver_length) \o
              [i \in 1..(Found - Len(AtMost(driver_length))) |-> NoId]
    /\ UNCHANGED <<length, retry, driver_length, count, buffer, world>>

\* EnumProcesses fails, or the process to list modules of is gone.
EnumerateFails ==
    /\ at = "enumerate"
    /\ at' = "error"
    /\ UNCHANGED <<length, retry, driver_length, ids, count, buffer, world>>

Readable(id) == id \in live \ Protected

\* What an element behind the end of the Vec reads as is anybody's guess.
ReadsAs(id) == IF id = NoId THEN Ids \cup {NoId} ELSE {id}

\* Mutant: no `continue', a slot that could not be filled counts.
FillCountsAll ==
    /\ at = "fill" /\ ids # <<>> /\ count < length
    /\ ids' = Tail(ids)
    /\ \E id \in ReadsAs(Head(ids)) :
           buffer' = IF Readable(id)
                     THEN [buffer EXCEPT ![count + 1] = [id |-> id, attempt |-> retry]]
                     ELSE buffer
    /\ count' = count + 1
    /\ UNCHANGED <<at, length, retry, driver_length, world>>

\* Mutant: the slot is not looked for in the buffer.
FillUnchecked ==
    /\ at = "fill" /\ ids # <<>>
    /\ ids' = Tail(ids)
    /\ \E id \in ReadsAs(Head(ids)) :
           IF Readable(id)
           THEN /\ buffer' = [i \in 1..(IF count < Len(buffer) THEN Len(buffer) ELSE count + 1) |->
                                 IF i = count + 1 THEN [id |-> id, attempt |-> retry]
                                                  ELSE buffer[i]]
                /\ count' = count + 1
           ELSE UNCHANGED <<buffer, count>>
    /\ UNCHANGED <<at, length, retry, driver_length, world>>

\* fill_process_info, fill_module_info: an id that cannot be read is skipped,
\* and its slot goes to the next one.
Fill ==
    /\ at = "fill" /\ ids # <<>> /\ count < length
    /\ ids' = Tail(ids)
    /\ \E id \in ReadsAs(Head(ids)) :
           IF Readable(id)
           THEN /\ buffer' = [buffer EXCEPT ![count + 1] = [id |-> id, attempt |-> retry]]
                /\ count' = count + 1
           ELSE UNCHANGED <<buffer, count>>
    /\ UNCHANGED <<at, length, retry, driver_length, world>>

\* No slot left: count on, readable or not.
CountOn ==
    /\ at = "fill" /\ ids # <<>> /\ count >= length
    /\ ids' = Tail(ids)
    /\ count' = count + 1
    /\ UNCHANGED <<at, length, retry, driver_length, buffer, world>>

Listing ==
    \/ ListDone \/ ListAgain
    \/ EnumerateAgain \/ Enumerate \/ EnumerateFails
    \/ Fill \/ CountOn

-----------------------------------------------------------------------------
(* The system.                                                             *)

Start(id) ==
    /\ at \notin {"idle", "done", "exhausted", "error"}
    /\ id \notin live /\ starts < MaxStarts
    /\ live' = live \cup {id}
    /\ starts' = starts + 1
    /\ UNCHANGED <<listing, steady, exits>>

Exit(id) ==
    /\ at \notin {"idle", "done", "exhausted", "error"}
    /\ id \in live /\ exits < MaxExits
    /\ live' = live \ {id}
    /\ steady' = steady \ {id}
    /\ exits' = exits + 1
    /\ UNCHANGED <<listing, starts>>

Returned ==
    /\ at \in {"done", "exhausted", "error"}
    /\ UNCHANGED vars

Next ==
    \/ List
    \/ Listing
    \/ \E id \in Ids : Start(id) \/ Exit(id)
    \/ Returned

Spec == Init /\ [][Next]_vars

FairSpec == Spec /\ WF_vars(Listing)

-----------------------------------------------------------------------------
(* Properties.                                                             *)

Listed == {buffer[i].id : i \in DOMAIN buffer}

\* A list holds what the last attempt put there and nothing older, each id
\* once: neither a retry nor a skipped slot leaves an old entry behind.
ListIsFresh ==
    at = "done" =>
        /\ \A i \in DOMAIN buffer : buffer[i].id # NoId /\ buffer[i].attempt = retry
        /\ \A i, j \in DOMAIN buffer : i # j => buffer[i].id # buffer[j].id

\* A list holds all that was there from the call to the return and may be
\* read, whatever came and went meanwhile.
NothingMissed ==
    at = "done" => steady \ Protected \subseteq Listed

\* The interface gives up only when more came between any two attempts than
\* the slack allows for: the ids that are skipped here and counted there do
\* not use up the attempts.
GivesUpOnGrowth ==
    at = "exhausted" => starts >= Retries * (Slack + 1)

\* A listing comes to an end.
ListingReturns ==
    at = "enumerate" ~> at \in {"done", "exhausted", "error"}

\* "This function enumerates all modules".
AllListed ==
    at = "done" => steady \subseteq Listed

-----------------------------------------------------------------------------
(* What makes the properties of a list inductive.                          *)

\* The driver's first Vec has room for all modules that are loaded at a time;
\* of processes no more than fit are ever reported.
VecSuffices == ReportsNeeded => Cardinality(live) <= DriverCapacity

AttemptsLeft == at \in {"enumerate", "fill"} => retry <= Retries

CountStartsAtZero == at = "enumerate" => count = 0 /\ ids = <<>>

\* The driver's Vec starts with its capacity, and only grows.
VecGrows == at = "enumerate" => driver_length >= DriverCapacity

\* The slots that have been filled in this attempt.
Filled == 1..(IF count < length THEN count ELSE length)

\* What is still to be looked at is no garbage, each id once; and so is what
\* has been filled in, which is of this attempt and will not come again.
FilledApart ==
    at = "fill" =>
        /\ \A i \in DOMAIN ids : ids[i] # NoId
        /\ \A i, j \in DOMAIN ids : i # j => ids[i] # ids[j]
        /\ \A i \in Filled :
               /\ buffer[i].id # NoId /\ buffer[i].attempt = retry
               /\ \A j \in DOMAIN ids : ids[j] # buffer[i].id
        /\ \A i, j \in Filled : i # j => buffer[i].id # buffer[j].id

\* What should be in the list is in it, or yet to come, unless the list is
\* known to be too short.
FilledOrToCome ==
    at = "fill" =>
        \A id \in steady \ Protected :
            \/ \E i \in DOMAIN ids : ids[i] = id
            \/ \E i \in Filled : buffer[i].id = id
            \/ count > length

\* The ids are looked at in the order of the system.
Ascending == \A i, j \in DOMAIN ids : i < j => ids[i] < ids[j]

Remaining == {ids[i] : i \in DOMAIN ids}

\* How many ids an attempt needs to come before it, to fail after `attempts'.
Growth(attempts) == attempts * (Slack + 1)

\* The attempt before this one has counted some ids, and skipped those alone
\* that were not the last: of what is or was there now, the others had to come.
CameSince(there, came, attempts) ==
    attempts > 0 =>
        \E counted \in SUBSET Ids, skipped \in SUBSET Protected :
            /\ Cardinality(counted) + Slack = length
            /\ \A q \in skipped : \E c \in counted : q < c
            /\ came >= Growth(attempts - 1) + Cardinality(there \ (counted \cup skipped))

GrowthBetween == at = "enumerate" => CameSince(live, starts, retry)

\* Within an attempt: what there was when it began, before which so many had
\* come, is counted, skipped, or still to be looked at, in this order.
Looked(there, counted, skipped, before) ==
    /\ counted \cup skipped \cup Remaining \subseteq there
    /\ Cardinality(counted) = count
    /\ \A x \in counted \cup skipped, y \in Remaining : x < y
    /\ starts >= before + Cardinality(live \ (counted \cup skipped \cup Remaining))
    /\ count <= length =>
           counted \cap Protected = {} /\ CameSince(there, before, retry)
    /\ count > length =>
           /\ before >= Growth(retry)
           /\ \A q \in skipped : \E c \in counted : q < c

GrowthWithin ==
    at = "fill" =>
        \E there, counted \in SUBSET Ids, skipped \in SUBSET Protected, before \in 0..starts :
            Looked(there, counted, skipped, before)
=============================================================================
