-------------------------- MODULE DriverInstances --------------------------
(***************************************************************************)
(* Several driver interfaces in one process: threads that create and       *)
(* destroy them (vtd-libum) at the same time, over a few library files.    *)
(*                                                                         *)
(* A file is mapped once, however many interfaces use it, and so are the   *)
(* statics of the user-mode driver in it: the logger, which can be set     *)
(* once, and METRICS, which holds at most one client.  Both are fresh when *)
(* the last user has unloaded the library.  What a client does is          *)
(* MetricsClient, and one interface alone is UsermodeDriver.               *)
(***************************************************************************)
EXTENDS DeviceInformation

CONSTANTS
    Interfaces,     \* threads of the application, each with one interface at a time
    Libraries,      \* files of the user-mode driver
    NoLibrary,
    Structures,     \* what the firmware's table can be made of
    MaxStructures   \* bound: structures in it

ASSUME InstancesAssumption ==
    /\ NoLibrary \notin Libraries
    /\ \A structure \in Structures : IsStructure(structure)
    /\ MaxStructures \in Nat

VARIABLES
    process,        \* "up", or "aborted"
    at,             \* how far each interface is
    uses,           \* the library it has loaded
    logger,         \* of a library: whether its logger is set
    metrics,        \* and its METRICS: no client, or one, as the device id it sends
    held,           \* a client that an interface has made or taken out of METRICS
    served,         \* ghost: METRICS held a client when startup was over
    overlap,        \* ghost: a library was loaded while another interface used it
    firmware        \* of the machine: its table, and whether it can be read

statics == <<logger, metrics>>
ofInterface == <<at, uses, held, served>>
vars == <<process, statics, ofInterface, overlap, firmware>>

Places == {"idle", "startup", "check", "make", "store", "initialize", "ready",
           "teardown", "shutdown", "unload"}

Users(library) == {i \in Interfaces : uses[i] = library}

\* resolve_info: the id, or none; no other data of it tells devices apart.
DeviceId == BiosUniqueId(firmware.readable, Encode(firmware.structures))

TypeOK ==
    /\ process \in {"up", "aborted"}
    /\ at \in [Interfaces -> Places]
    /\ uses \in [Interfaces -> Libraries \cup {NoLibrary}]
    /\ logger \in [Libraries -> BOOLEAN]
    /\ metrics \in [Libraries -> SUBSET Uuids]
    /\ held \in [Interfaces -> SUBSET Uuids]
    /\ served \in [Interfaces -> BOOLEAN]
    /\ overlap \in BOOLEAN

Init ==
    /\ process = "up"
    /\ at = [i \in Interfaces |-> "idle"]
    /\ uses = [i \in Interfaces |-> NoLibrary]
    /\ logger = [library \in Libraries |-> FALSE]
    /\ metrics = [library \in Libraries |-> {}]
    /\ held = [i \in Interfaces |-> {}]
    /\ served = [i \in Interfaces |-> FALSE]
    /\ overlap = FALSE
    /\ firmware \in [readable : BOOLEAN,
                     structures : UNION {[1..n -> Structures] : n \in 0..MaxStructures}]

Move(i, from, to) ==
    /\ process = "up" /\ at[i] = from
    /\ at' = [at EXCEPT ![i] = to]
    /\ UNCHANGED <<process, firmware>>

-----------------------------------------------------------------------------
(* ValthrunLibrary::load, in it startup(), and in that maybe_init().       *)

Load(i, library) ==
    /\ Move(i, "idle", "startup")
    /\ uses' = [uses EXCEPT ![i] = library]
    /\ overlap' = (overlap \/ Users(library) # {})
    /\ UNCHANGED <<statics, held, served>>

\* Mutant: env_logger::try_init.
StartupAgain(i) ==
    /\ Move(i, "startup", "check")
    /\ logger' = [logger EXCEPT ![uses[i]] = TRUE]
    /\ UNCHANGED <<uses, metrics, held, served, overlap>>

\* env_logger::init panics when there is a logger, and no panic leaves a
\* function that is extern "C": the process aborts.
Startup(i) ==
    \/ /\ Move(i, "startup", "check")
       /\ ~logger[uses[i]]
       /\ logger' = [logger EXCEPT ![uses[i]] = TRUE]
       /\ UNCHANGED <<uses, metrics, held, served, overlap>>
    \/ /\ process = "up" /\ at[i] = "startup" /\ logger[uses[i]]
       /\ process' = "aborted"
       /\ UNCHANGED <<statics, ofInterface, overlap, firmware>>

\* METRICS is read, and let go, before a client is made.
CheckMetrics(i) ==
    /\ \/ Move(i, "check", "make") /\ metrics[uses[i]] = {}
       \/ Move(i, "check", "initialize") /\ metrics[uses[i]] # {}
    /\ served' = [served EXCEPT ![i] = metrics[uses[i]] # {}]
    /\ UNCHANGED <<uses, statics, held, overlap>>

\* create_instance, which may fail.
MakeClient(i) ==
    /\ \/ Move(i, "make", "store") /\ held' = [held EXCEPT ![i] = {DeviceId}]
       \/ Move(i, "make", "initialize") /\ UNCHANGED held
    /\ UNCHANGED <<uses, statics, served, overlap>>

StoreClient(i) ==
    /\ Move(i, "store", "initialize")
    /\ metrics' = [metrics EXCEPT ![uses[i]] = held[i]]
    /\ held' = [held EXCEPT ![i] = {}]
    /\ served' = [served EXCEPT ![i] = TRUE]
    /\ UNCHANGED <<uses, logger, overlap>>

-----------------------------------------------------------------------------
(* DriverInterface: create and its end.                                    *)

\* Mutant: a library that is refused is unloaded without teardown().
InitializeUnclean(i) ==
    /\ Move(i, "initialize", "ready") \/ Move(i, "initialize", "unload")
    /\ UNCHANGED <<uses, statics, held, served, overlap>>

\* The driver may be of another protocol version, or unavailable.
Initialize(i) ==
    /\ Move(i, "initialize", "ready") \/ Move(i, "initialize", "teardown")
    /\ UNCHANGED <<uses, statics, held, served, overlap>>

Destroy(i) ==
    /\ Move(i, "ready", "teardown")
    /\ UNCHANGED <<uses, statics, held, served, overlap>>

\* teardown(): what METRICS holds is taken out.
TakeClient(i) ==
    /\ \/ Move(i, "teardown", "unload") /\ metrics[uses[i]] = {}
       \/ Move(i, "teardown", "shutdown") /\ metrics[uses[i]] # {}
    /\ held' = [held EXCEPT ![i] = metrics[uses[i]]]
    /\ metrics' = [metrics EXCEPT ![uses[i]] = {}]
    /\ UNCHANGED <<uses, logger, served, overlap>>

\* MetricsClient::shutdown, which ends within its timeouts.
ShutdownClient(i) ==
    /\ Move(i, "shutdown", "unload")
    /\ held' = [held EXCEPT ![i] = {}]
    /\ UNCHANGED <<uses, statics, served, overlap>>

\* Mutant: the library stays mapped.
UnloadNothing(i) ==
    /\ Move(i, "unload", "idle")
    /\ uses' = [uses EXCEPT ![i] = NoLibrary]
    /\ served' = [served EXCEPT ![i] = FALSE]
    /\ UNCHANGED <<statics, held, overlap>>

\* The statics go with the last user; the next load finds new ones.
Unload(i) ==
    /\ Move(i, "unload", "idle")
    /\ uses' = [uses EXCEPT ![i] = NoLibrary]
    /\ served' = [served EXCEPT ![i] = FALSE]
    /\ IF Users(uses[i]) = {i}
       THEN /\ logger' = [logger EXCEPT ![uses[i]] = FALSE]
            /\ metrics' = [metrics EXCEPT ![uses[i]] = {}]
       ELSE UNCHANGED statics
    /\ UNCHANGED <<held, overlap>>

\* An aborted process does nothing more.
Aborted == process = "aborted" /\ UNCHANGED vars

Step(i) ==
    \/ \E library \in Libraries : Load(i, library)
    \/ Startup(i) \/ CheckMetrics(i) \/ MakeClient(i) \/ StoreClient(i)
    \/ Initialize(i) \/ Destroy(i)
    \/ TakeClient(i) \/ ShutdownClient(i) \/ Unload(i)

Next == (\E i \in Interfaces : Step(i)) \/ Aborted

Spec == Init /\ [][Next]_vars

-----------------------------------------------------------------------------
(* Properties.                                                             *)

\* A second startup of a mapped library is the end of the process, but only an
\* application that overlaps two interfaces on one file ever gets there: one
\* that destroys an interface before it creates the next can go on for ever,
\* whatever fails in between.
AloneIsSafe == process = "aborted" => overlap

\* An interface that has had metrics keeps them until it is destroyed, whatever
\* other interfaces do: METRICS is shared, and every teardown() empties it.
MetricsKept == \A i \in Interfaces : at[i] = "ready" /\ served[i] => metrics[uses[i]] # {}

\* No client is still in METRICS when its library goes, with the worker running
\* in code that is no longer there.
NoClientAbandoned ==
    [][\A i \in Interfaces : Unload(i) /\ Users(uses[i]) = {i} => metrics[uses[i]] = {}]_vars

\* Every client identifies the device by the UUID in its firmware's table,
\* wherever in it that is and whatever strings and data come before it; by none
\* if there is none, or no table.
DeviceIdentified ==
    LET uuid == IF firmware.readable THEN UuidOf(firmware.structures) ELSE NoUuid
    IN  /\ \A library \in Libraries : metrics[library] \subseteq {uuid}
        /\ \A i \in Interfaces : held[i] \subseteq {uuid}
=============================================================================
