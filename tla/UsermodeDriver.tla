--------------------------- MODULE UsermodeDriver ---------------------------
(***************************************************************************)
(* The life of the user-mode driver library in an application: loaded and  *)
(* started by the interface library (crates/vtd-libum/src/interface.rs),   *)
(* holding one metrics client in its METRICS static                        *)
(* (drivers/driver-usermode/src/metrics.rs), torn down and unloaded when   *)
(* the application destroys its interface.                                 *)
(*                                                                         *)
(* The client is MetricsClient, composed with the life of the library: the *)
(* thread that destroys the interface is the client's owner, and the       *)
(* worker runs code of the library.  The model ends when the library is    *)
(* unmapped.  METRICS is locked for reading by the commands of an          *)
(* interface that is ready, and for writing before and after that only, so *)
(* the lock itself never makes anyone wait.                                *)
(***************************************************************************)
EXTENDS MetricsClient

VARIABLES
    interface,      \* how far the interface and its library are
    metrics         \* the client: "made" by startup, "stored" in METRICS, "taken" out

driverVars == <<vars, interface, metrics>>

DriverTypeOK ==
    /\ TypeOK
    /\ interface \in {"startup", "initialize", "ready", "drop", "unload", "gone"}
    /\ metrics \in {"none", "made", "stored", "taken"}

DriverInit ==
    /\ Init
    /\ interface = "startup"
    /\ metrics = "none"

MoveInterface(from, to) == interface = from /\ interface' = to

-----------------------------------------------------------------------------
(* ValthrunLibrary::load calls startup(), and that maybe_init().           *)

\* create_instance fails without device information or a usable key; the
\* driver goes on without metrics.
CreateInstance ==
    \/ /\ interface = "startup" /\ metrics = "none"
       /\ metrics' = "made"
       /\ UNCHANGED <<vars, interface>>
    \/ /\ MoveInterface("startup", "initialize")
       /\ metrics = "none"
       /\ UNCHANGED <<vars, metrics>>

\* The record about the kind of interface, then the client goes to METRICS.
StoreInstance ==
    /\ MoveInterface("startup", "initialize")
    /\ metrics = "made" /\ metrics' = "stored"
    /\ ClientAddRecord

-----------------------------------------------------------------------------
(* DriverInterface: initialize, the commands about metrics, and drop.      *)

\* Mutant: a driver that is refused is unloaded without teardown().
InitializeUnclean ==
    /\ \/ MoveInterface("initialize", "ready")
       \/ MoveInterface("initialize", "unload")
    /\ UNCHANGED <<vars, metrics>>

\* A driver of another protocol version, or one that is unavailable, makes
\* create() drop the library it has just started.
Initialize ==
    /\ \/ MoveInterface("initialize", "ready")
       \/ MoveInterface("initialize", "drop")
    /\ UNCHANGED <<vars, metrics>>

\* Without a client the commands do nothing.
Command ==
    /\ interface = "ready" /\ metrics = "stored"
    /\ \/ ClientAddRecord
       \/ \E f \in Flushers : Flush(f)
    /\ UNCHANGED <<interface, metrics>>

\* No call may be in progress.
Destroy ==
    /\ MoveInterface("ready", "drop")
    /\ \A f \in Flushers : At(f, "idle")
    /\ UNCHANGED <<vars, metrics>>

-----------------------------------------------------------------------------
(* ValthrunLibrary::drop calls teardown(), then the library is unloaded.   *)

\* Mutant: waits for a client that was never made.
TeardownExpectsMetrics ==
    /\ MoveInterface("drop", "unload")
    /\ metrics = "stored" /\ owner = "done"
    /\ UNCHANGED <<vars, metrics>>

TeardownNothing ==
    /\ MoveInterface("drop", "unload")
    /\ metrics = "none"
    /\ UNCHANGED <<vars, metrics>>

TeardownTakes ==
    /\ interface = "drop" /\ metrics = "stored"
    /\ metrics' = "taken"
    /\ ShutdownCall /\ OwnerFrame
    /\ UNCHANGED interface

TeardownRuns ==
    /\ interface = "drop" /\ metrics = "taken"
    /\ OwnerStep
    /\ UNCHANGED <<interface, metrics>>

TeardownEnds ==
    /\ MoveInterface("drop", "unload")
    /\ metrics = "taken" /\ owner = "done"
    /\ UNCHANGED <<vars, metrics>>

Unload ==
    /\ MoveInterface("unload", "gone")
    /\ UNCHANGED <<vars, metrics>>

-----------------------------------------------------------------------------

\* The worker thread and the clock, while the code they run is there.
Background ==
    /\ metrics # "none" /\ interface # "gone"
    /\ Worker \/ DeadlinePasses \/ Crash
    /\ UNCHANGED <<interface, metrics>>

DriverStopped ==
    /\ interface = "gone" \/ process = "down"
    /\ UNCHANGED driverVars

InterfaceStep ==
    /\ process # "down"
    /\ \/ CreateInstance \/ StoreInstance \/ Initialize
       \/ TeardownNothing \/ TeardownTakes \/ TeardownRuns \/ TeardownEnds
       \/ Unload

DriverNext ==
    \/ InterfaceStep
    \/ Command
    \/ process # "down" /\ Destroy
    \/ Background
    \/ DriverStopped

DriverSpec == DriverInit /\ [][DriverNext]_driverVars

\* As in MetricsClient: nobody has to destroy the interface or send commands, but
\* a flush that has begun goes on.
DriverFairness ==
    /\ WF_driverVars(InterfaceStep)
    /\ SF_driverVars(TeardownRuns /\ ShutdownDrained)
    /\ WF_driverVars(Background /\ Worker)
    /\ WF_driverVars(Background /\ DeadlinePasses)
    /\ \A f \in Flushers :
           /\ WF_driverVars(Command /\ FlushStepOf(f))
           /\ SF_driverVars(Command /\ FlushStepOf(f) /\ FlushDrained(f))

DriverFairSpec == DriverSpec /\ DriverFairness

-----------------------------------------------------------------------------
(* Properties.                                                             *)

\* The worker has heard of the shutdown request, or will.
StopAsked ==
    \/ shutdown
    \/ \E i \in DOMAIN worker_actions : worker_actions[i] = "FlushShutdown"

\* No library is unmapped that has made a client without having asked its worker
\* to stop, nor with the receiver of its acks left alive, for which the worker
\* would wait: startup makes the client before the driver is greeted, so a driver
\* that is refused by initialize() needs its teardown as much as one that has
\* served an application.
NoWorkerForgotten ==
    interface = "gone" /\ metrics # "none" => StopAsked /\ flush_rx = "dropped"

\* Dropping the interface returns: with a worker that is in a request, in a
\* backoff or stuck on its ack, and with no client at all.
TeardownReturns ==
    interface = "drop" ~> interface = "gone" \/ process = "down"

\* vtum_interface_destroy "releases any memory, handles, or other system
\* resources allocated during the lifetime of the interface": the thread the
\* driver started is not left behind in a library that is unmapped.
WorkerReleased ==
    interface = "gone" /\ metrics # "none" => worker = "ended"
=============================================================================
