# Valthrun driver: a TLA+ verification project

TLA+ modules of the Valthrun driver repository, model-checked with TLC and proved about with TLAPS.
The repository holds a library that loads a memory driver and talks to it (`vtd-libum`, with a C
interface in `vtd-libum-ffi`), the command protocol (`vtd-protocol`), a driver that works in user mode
(`drivers/driver-usermode`), and a metrics client that this driver runs inside the application
(`vtd-metrics`). Most of the repository is straight-line code around one call of the operating system.
What is hard to get right, and hard to test, is concentrated in six places: the metrics client with
its worker thread, the life of a driver library around it, what several interfaces in one process share, the search for
a library to load, the retry loops that list processes and modules, and the agreement of interface and driver on
commands and on the strings in them. All six are modelled here, and so is the scan of the firmware's table that
identifies a device.

## The system

| part | state | operations | talks to |
|---|---|---|---|
| record queue (`vtd-metrics/src/queue.rs`) | sequence number, deque of records | add with an overflow drain, dequeue a report, put a report back | client, worker (mutex) |
| metrics client (`client.rs`, upper half) | sender of the action channel, receiver of the ack channel in a mutex | `new`, `add_record`, `flush`, `shutdown`, `Drop` | queue, worker (two channels) |
| worker (`client.rs`, `WorkerContext`) | timer mode, backoff level, deadline, shutdown flag | `worker_loop`, `submit_queue`, `handle_submit_result` | queue, sender, client |
| metrics sender (`sender.rs`) | session id, key, HTTP agent | `submit_records` | the metrics server |
| record data, encryption (`data.rs`, `crypto.rs`) | none | encode, encrypt | sender |
| device information (`device/`) | none | read the machine's identity once per client; on Windows a scan of the SMBIOS table | the OS |
| metrics holder of the driver (`driver-usermode/src/metrics.rs`, `lib.rs`) | `METRICS: RwLock<Option<MetricsClient>>` and the logger, one of each per mapped library | `startup`, `teardown`, `add_record`, `flush` | client, all interfaces of the process |
| command registry (`registry.rs`) | 0x20 handler slots | `register`, `handle` | handlers |
| handlers (`handler/`, `util.rs`) | none | one Windows call each; two enumeration loops | Windows |
| interface (`vtd-libum/src/interface.rs`) | the library, the handler, versions, a read counter | find, load, initialize, one method per command, `Drop` | driver library |
| C interface (`vtd-libum-ffi`) | an opaque handle | one function per method | interface |
| protocol (`vtd-protocol`) | none | command layouts and ids, fixed string buffers | all |

**Metrics.** Any thread adds records. The worker wakes up on its deadline, on a flush request (by
`flush()`, or by an add that finds a long queue) or on the shutdown request, and submits reports of at
most 100 records until the queue is empty or a submission fails. A failure drops the report, or puts
back what the server has not taken, and sets a backoff; a delay named by the server is a *forced*
backoff, in which flush requests are thrown away. After each round the worker sends an ack into a
channel with **one** slot. `flush(blocking)` and `shutdown()` first empty that channel and then wait on
it. This makes the hard cases: a round finishing between the drain and the wait, a slot nobody empties, a
report in flight during an overflow drain, a report accepted in part, a shutdown that times out.

What makes it correct: no record is lost between queue, report and requeue; nothing confirmed is sent
again; order is kept; the queue is bounded; the server's delay is respected; a flush gets out; shutdown
ends the worker, and a worker that ends undisturbed has sent everything.

**Library.** The interface collects paths (a path from the environment, then two directories, in each a
name from the environment and the files that look like drivers, newest first), loads the first that loads, calls
its `startup`, exchanges versions, and on destruction calls `teardown` and unmaps it. Files may change meanwhile.
The worker thread runs code of that library.
Correct: no better library is passed over; each start has one stop on every path and no command precedes the
greeting or follows a refused one; destruction returns, and leaves nothing mapped or running.

**Several interfaces.** A library file is mapped once for all interfaces of a process, and so are its statics. `startup` sets
a logger, which works once, and `maybe_init` makes a client unless `METRICS` has one; `teardown` takes the client out,
whoever made it. Correct: a program that ends one interface before it makes the next is never aborted; nobody loses the
metrics of an interface to another; no client is in a library that is unmapped.

**Commands.** Interface and driver are built apart. A command is an id, a structure and its size; the driver's
registry looks the id up, compares the size and calls a handler, which casts the bytes.
Correct: a handler sees only its own command, what the driver advertises it serves, a status of success
means success, input reaches the system in the order and with the sense in which it was sent, and a string
arrives as it was sent, or is refused, or is cut so that what is left can be read.

**Lists.** The interface offers a buffer, the driver fills it and counts, and when the count does not fit
the interface tries again, four times in all, while processes come and go.
Correct: a list is fresh, misses nothing that was there throughout, and ends.

`PROJECT.json` lists every component, also the ones that are not modelled, and the hazards of the code,
each at its line with the properties that watch it.

## Modules

| module | models |
|---|---|
| `RecordQueue` | `RecordQueue`: its methods as operators from queue to queue |
| `MetricsSender` | the results of `submit_records` and the `SubmitError` each makes |
| `MetricsClient` | client and worker: EXTENDS the two above |
| `MetricsDelivery` | the abstract service: numbered records that are open, confirmed or given up |
| `UsermodeDriver` | startup, commands, teardown and unload: EXTENDS `MetricsClient` |
| `Enumeration` | the lists of processes and modules |
| `LibraryLife` | the abstract life of a driver library: mapped, started, greeted, served, stopped, unmapped |
| `LibraryLoader` | the search for a library, load, greeting, commands and drop; refines `LibraryLife` |
| `FixedBuffers` | strings in buffers of a fixed size and their lossy reading, as operators on bytes |
| `DriverCommands` | commands from the C interface through the registry to a status, the input they cause and the strings they carry: EXTENDS `FixedBuffers` |
| `DeviceInformation` | the scan of the SMBIOS table as an operator, and the table as the firmware's standard has it |
| `DriverInstances` | several interfaces over a few library files in one process: EXTENDS `DeviceInformation` |
| `MCMetricsClient`, `MCUsermodeDriver`, `MCEnumeration`, `MCLibraryLoader`, `MCDriverCommands`, `MCDriverInstances` | the sets the cfg files name |
| `MetricsClientProofs`, `MetricsSafetyProofs`, `UsermodeDriverProofs`, `LibraryLoaderProofs`, `EnumerationProofs`, `DriverCommandsProofs`, `DriverInstancesProofs` | the theorems |
| `Inductions` | induction over numbers and sequences, and folds, for the proofs |

Operators marked "Mutant" in a comment are not part of a specification. Each is a plausible bug, to be put in the place
of the definition after it; `PROJECT.json` says which property then fails.

### MetricsClient and the code

| code | model |
|---|---|
| `Arc<Mutex<RecordQueue>>` | `record_queue`; one action per critical section, `QueueUnlocked` while `enqueue_failed` runs record by record |
| `mpsc::channel::<WorkerAction>` | `worker_actions`, a sequence |
| `sync_channel(1)` of acks | `acks` in 0..1; `SendAck` waits while it is 1; dropped with `flush_rx` |
| `Mutex<Receiver>` | `flush_rx_holder` |
| a thread in `flush` / in `shutdown` | `flusher[f].at` / `owner` |
| `worker_loop`, `submit_queue` | `worker`: recv, submit, send, requeue, ack, final_ack, ended |
| `send_deadline` | `deadline` (what set it) and `due` (it has passed) |
| `send_timer_mode`, `backoff_level`, `shutdown` | the same names; the level modulo the number of intervals, its only use |
| `InstanceBlocked` | `process`: "blocked", then at any time "down" |

Actions follow the code's critical sections and blocking calls: `flush` is lock, `try_recv` loop, send,
`recv`; a round of the worker is dequeue, send, handling of the answer (per record while putting back),
ack. Records are a number and whether the queue wrote them itself; payload, timestamps, encoding,
encryption and HTTP are left out, the sender being a choice among all its outcomes, with every subset of
a report as `records_submitted`. `acked` and `discarded` are ghosts. A server that has taken a report whose answer
was lost is not seen: `acked` is what the client learns.

`QueueAssumption` states what the literals 50_000, 10_000..15_000 and 100 satisfy and the proofs need; the cfg
files use 4, 1..4 and 2, which satisfy it too and overflow within eight adds.

### UsermodeDriver and the code

`interface` is the place in `ValthrunLibrary::load` / `DriverInterface::create` / `Drop`; `metrics` is
the client on its way into and out of `METRICS`. The thread that destroys the interface is the owner of
`MetricsClient`; `Background` lets the worker run while its code is mapped. `Destroy` needs all calls
to be over, which Rust's borrows and the safety section of `vtum_interface_destroy` demand. One
interface is modelled, from load to unload, with all that its client does; `DriverInstances` has many.

### DriverInstances and the code

Each of `Interfaces` is a thread that creates and destroys one interface after another; `at` is its place in
`ValthrunLibrary::load`, `startup`, `maybe_init`, `create` and `Drop`. The steps are those between which another thread can
come: `METRICS` is read by `CheckMetrics` and written by `StoreClient`. `uses` is the reference the loader of the system counts;
`Unload` by the last user makes `logger` and `metrics` fresh. A panic of `env_logger::init` cannot leave `startup`, which is
`extern "C"`: the process is `aborted` and nothing follows. A client is the id of the device it sends, in a set that is empty for
`None`; what it does with records, and that its shutdown returns, is `MetricsClient`. `overlap` and `served` are ghosts.

### DeviceInformation and the code

The operators are over real bytes: `ScanTable` is the loop of `get_bios_unique_id`, `SkipStrings` the loop in it. `Encode` is not code
of the repository; it builds tables as the SMBIOS standard has them (formatted area, strings, two NULs) from structures
as `IsStructure` describes them, and `UuidOf` says of those structures which UUID is meant. `resolve_info` runs once for each client, so the comparison of the two is an
invariant of `DriverInstances`, whose initial states range over the tables.

### Enumeration and the code

`length`, `retry`, `count` are `buffer.len()`, `retry`, `process_count`/`module_count`. `driver_length`
and `ids` are the driver's own Vec. Processes and modules differ in `Capacity` (4096, 512), `Slack` (16, 0)
and `ReportsNeeded`: `EnumProcesses` reports what it wrote, `EnumProcessModules` what it would need.
An element behind the end of the Vec (`NoId`) reads as anything. The order of the system is that of the
numbers; a number may come back after it went.

### LibraryLoader and the code

A path is a directory and a name; `disk` says what is there, `env` holds the three variables, `current_exe()` and the
directories that can be read. `ScanDirectory` is one round of the loop in `populate_library_paths`, reading
included; other programs change files between rounds and between loads (`ChangeFile`), not within the reading
of one directory. `at` is the place in `create_from_env`, `ValthrunLibrary::load`, `create`, `initialize` or `Drop`. What a
library exports and answers is chosen anew at each load. `startup` and `teardown` are optional
exports; the model takes a step for each whether or not it is there, with no other effect. The comment at
`interface.rs:194` says that the least recently modified candidate is started; the code tries the newest first.
`BestIsChosen` states what the code does, `LeastRecentlyModifiedFirst` what the comment says, which the run `oldest` refutes.

### DriverCommands and the code

Each call is one step, from `vtum_interface_*` over `execute_command` (both of them) and `HandlerRegistry::handle` to the
`VtumStatus`: nothing runs beside it that it depends on. `CommandId`, `CommandSize`, `Feature`, `DriverFeatures` and
`Registered` are the tables of the code. The sizes are those the compiler gives on a 64-bit target; only
which of them are equal matters. `MemoryRead` has the width of `NumberOfBytesToRead` as `Unsigned`. Keys and buttons are
what the `INPUT` records say, taken in their order, a key being named by its scan code; whether the system looks at that code,
since `KEYEVENTF_SCANCODE` is not set, is outside the model. The ghosts `keys_sent` and `buttons_sent` are what the application said.
Buttons 3 and 4 are left out: their events name no button of the system.

In `FixedBuffers` a byte is one of its kind: NUL, a character of its own, the first of two, of three or of four, or one that continues a
character; overlong forms and surrogates are not told apart from other characters of their length. Both ends of a string are in the model. The type of a metrics record goes from a C string over `to_string_lossy` and
`set_report_type` into 0x100 bytes and is read as UTF-8 by the handler, which falls back to "error" (`NoStr`). The message of a
handler that fails goes into the error buffer of 0x500 bytes, cut where it ends, and is read lossily by the library. `named` and
`text` are what was put in, `record` and `told` what came out. Messages of the system are any string, those of the driver
itself are short. The metrics
commands are served although the driver does not advertise the feature; the converse is `AdvertisedIsServed`.

## Runs

Passing runs, with their sizes at two workers:

| run | bounds | properties | shows |
|---|---|---|---|
| `queue` | no flusher, 7 records + shutdown, a success (with the end of the process perhaps to come), a report dropped, one put back in any part; 1.4 M states | `TypeOK`, `NoRecordLost`, `NoRecordResent`, `HeldInOrder`, `QueueBounded`, `EndsDrained`, `ImplementsDelivery`, `ShutdownEndsWorker` | every number given out is held, confirmed or given up, with verdicts final, through overflow drains with a report in flight, partial acceptance and requeues above the limit; order up to the one inversion of the drain note; shutdown ends the worker even after it gave up waiting, and a worker that ends in normal mode holds nothing |
| `driver` | 2 flushers, 2 records, one outcome of each effect on a round; 85 k states | `DriverTypeOK`, `NoWorkerForgotten`, `RetryDelayRespected`, `TeardownReturns`, `FlushReturns`, `FlushFreesWorker` | no library is unmapped whose client was not told to shut down, one that refuses `initialize` included; dropping the interface returns; only shutdown sends during a delay of the server; a flush always gives the receiver back, and frees a worker stuck on the ack slot |
| `processes` | 6 ids, one protected, 4 starts, 1 exit, 3 attempts; 466 k states | `TypeOK`, `ListIsFresh`, `NothingMissed`, `GivesUpOnGrowth`, `ListingReturns` | lists are fresh and complete for what stayed and can be read; giving up needs growth beyond the slack before every attempt |
| `loader` | 2 directories, 3 names (two of them accepted), 32 environments, 100 disks, 1 change, 2 commands; 1.7 M states | `TypeOK`, `NothingLeftBehind`, `BestIsChosen`, `NothingOverlooked`, `ImplementsLife` | the best library that loads is used, "no driver found" is true when said, and on every path the library lives as `LibraryLife` says |
| `commands` | 2 keys, 1 button, batches of at most 2 states, reads of at most 6 bytes with a width of 4, record types of at most 2 bytes in a buffer of 2, error messages of at most 5 bytes in a buffer of 4; 1801 states | `TypeOK`, `HandledAsSent`, `AdvertisedIsServed`, `ReadIsWhole`, `KeysFollow`, `RecordTypeKept`, `MessageReadable` | dispatch, statuses and key input over any sequence of commands, and strings that fit exactly, are too long, are no UTF-8 or are cut inside a character |
| `instances` | 3 interfaces, 2 library files, tables of at most 2 of 4 structures; 259 k states | `TypeOK`, `AloneIsSafe`, `MetricsKept`, `DeviceIdentified`, `NoClientAbandoned` | what the interfaces of a process share is safe from each other, and every client sends the id in the firmware's table |

`queue` needs eight adds, the one of `shutdown` included: a report of two out, five to pass the limit, and one to drain while
it is out. It leaves out failures that act on the queue as a rate limit naming no record does
(`HttpError` and others); `driver` has one outcome for each way a round can go on: all taken, dropped, put back with a backoff, put back
under the server's delay. No more than two flushers are needed
for one to hold the receiver and one to wait. That shutdown ends the worker is checked in `queue`, where the worker's code stays; acks
that fill the slot come there from the rounds of the timer. In the driver a library may be unmapped before (`unload`). `processes` has a buffer of 1 that has to grow past 6 in three attempts, and a
driver Vec of 2 that doubles twice. `loader` has two candidates of any age in one directory, one in the
other, a preferred path and a preferred name, which is every kind of precedence there is; one change suffices to remove,
break or replace any of them at any point of the search. In `commands` the state does not grow, so all sequences of
calls are covered; two states in a batch are enough for a key to go down and up in one call, and five bytes for a
character of four behind another byte, cut after three, which is the most that a cut can leave of one. In `instances` two interfaces can overlap on one file while the third uses the other; of the
structures one has zeros in its data and two strings, one is of the right type and too short, one is the right one, one has no
strings, and each is skipped or found in front of and behind each other.

Runs that end in a violation, each a disagreement between a sentence of the repository and its code:

| run | sentence | what happens |
|---|---|---|
| `stall` | records are "processed or submitted asynchronously" (`vtd-libum-ffi/src/lib.rs:317-319`) | an application that never flushes: the second timer round blocks on the ack slot for ever |
| `forced` | "We're on a force backoff. Nothing we can do." (`client.rs:91`) | flush requests are thrown away after the server's delay is over, when the round after it found the queue empty |
| `unload` | destroy "releases any memory, handles, or other system resources" (`vtd-libum-ffi/src/lib.rs:166-168`) | the worker outlives the library whose code it runs |
| `modules` | "enumerates all modules" (`vtd-libum-ffi/src/lib.rs:395-396`) | beyond 1000 modules the Vec's length passes its end |
| `buttons` | the mouse call injects "button clicks" (`vtd-libum-ffi/src/lib.rs:471-472`) | the state of a button is read from the mask, so a release arrives as a press |
| `oldest` | "Starting the driver which has been least recently modified." (`vtd-libum/src/interface.rs:194`) | the candidates of a directory are sorted by age and reversed, so the newest is started |

Two more things a reader of the code may stumble over are in the models without a run: a success leaves
`backoff_level` as it is, although `client.rs:67` calls it the number of concurrent failures; and `process_count` leaves out
processes that cannot be read, unless the buffer is full, where `process.rs:21` calls it the total.

### Fairness

`FairSpec` assumes that threads that can run do (weak fairness of the worker, of a thread inside `flush`, and of
`shutdown` once called), that time passes, and that an HTTP request ends with some outcome. The last is
an assumption about the environment: the agent is built without a timeout. Nobody has to call anything.
The exits of the two `try_recv` loops are strongly fair: the worker could in theory refill the slot
before each look, but a refill takes a round with a request, and a look takes no time.
`DriverFairSpec` says the same of the client in the driver, and that load and drop go on. In `Enumeration` the listing is weakly fair, and the
bounds on starts and exits say that the system does not change for ever faster than the loop runs.

`DriverInstances` has no liveness: that a shutdown returns is `TeardownReturns` of `UsermodeDriver`.

## Theorems

TLAPS proves every safety property of the runs, for every number of threads and all constants that satisfy the assumptions:

| theorem | statement | invariant used |
|---|---|---|
| `TypeCorrect` | `Spec => []TypeOK` of `MetricsClient` | `TypeOK` is inductive |
| `QueueStaysBounded` | `Spec => []QueueBounded` | `BoundInv`: types, only a submission holds records outside the queue, report + queue within the limit + 1 + a report, queue within the limit + 1 during a send |
| `RetryDelayIsRespected` | `Spec => []RetryDelayRespected` | `RetryDelayForces`: a running delay goes with the forced mode and a waiting worker |
| `NoRecordIsLost` | `Spec => []NoRecordLost` | `AccountInv`: types, `ReportInFlight`, numbers below the modulus, and the property itself |
| `WorkerEndsDrained` | `Spec => []EndsDrained` | `EndInv`: types, `ReportInFlight`, `EndRequested` (where a shutdown request is, and what the worker has heard of it) |
| `HeldStaysInOrder` | `Spec => []HeldInOrder` | `OrderInv`: `AccountInv`, `HeldBounded` (a drain leaves the report alone), `ReportNotEmpty` (a submission carries records), and the property itself |
| `ClientImplementsDelivery` | `Spec => ImplementsDelivery` | step simulation under `OrderInv` |
| `NoRecordIsResent` | `Spec => NoRecordResent` | the same |
| `NoWorkerIsForgotten` | `DriverSpec => []NoWorkerForgotten` | `TypeOK`, `RequestStands` (the acks' receiver is gone only when the worker was asked to stop), `TeardownFirst` (past `drop` there is no client, or its `shutdown` has returned) |
| `DriverTypeCorrect` | `DriverSpec => []DriverTypeOK` | inductive with `TypeOK`, which the lemma `DriverIsClient` brings |
| `DriverLosesNoRecord`, `DriverDelivers` | `DriverSpec => []NoRecordLost`, `DriverSpec => ImplementsDelivery` | the client's theorems and `DriverIsClient` |
| `NothingIsLeftBehind` | `LibraryLoader!Spec => []NothingLeftBehind` | `IInv`: what the thread holds at each place of the code, and types of the search |
| `LoaderImplementsLife` | `LibraryLoader!Spec => ImplementsLife` | step simulation under `IInv` |
| `LoaderTypeCorrect` | `LibraryLoader!Spec => []TypeOK` | `RestInv`: the other types |
| `NothingIsOverlooked`, `BestIsTaken` | `LibraryLoader!Spec => []NothingOverlooked`, `[]BestIsChosen` | `CompleteInv`: see below |
| `EnumerationTypeCorrect` | `Enumeration!Spec => []TypeOK` | `TypeInv` |
| `ListsAreFresh`, `NothingIsMissed` | `Spec /\ []VecSuffices => []ListIsFresh`, `[]NothingMissed` | `FreshInv` |
| `GivingUpTakesGrowth` | `Spec /\ []VecSuffices => []GivesUpOnGrowth` | `GrowthInv` |
| `ProcessListsAreRight` | `~ReportsNeeded => (Spec => []` the three`)` | `VecSuffices` holds |
| `CommandsTypeCorrect`, `OwnCommandOnly`, `FeaturesAreServed`, `ReadsAreWhole`, `RecordTypesAreKept`, `MessagesAreReadable`, `KeysAreFollowed` | `DriverCommands!Spec => []` of `TypeOK`, `HandledAsSent`, `AdvertisedIsServed`, `ReadIsWhole`, `RecordTypeKept`, `MessageReadable`, `KeysFollow` | `IInv` of `DriverCommandsProofs`: all seven at once |
| `SequentialUseIsSafe` | `DriverInstances!Spec => []AloneIsSafe` | `IInv` of `DriverInstancesProofs`: its part `Apart` |
| `MetricsAreKept` | `DriverInstances!Spec => []MetricsKept` | the same, `ClientKept` |
| `NoneIsAbandoned` | `DriverInstances!Spec => NoClientAbandoned` | the same, `ClientOwned` |
| `ScanFindsUuid` | `ScanTable(Encode(structures)) = UuidOf(structures)` for every sequence of structures | none: it is about the operators |
| `DeviceIsIdentified`, `InstancesTypeCorrect` | `DriverInstances!Spec => []DeviceIdentified`, `[]TypeOK` | `Types`, `FirmwareStays` and `ScanFindsUuid` |

**Queue and worker.** `QueueBounded` alone is not inductive: a failed report comes back without a look at the limit, so the bound
has to cover what is in flight, and needs to know that a report taken before an add leaves room for
itself. It also says that one drain always makes room, which is why the recursion in `add_record` is
modelled one level deep. `NoRecordLost` needs that a new number is the successor of the last one, hence the bound below
2^32 (`MaxRecords + 3 < SeqModulus`). The first part of `MetricsClientProofs` holds the lemmas about the operators of the queue:
lengths, types and the numbers before and after an add, a drain, a dequeue and a requeue.
The refinement to `MetricsDelivery` and `NoRecordResent` both rest on the order of what is held: in order, no number stands twice,
so that the numbers that leave with a report, a part of it or a drain are apart from those that stay. The note of an overflow
stands before a record with the number below its own; this is the one inversion that `InOrder` allows.

**Search.** The loader's invariant says, place by place, whether a library is held, started, greeted and stopped. The refinement
needs it because the abstract stage is read off those variables alone: without it a `Teardown` could
start from a library that was never started. For `BestIsChosen` and `NothingOverlooked` the list of paths has to be followed through the search.
`CompleteInv` says which directories are still to be scanned (`SearchProgress`), that the path of the environment is first
(`EnvironmentFirst`), that each searched library that would load and has been there all the time is in the list or still to come
(`ListComplete`), and that in the list nothing stands before what outranks it (`ListRanked`), of which the load loop takes the head. It uses that directories and names are finitely many:
a directory's candidates can then be put in an order.

**Lists.** `FreshInv` says that the slots filled so far are of this attempt, each id in one of them and none still to come (`FilledApart`), and that an id that
has been there throughout and may be read is in one, or still to come, or the buffer is known to be too short (`FilledOrToCome`). This needs a
Vec of the driver in which no slot is garbage. `VecSuffices` says so: where the system reports the size it needs, there are never more
modules than the driver's first Vec holds; the run `modules` shows what happens otherwise. Where the system reports only what it wrote, as for processes,
nothing is assumed. `GrowthInv` counts: after *n* attempts have failed, an attempt that fails too had *n* (`Slack` + 1) ids come before it, for what it counts beyond the
length was neither counted nor skipped by the one before. Ids that cannot be read make this hard: they are skipped until the buffer is full, and counted then.

**Commands.** A call is one step, and the next one overwrites what the last one said, so that the work is in the operators. Batches and
strings have any length, and what is computed from them are folds. `Inductions` has what is needed for this: the least number of a set,
by the well-founded induction of the library, and from it that a set of numbers or of sequences that is closed under one step has
them all. (The library's own theorems take the property as an operator, which the provers cannot instantiate; a set can stand for it.) A fold
is then the step, as a function, at the last element, on the fold of the elements before it. With it, by induction over the bytes: what the decoder has done is whole
characters, what it has open is at most three bytes, what it has read is both together as long as it is valid. Hence a cut leaves whole
characters and at most one replacement, and lossy reading gives UTF-8, which a fixed buffer keeps if it is not too long. `KeysFollow`
compares two folds, the events of a batch and the last word on each key.

**Interfaces.** `DriverInstancesProofs` shows for any number of interfaces and files what keeps them apart. Nothing in `metrics.rs` would: check
and store are two steps, and `teardown` takes whatever it finds. It is the logger. While any interface that has passed `startup` uses a library its
logger is set, hence at most one is past `startup` (`OneStarted`), and `METRICS` is that one's alone: it is filled before the
interface is ready and emptied by nobody else (`ClientKept`), and by it before it unloads (`ClientOwned`). `AloneIsSafe` needs the other
direction, that a logger is set only while somebody uses the library. With `env_logger::try_init` in `startup` (the mutant `StartupAgain`) the
abort would be gone and `MetricsKept` with it.

**Device.** `ScanFindsUuid` follows where the bytes of a table lie (`Lies`: each structure, and in it each string, from its start to the start of the next). The
strings end at the first two NULs because no string is empty or has a NUL in it, wherever zeros stand in the data before them; the scan passes a
structure as a whole, and as it moves on by at least two bytes it is defined. The only assumption is `IsStructure`: a length in one byte and strings as
the SMBIOS standard has them.

Model-checked only: all liveness (`ShutdownEndsWorker`, `FlushReturns`, `FlushFreesWorker`, `TeardownReturns`, `ListingReturns`), since TLAPS
has no ENABLED, and the runs that end in a violation.

## Not modelled

Encoding and encryption hold no state and make one call each: `submit_records` sees a failure of either as `EncodeFailure`. Of device
information the version numbers, the clocks and the Unix variant are left out, which the user-mode driver, made for Windows, does not
compile; and tables that break off inside a structure. Of input, pointer movement and wheels are left out, what the
system makes of the events, and whether `SendInput` succeeds; of the C interface, the callbacks of the lists, the version calls and the logger. Layouts of structures are taken to agree.
Names of processes and modules are below `Enumeration`. Wrap-around of sequence numbers is excluded by the bound. Examples and build
scripts are left out.

## Plan

The order was: the metrics client and its worker with the first proofs, the driver around it, the lists, the search for a
library, the commands, then the strings in them, the interfaces of one process and the device, and the proofs of all safety
properties. What is left:

1. `DriverInstances` against `LibraryLife`, interface by interface, which `LibraryLoader` implements already: each load has one stop, also beside others.
2. `KeysFollow` as an equation of the two folds for batches that name a key several times, stated as a theorem of its own.
3. What `VecSuffices` leaves open: a list of modules that outgrows the driver's Vec still has the ids of the part that was read.
