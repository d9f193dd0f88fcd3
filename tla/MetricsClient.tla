--------------------------- MODULE MetricsClient ---------------------------
(***************************************************************************)
(* The metrics client (crates/vtd-metrics/src/client.rs): the threads that *)
(* add records and flush, the owner that shuts the client down, and the    *)
(* worker thread that submits the queue.                                   *)
(*                                                                         *)
(* They share the record queue (a mutex), an unbounded channel of actions  *)
(* to the worker, a channel with ONE slot for the worker's acks, and the   *)
(* mutex around the receiving end of the ack channel.                      *)
(*                                                                         *)
(* Time is abstract: the worker's deadline is known by what set it, and    *)
(* `due' says that it has passed.                                          *)
(***************************************************************************)
EXTENDS MetricsSender

CONSTANTS
    Flushers,           \* the threads that call flush()
    NoFlusher,          \* the flush_rx mutex is free
    FlushMin,           \* 1_000: an add that reaches this length ...
    FlushStep,          \* 100: ... and a multiple of this one asks for a flush
    BackoffIntervals,   \* 5, the length of SUBMIT_BACKOFF_INTERVALS
    MaxRecords,         \* bound: no add by the threads from this number on
    MaxActions          \* bound: no flush() while this many actions are queued

ASSUME ClientAssumption ==
    /\ NoFlusher \notin Flushers
    /\ FlushMin \in Nat \ {0, 1} /\ FlushStep \in Nat \ {0}
    /\ BackoffIntervals \in Nat \ {0}
    /\ MaxRecords \in Nat \ {0} /\ MaxRecords + 3 < SeqModulus
    /\ MaxActions \in Nat

VARIABLES
    record_queue,       \* the RecordQueue
    worker_actions,     \* the worker action channel
    acks,               \* messages in the ack channel, at most its one slot
    flush_rx,           \* "alive" until shutdown() drops the receiver
    flush_rx_holder,    \* the flusher that holds the mutex of flush_rx
    flusher,            \* where each flusher is in flush()
    owner,              \* where the owner is in shutdown()
    worker,             \* where the worker is in worker_loop()
    report,             \* the records of the submission under way
    submit_error,       \* the error that enqueue_failed works on
    send_timer_mode, backoff_level, shutdown,       \* WorkerContext
    deadline, due,      \* what set send_deadline; whether it has passed
    process,            \* the process, which a blocked instance brings down
    acked, discarded    \* ghosts: numbers the server confirmed / given up

queueVars  == <<record_queue, discarded>>
timerVars  == <<send_timer_mode, backoff_level, deadline, due>>
workerVars == <<worker, report, submit_error, shutdown, timerVars>>
callVars   == <<flush_rx, flush_rx_holder, flusher, owner>>
vars == <<queueVars, workerVars, callVars, worker_actions, acks, process, acked>>

-----------------------------------------------------------------------------
(* States.                                                                 *)

Actions == {"FlushQueue", "FlushShutdown"}

FlusherPlaces == {"idle", "lock", "drain", "request", "recv"}

At(f, place) == flusher[f].at = place

OwnerStates == {"running", "drain", "add", "request", "wait", "done"}

WorkerStates ==
    {"recv", "submit", "send", "requeue", "ack", "final_ack", "ended"}

TypeOK ==
    /\ record_queue \in RecordQueues
    /\ worker_actions \in Seq(Actions)
    /\ acks \in 0..1
    /\ flush_rx \in {"alive", "dropped"}
    /\ flush_rx_holder \in Flushers \cup {NoFlusher}
    /\ flusher \in [Flushers -> [at : FlusherPlaces, blocking : BOOLEAN]]
    /\ owner \in OwnerStates
    /\ worker \in WorkerStates
    /\ report \in Seq(MetricsRecord)
    /\ submit_error \in SubmitErrors
    /\ send_timer_mode \in {"Normal", "Backoff", "BackoffForced"}
    /\ backoff_level \in 0..(BackoffIntervals - 1)
    /\ shutdown \in BOOLEAN
    /\ deadline \in {"interval", "backoff", "retry_delay"}
    /\ due \in BOOLEAN
    /\ process \in {"up", "blocked", "down"}
    /\ acked \subseteq Nat /\ discarded \subseteq Nat

\* MetricsClient::new: an empty queue, the worker waiting, the "startup"
\* record added before anyone else holds the client.
Init ==
    /\ record_queue = AddRecord(NewQueue, "record")
    /\ worker_actions = <<>>
    /\ acks = 0
    /\ flush_rx = "alive"
    /\ flush_rx_holder = NoFlusher
    /\ flusher = [f \in Flushers |-> [at |-> "idle", blocking |-> FALSE]]
    /\ owner = "running"
    /\ worker = "recv"
    /\ report = <<>>
    /\ submit_error = DefaultSubmitError
    /\ send_timer_mode = "Normal"
    /\ backoff_level = 0
    /\ shutdown = FALSE
    /\ deadline = "interval" /\ due = FALSE
    /\ process = "up"
    /\ acked = {} /\ discarded = {}

-----------------------------------------------------------------------------
(* Adding records: add_record of the client, under the queue's mutex,      *)
(* which the worker keeps while it puts a failed report back.              *)

QueueUnlocked == worker # "requeue"

WantsFlush(queue) ==
    /\ Len(queue.pending_entries) >= FlushMin
    /\ Len(queue.pending_entries) % FlushStep = 0

PushRecord ==
    /\ QueueUnlocked
    /\ record_queue' = AddRecord(record_queue, "record")
    /\ discarded' = discarded \cup SeqNos(Drained(record_queue.pending_entries))
    /\ worker_actions' = IF WantsFlush(record_queue')
                         THEN Append(worker_actions, "FlushQueue")
                         ELSE worker_actions

\* Any number of threads may add; one add is one critical section.
ClientAddRecord ==
    /\ process # "down"
    /\ owner = "running"
    /\ record_queue.entry_sequence_no < MaxRecords
    /\ PushRecord
    /\ UNCHANGED <<workerVars, callVars, acks, process, acked>>

-----------------------------------------------------------------------------
(* flush(): take the receiver's mutex, drain old acks, ask for a round and *)
(* wait for an ack when blocking.  The queue size that flush returns is    *)
(* read on the way out and changes nothing.                                *)

MoveFlusher(f, place) == flusher' = [flusher EXCEPT ![f].at = place]

FlushReturn(f) ==
    /\ flusher' = [flusher EXCEPT ![f] = [at |-> "idle", blocking |-> FALSE]]
    /\ flush_rx_holder' = NoFlusher

FlushCall(f) ==
    /\ owner = "running"
    /\ At(f, "idle")
    /\ Len(worker_actions) < MaxActions
    /\ \E blocking \in BOOLEAN :
           flusher' = [flusher EXCEPT ![f] = [at |-> "lock", blocking |-> blocking]]
    /\ UNCHANGED <<flush_rx_holder, acks, worker_actions>>

FlushLock(f) ==
    /\ At(f, "lock")
    /\ flush_rx_holder = NoFlusher
    /\ flush_rx_holder' = f
    /\ MoveFlusher(f, "drain")
    /\ UNCHANGED <<acks, worker_actions>>

FlushDrainOne(f) ==
    /\ At(f, "drain")
    /\ acks = 1
    /\ acks' = 0
    /\ UNCHANGED <<flusher, flush_rx_holder, worker_actions>>

\* Mutant: no loop before the request.
FlushWithoutDraining(f) ==
    /\ At(f, "drain")
    /\ MoveFlusher(f, "request")
    /\ UNCHANGED <<flush_rx_holder, acks, worker_actions>>

FlushDrained(f) ==
    /\ At(f, "drain")
    /\ acks = 0
    /\ MoveFlusher(f, "request")
    /\ UNCHANGED <<flush_rx_holder, acks, worker_actions>>

FlushRequest(f) ==
    /\ At(f, "request")
    /\ worker_actions' = Append(worker_actions, "FlushQueue")
    /\ IF flusher[f].blocking
       THEN MoveFlusher(f, "recv") /\ UNCHANGED flush_rx_holder
       ELSE FlushReturn(f)
    /\ UNCHANGED acks

FlushRecv(f) ==
    /\ At(f, "recv")
    /\ acks = 1
    /\ acks' = 0
    /\ FlushReturn(f)
    /\ UNCHANGED worker_actions

\* What the thread does by itself once it has called flush().
FlushStepOf(f) ==
    /\ process # "down"
    /\ \/ FlushLock(f) \/ FlushDrainOne(f) \/ FlushDrained(f)
       \/ FlushRequest(f) \/ FlushRecv(f)
    /\ UNCHANGED <<queueVars, workerVars, flush_rx, owner, process, acked>>

Flush(f) ==
    \/ FlushStepOf(f)
    \/ /\ process # "down"
       /\ FlushCall(f)
       /\ UNCHANGED <<queueVars, workerVars, flush_rx, owner, process, acked>>

-----------------------------------------------------------------------------
(* shutdown(), also run by Drop.  `&mut self' keeps every other call out.  *)

MoveOwner(from, to) == owner = from /\ owner' = to

ShutdownCall ==
    /\ MoveOwner("running", "drain")
    /\ \A f \in Flushers : At(f, "idle")
    /\ UNCHANGED <<queueVars, worker_actions, acks, flush_rx>>

ShutdownDrainOne ==
    /\ owner = "drain"
    /\ acks = 1
    /\ acks' = 0
    /\ UNCHANGED <<owner, queueVars, worker_actions, flush_rx>>

ShutdownDrained ==
    /\ MoveOwner("drain", "add")
    /\ acks = 0
    /\ UNCHANGED <<queueVars, worker_actions, acks, flush_rx>>

\* The "shutdown" record.
ShutdownAdd ==
    /\ MoveOwner("add", "request")
    /\ PushRecord
    /\ UNCHANGED <<acks, flush_rx>>

ShutdownRequest ==
    /\ MoveOwner("request", "wait")
    /\ worker_actions' = Append(worker_actions, "FlushShutdown")
    /\ UNCHANGED <<queueVars, acks, flush_rx>>

\* recv_timeout of 5 seconds, with an ack or without one; then the receiver
\* goes out of scope, and what its channel still holds with it.
ShutdownReturn ==
    /\ MoveOwner("wait", "done")
    /\ flush_rx' = "dropped"
    /\ acks' = 0
    /\ UNCHANGED <<queueVars, worker_actions>>

OwnerFrame ==
    /\ process # "down"
    /\ UNCHANGED <<workerVars, flush_rx_holder, flusher, process, acked>>

OwnerStep ==
    /\ \/ ShutdownDrainOne \/ ShutdownDrained \/ ShutdownAdd
       \/ ShutdownRequest \/ ShutdownReturn
    /\ OwnerFrame

Owner == OwnerStep \/ (ShutdownCall /\ OwnerFrame)

-----------------------------------------------------------------------------
(* The worker: worker_loop(), submit_queue() and handle_submit_result().   *)

MoveWorker(from, to) == worker = from /\ worker' = to

\* Mutant: a flush request ends every backoff.
RecvFlushAlways ==
    /\ worker_actions # <<>> /\ Head(worker_actions) = "FlushQueue"
    /\ MoveWorker("recv", "submit")
    /\ worker_actions' = Tail(worker_actions)
    /\ UNCHANGED <<queueVars, report, submit_error, shutdown, timerVars, acks, acked>>

\* recv_deadline: a queued action first, a timeout only on an empty channel.
\* (Disconnected cannot be seen: the senders go away after FlushShutdown.)
RecvFlushQueue ==
    /\ worker_actions # <<>> /\ Head(worker_actions) = "FlushQueue"
    /\ MoveWorker("recv", IF send_timer_mode = "BackoffForced" THEN "recv" ELSE "submit")
    /\ worker_actions' = Tail(worker_actions)
    /\ UNCHANGED <<queueVars, report, submit_error, shutdown, timerVars, acks, acked>>

\* Mutant: a forced backoff skips the shutdown request too.
RecvShutdownSkipped ==
    /\ worker_actions # <<>> /\ Head(worker_actions) = "FlushShutdown"
    /\ MoveWorker("recv", IF send_timer_mode = "BackoffForced" THEN "recv" ELSE "submit")
    /\ worker_actions' = Tail(worker_actions)
    /\ shutdown' = (send_timer_mode # "BackoffForced")
    /\ UNCHANGED <<queueVars, report, submit_error, timerVars, acks, acked>>

RecvFlushShutdown ==
    /\ worker_actions # <<>> /\ Head(worker_actions) = "FlushShutdown"
    /\ MoveWorker("recv", "submit")
    /\ worker_actions' = Tail(worker_actions)
    /\ shutdown' = TRUE
    /\ UNCHANGED <<queueVars, report, submit_error, timerVars, acks, acked>>

RecvTimeout ==
    /\ worker_actions = <<>> /\ due
    /\ MoveWorker("recv", "submit")
    /\ UNCHANGED <<queueVars, worker_actions, report, submit_error, shutdown,
                   timerVars, acks, acked>>

\* handle_submit_result.  backoff_level counts on for ever in the code; only
\* its remainder is ever used.
HandleQueueEmpty ==
    /\ deadline' = "interval" /\ due' = FALSE
    /\ UNCHANGED <<send_timer_mode, backoff_level>>

HandleSuccess ==
    /\ send_timer_mode' = "Normal"
    /\ UNCHANGED <<backoff_level, deadline, due>>

HandleBackoffServer ==
    /\ backoff_level' = 0
    /\ deadline' = "retry_delay" /\ due' = FALSE
    /\ send_timer_mode' = "BackoffForced"

HandleBackoffFailure ==
    /\ backoff_level' = (backoff_level + 1) % BackoffIntervals
    /\ deadline' = "backoff" /\ due' = FALSE
    /\ send_timer_mode' = "Backoff"

HandleFailure(error) ==
    IF error.retry_delay THEN HandleBackoffServer ELSE HandleBackoffFailure

\* Mutant: an empty queue goes back to waiting without an ack.
SubmitNothingSilently ==
    /\ MoveWorker("submit", IF shutdown THEN "ack" ELSE "recv")
    /\ record_queue.pending_entries = <<>>
    /\ HandleQueueEmpty
    /\ UNCHANGED <<queueVars, worker_actions, report, submit_error, shutdown, acks, acked>>

\* submit_queue: take a report off the queue ...
SubmitNothing ==
    /\ MoveWorker("submit", "ack")
    /\ record_queue.pending_entries = <<>>
    /\ HandleQueueEmpty
    /\ UNCHANGED <<queueVars, worker_actions, report, submit_error, shutdown, acks, acked>>

\* Mutant: the report is a copy, the queue keeps its records.
SubmitCopy ==
    /\ MoveWorker("submit", "send")
    /\ record_queue.pending_entries # <<>>
    /\ report' = Report(record_queue)
    /\ UNCHANGED <<queueVars, worker_actions, submit_error, shutdown, timerVars, acks, acked>>

SubmitReport ==
    /\ MoveWorker("submit", "send")
    /\ record_queue.pending_entries # <<>>
    /\ report' = Report(record_queue)
    /\ record_queue' = DequeueForReport(record_queue)
    /\ UNCHANGED <<discarded, worker_actions, submit_error, shutdown, timerVars, acks, acked>>

\* Mutant: a round is one report, not the whole queue.
SendSucceedsOnce ==
    /\ MoveWorker("send", "ack")
    /\ acked' = acked \cup SeqNos(report)
    /\ report' = <<>>
    /\ HandleSuccess
    /\ UNCHANGED <<queueVars, worker_actions, submit_error, shutdown, acks>>

\* ... send it, and deal with the answer.
SendSucceeds ==
    /\ MoveWorker("send", "submit")
    /\ acked' = acked \cup SeqNos(report)
    /\ report' = <<>>
    /\ HandleSuccess
    /\ UNCHANGED <<queueVars, worker_actions, submit_error, shutdown, acks>>

SendFailsForGood(error) ==
    /\ MoveWorker("send", "ack")
    /\ error.drop_records
    /\ discarded' = discarded \cup SeqNos(report)
    /\ report' = <<>>
    /\ HandleFailure(error)
    /\ UNCHANGED <<record_queue, worker_actions, submit_error, shutdown, acks, acked>>

SendFails(error) ==
    /\ MoveWorker("send", "requeue")
    /\ ~error.drop_records
    /\ submit_error' = error
    /\ UNCHANGED <<queueVars, worker_actions, report, shutdown, timerVars, acks, acked>>

Send ==
    \E outcome \in Outcomes :
        \/ /\ outcome \in OkOutcomes
           /\ SendSucceeds
           /\ process' = IF outcome = "InstanceBlocked" THEN "blocked" ELSE process
        \/ /\ outcome \notin OkOutcomes
           /\ \E error \in SubmitErrorsOf(outcome, report) :
                  SendFailsForGood(error) \/ SendFails(error)
           /\ UNCHANGED process

\* Mutant: records_submitted is not filtered out.
RequeueUnfiltered ==
    /\ worker = "requeue" /\ report # <<>>
    /\ report' = Front(report)
    /\ acked' = acked \cup ({Last(report).seq_no} \cap submit_error.records_submitted)
    /\ record_queue' = PushFront(record_queue, Last(report))
    /\ UNCHANGED <<worker, discarded, worker_actions, submit_error, shutdown, timerVars, acks>>

\* enqueue_failed, from the last record of the report to the first, with the
\* queue locked; the records the server named are filtered out.
RequeueEntry ==
    /\ worker = "requeue" /\ report # <<>>
    /\ report' = Front(report)
    /\ IF Last(report).seq_no \in submit_error.records_submitted
       THEN /\ acked' = acked \cup {Last(report).seq_no}
            /\ UNCHANGED record_queue
       ELSE /\ record_queue' = PushFront(record_queue, Last(report))
            /\ UNCHANGED acked
    /\ UNCHANGED <<worker, discarded, worker_actions, submit_error, shutdown, timerVars, acks>>

RequeueDone ==
    /\ MoveWorker("requeue", "ack") /\ report = <<>>
    /\ HandleFailure(submit_error)
    /\ submit_error' = DefaultSubmitError
    /\ UNCHANGED <<queueVars, worker_actions, report, shutdown, acks, acked>>

\* Mutant: an unbounded ack channel.
SendAckUnbounded ==
    /\ \/ flush_rx = "alive" /\ acks' = acks + 1
       \/ flush_rx = "dropped" /\ UNCHANGED acks
    /\ UNCHANGED <<queueVars, worker_actions, report, submit_error, shutdown,
                   timerVars, acked>>

\* flush_tx.send(()): waits for the slot while the receiver lives, and fails at
\* once, ignored, when it is gone.
SendAck ==
    /\ \/ flush_rx = "alive" /\ acks = 0 /\ acks' = 1
       \/ flush_rx = "dropped" /\ UNCHANGED acks
    /\ UNCHANGED <<queueVars, worker_actions, report, submit_error, shutdown,
                   timerVars, acked>>

Ack ==
    /\ MoveWorker("ack", IF shutdown THEN "final_ack" ELSE "recv")
    /\ SendAck

FinalAck ==
    /\ MoveWorker("final_ack", "ended")
    /\ SendAck

Worker ==
    /\ process # "down"
    /\ \/ /\ \/ RecvFlushQueue \/ RecvFlushShutdown \/ RecvTimeout
             \/ SubmitNothing \/ SubmitReport
             \/ RequeueEntry \/ RequeueDone
             \/ Ack \/ FinalAck
          /\ UNCHANGED process
       \/ Send
    /\ UNCHANGED callVars

-----------------------------------------------------------------------------
(* The environment, and the specification.                                 *)

\* The deadline is looked at while the worker waits, and nowhere else.
DeadlinePasses ==
    /\ process # "down"
    /\ worker = "recv" /\ ~due
    /\ due' = TRUE
    /\ UNCHANGED <<queueVars, worker, report, submit_error, shutdown, send_timer_mode,
                   backoff_level, deadline, callVars, worker_actions, acks, process, acked>>

\* The thread InstanceBlocked starts writes through a null pointer.
Crash ==
    /\ process = "blocked"
    /\ process' = "down"
    /\ UNCHANGED <<queueVars, workerVars, callVars, worker_actions, acks, acked>>

Stopped ==
    /\ process = "down" \/ (owner = "done" /\ worker = "ended")
    /\ UNCHANGED vars

Next ==
    \/ ClientAddRecord
    \/ \E f \in Flushers : Flush(f)
    \/ Owner
    \/ Worker
    \/ DeadlinePasses
    \/ Crash
    \/ Stopped

Spec == Init /\ [][Next]_vars

\* Threads that can run do, time passes, an HTTP request ends.  The exits of
\* the two try_recv loops are strongly fair: the worker needs seconds for a
\* round, the loops no time at all.  Nobody has to call anything.
Fairness ==
    /\ WF_vars(Worker)
    /\ WF_vars(DeadlinePasses)
    /\ WF_vars(OwnerStep)
    /\ SF_vars(ShutdownDrained /\ OwnerFrame)
    /\ \A f \in Flushers :
           /\ WF_vars(FlushStepOf(f))
           /\ SF_vars(FlushStepOf(f) /\ FlushDrained(f))

FairSpec == Spec /\ Fairness

-----------------------------------------------------------------------------
(* Safety.                                                                 *)

\* Every record the client still answers for, oldest first.
Held == report \o record_queue.pending_entries

\* Every number given out belongs to a record that is still held, that the
\* server confirmed, or that the client gave up on purpose: between
\* dequeue_for_report, the submission and enqueue_failed no record slips away.
NoRecordLost ==
    1..record_queue.entry_sequence_no = SeqNos(Held) \cup acked \cup discarded

\* A record the server confirmed, alone or in records_submitted, is not held
\* any more and so never sent again; a dropped one does not come back either;
\* and none is both.
NoRecordResent ==
    /\ SeqNos(Held) \cap (acked \cup discarded) = {}
    /\ acked \cap discarded = {}

\* Records are held, and so reported, in the order of their numbers, with the
\* one inversion add_record makes: a metrics-dropped note stands before the
\* record whose add wrote it.  No number is held twice.
InOrder(entries) ==
    \A i, j \in DOMAIN entries : i < j =>
        \/ entries[i].seq_no < entries[j].seq_no
        \/ /\ entries[i].report_type = "metrics-dropped"
           /\ entries[i].seq_no = entries[j].seq_no + 1

HeldInOrder == InOrder(Held)

\* The limit in add_record bounds what the client holds although
\* enqueue_failed has none: at most one report above it.  A drain therefore
\* always makes room, and the note that add_record adds never drains again.
QueueBounded ==
    /\ Len(Held) <= QueueLimit + 1 + ReportMaxRecords
    /\ Overfull(record_queue.pending_entries) =>
           ~Overfull(Drain(record_queue.pending_entries))

\* While a delay the server asked for is running, neither a flush nor a long
\* queue makes the worker send; only shutdown does.
RetryDelayRespected ==
    worker \in {"submit", "send"} /\ deadline = "retry_delay" /\ ~due => shutdown

\* A worker that has ended without a failure in its last round has submitted
\* everything, the shutdown record and what was added before it included.
EndsDrained ==
    worker = "ended" /\ send_timer_mode = "Normal" => Held = <<>>

-----------------------------------------------------------------------------
(* What makes the safety properties inductive.                             *)

\* Only a submission under way holds records outside the queue.
ReportInFlight ==
    worker \notin {"send", "requeue"} => report = <<>>

\* A report is small, and while it is out the queue alone obeys the limit in
\* add_record, so that the report still fits when it comes back.
HeldBounded ==
    /\ Len(report) <= ReportMaxRecords
    /\ Len(report) + Len(record_queue.pending_entries)
         <= QueueLimit + 1 + ReportMaxRecords
    /\ worker = "send" => Len(record_queue.pending_entries) <= QueueLimit + 1

\* The bound on the model keeps the numbers below the modulus of u32.
NumbersBounded ==
    record_queue.entry_sequence_no <=
        MaxRecords + (IF owner \in {"request", "wait", "done"} THEN 3 ELSE 1)

\* A delay that is running goes with the forced mode, and with a worker that
\* waits or is about to; an exception is the round that shutdown asked for.
RetryDelayForces ==
    deadline = "retry_delay" /\ ~due /\ ~shutdown =>
        send_timer_mode = "BackoffForced" /\ worker \in {"recv", "ack"}

\* The worker ends only because the owner asked for it, after its last add; and
\* the round it ends with leaves nothing behind, or a backoff.
EndRequested ==
    /\ \A i \in DOMAIN worker_actions :
           worker_actions[i] = "FlushShutdown" => owner \in {"wait", "done"}
    /\ shutdown => owner \in {"wait", "done"}
    /\ worker \in {"final_ack", "ended"} => shutdown
    /\ shutdown /\ worker \in {"ack", "final_ack", "ended"} /\ send_timer_mode = "Normal" =>
           Held = <<>>

\* A submission carries records.
ReportNotEmpty == worker = "send" => report # <<>>

-----------------------------------------------------------------------------
(* Refinement.                                                             *)

Delivery == INSTANCE MetricsDelivery WITH
    Capacity <- QueueLimit,
    BatchMax <- ReportMaxRecords,
    issued   <- record_queue.entry_sequence_no,
    open     <- SeqNos(Held)

\* The client implements MetricsDelivery: each of its steps is one of the
\* abstract steps or changes nothing there.  A verdict on a record is final,
\* and a submission settles only records it carried.
ImplementsDelivery == Delivery!Spec

-----------------------------------------------------------------------------
(* Liveness, under FairSpec and the driver's DriverFairSpec.               *)

\* A flush that has the receiver gets out, in a forced backoff and with a
\* failing server too.
FlushReturns ==
    \A f \in Flushers :
        flush_rx_holder = f ~> flush_rx_holder # f \/ process = "down"

\* shutdown() leads to the end of the worker, also when it gave up waiting.
ShutdownEndsWorker ==
    owner = "wait" ~> worker = "ended" \/ process = "down"

\* A worker stuck on the full ack channel is set free by any flush, blocking
\* or not, unless a shutdown that follows drops the channel before it moves.
FlushFreesWorker ==
    \A f \in Flushers :
        worker = "ack" /\ At(f, "drain") ~>
            worker # "ack" \/ flush_rx = "dropped" \/ process = "down"

-----------------------------------------------------------------------------
(* What comments say, and the code does not do.                            *)

\* "The record will be processed or submitted asynchronously".
RecordsSubmitted ==
    \A n \in 1..MaxRecords :
        n \in SeqNos(Held) ~> n \notin SeqNos(Held) \/ process = "down"

\* "We're on a force backoff. Nothing we can do.": a flush request is thrown
\* away only under a delay the server asked for.
ForcedBackoffIsTheServers ==
    [][worker = "recv" /\ worker' = "recv" /\ worker_actions' # worker_actions
        /\ Len(worker_actions') < Len(worker_actions) => deadline = "retry_delay"]_vars
=============================================================================
