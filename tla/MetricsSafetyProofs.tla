------------------------ MODULE MetricsSafetyProofs ------------------------
(***************************************************************************)
(* Proofs of the safety properties of MetricsClient, and that the client   *)
(* implements MetricsDelivery.  Each property follows from an inductive    *)
(* invariant whose parts MetricsClient states.                             *)
(*                                                                         *)
(* Order is what the second half rests on.  Records in order have          *)
(* different numbers, so what leaves the client is apart from what it      *)
(* keeps, and the verdict on a record is final.                            *)
(***************************************************************************)
EXTENDS MetricsClientProofs, FiniteSetTheorems

\* What a step does to the records and to the worker: an add by a thread or by
\* shutdown(), a step of the worker, or something that leaves them alone.
LEMMA StepCases ==
    ASSUME [Next]_vars
    PROVE  \/ /\ PushRecord
              /\ UNCHANGED <<workerVars, acked>>
              /\ \/ /\ owner' = "running"
                    /\ record_queue.entry_sequence_no < MaxRecords
                 \/ owner = "add" /\ owner' = "request"
           \/ Worker /\ UNCHANGED owner
           \/ /\ UNCHANGED <<queueVars, worker, report, submit_error, shutdown, acked,
                             send_timer_mode, backoff_level, deadline>>
              /\ due' = due \/ due'
              /\ owner \in {"request", "wait", "done"} =>
                     owner' \in {"request", "wait", "done"}
              /\ owner' \in {"request", "wait", "done"} =>
                     owner \in {"request", "wait", "done"}
<1> USE DEF queueVars, workerVars, timerVars, callVars
<1>1. CASE ClientAddRecord
  BY <1>1 DEF ClientAddRecord
<1>2. ASSUME NEW f \in Flushers, Flush(f)
      PROVE  UNCHANGED <<queueVars, workerVars, acked, owner>>
  BY <1>2 DEF Flush, FlushStepOf
<1>3. CASE Owner
  <2> USE DEF MoveOwner, OwnerFrame
  <2>1. CASE ShutdownAdd /\ OwnerFrame
    BY <2>1 DEF ShutdownAdd
  <2>2. CASE (ShutdownCall \/ ShutdownDrainOne \/ ShutdownDrained) /\ OwnerFrame
    BY <2>2 DEF ShutdownCall, ShutdownDrainOne, ShutdownDrained
  <2>3. CASE (ShutdownRequest \/ ShutdownReturn) /\ OwnerFrame
    BY <2>3 DEF ShutdownRequest, ShutdownReturn
  <2>4. QED  BY <1>3, <2>1, <2>2, <2>3 DEF Owner, OwnerStep
<1>4. CASE Worker
  BY <1>4 DEF Worker
<1>5. CASE DeadlinePasses
  BY <1>5 DEF DeadlinePasses
<1>6. CASE Crash
  BY <1>6 DEF Crash
<1>7. CASE UNCHANGED vars
  BY <1>7 DEF vars
<1>8. QED
  BY <1>1, <1>2, <1>3, <1>4, <1>5, <1>6, <1>7 DEF Next, Stopped

\* The steps of the worker, for proofs by cases.
LEMMA WorkerCases ==
    ASSUME Worker
    PROVE  \/ RecvFlushQueue \/ RecvFlushShutdown \/ RecvTimeout
           \/ SubmitNothing \/ SubmitReport
           \/ SendSucceeds
           \/ \E outcome \in Outcomes : \E error \in SubmitErrorsOf(outcome, report) :
                 SendFailsForGood(error) \/ SendFails(error)
           \/ RequeueEntry \/ RequeueDone
           \/ Ack \/ FinalAck
<1>1. CASE Send
  BY <1>1 DEF Send
<1>2. CASE ~Send
  BY <1>2 DEF Worker
<1>3. QED  BY <1>1, <1>2

-----------------------------------------------------------------------------
(* The queue stays bounded.                                                *)

\* The invariant behind QueueBounded: what is held, in the queue and in flight.
BoundInv == TypeOK /\ ReportInFlight /\ HeldBounded

\* The lengths that the invariant compares.
LEMMA Lengths ==
    ASSUME TypeOK
    PROVE  /\ record_queue.pending_entries \in Seq(MetricsRecord)
           /\ Len(record_queue.pending_entries) \in Nat
           /\ Len(report) \in Nat
           /\ report # <<>> => Len(report) > 0
           /\ Held \in Seq(MetricsRecord)
           /\ Len(Held) = Len(report) + Len(record_queue.pending_entries)
<1>1. /\ record_queue.pending_entries \in Seq(MetricsRecord)
      /\ report \in Seq(MetricsRecord)
  BY DEF TypeOK, RecordQueues
<1>2. /\ Len(record_queue.pending_entries) \in Nat
      /\ Len(report) \in Nat
      /\ report # <<>> => Len(report) \in Nat \ {0}
  BY <1>1, LenProperties, EmptySeq
<1>3. Held \in Seq(MetricsRecord) /\ Len(Held) = Len(report) + Len(record_queue.pending_entries)
  BY <1>1, ConcatProperties DEF Held
<1>4. QED  BY <1>1, <1>2, <1>3

\* Adding, dequeuing and putting a report back keep the bounds.
LEMMA BoundStep == BoundInv /\ TypeOK' /\ [Next]_vars => BoundInv'
<1> SUFFICES ASSUME BoundInv, TypeOK', [Next]_vars
             PROVE  ReportInFlight' /\ HeldBounded'
  BY DEF BoundInv
<1> DEFINE s == record_queue.pending_entries
           L == QueueLimit + 1
           b == ReportMaxRecords
<1>1. /\ s \in Seq(MetricsRecord) /\ Len(s) \in Nat /\ Len(report) \in Nat
      /\ report \in Seq(MetricsRecord)
      /\ record_queue \in RecordQueues
      /\ L \in Nat /\ b \in Nat
  BY Lengths, QueueAssumption DEF BoundInv, TypeOK
<1>2. /\ Len(report) <= b
      /\ Len(report) + Len(s) <= L + b
      /\ worker = "send" => Len(s) <= L
      /\ worker \notin {"send", "requeue"} => report = <<>>
  BY DEF BoundInv, HeldBounded, ReportInFlight
<1> USE DEF MoveWorker, queueVars, timerVars
<1>3. CASE PushRecord /\ UNCHANGED workerVars
  <2>1. /\ Overfull(s) => Len(s') = Len(s) - (DropTo - DropFrom) + 2
        /\ ~Overfull(s) => Len(s') = Len(s) + 1
    BY <1>1, <1>3, AddRecordProperties DEF PushRecord, ReportTypes
  <2>2. Len(s') <= Len(s) \/ Len(s') <= L
    BY <1>1, <2>1, QueueAssumption DEF Overfull
  <2>3. Len(s') \in Nat
    BY Lengths, <1>1, <2>1, QueueAssumption DEF Overfull
  <2>4. UNCHANGED <<report, worker>>
    BY <1>3 DEF workerVars
  <2>5. worker = "send" \/ report = <<>>
    BY <1>2, <1>3 DEF PushRecord, QueueUnlocked
  <2>6. Len(report) + Len(s') <= L + b
    <3>1. CASE Len(s') <= Len(s)
      BY <1>1, <1>2, <2>3, <3>1
    <3>2. CASE Len(s') <= L
      BY <1>1, <1>2, <2>3, <3>2
    <3>3. QED  BY <2>2, <3>1, <3>2
  <2>7. worker = "send" => Len(s') <= L
    BY <1>1, <1>2, <2>2, <2>3
  <2>8. QED  BY <1>2, <2>4, <2>6, <2>7 DEF ReportInFlight, HeldBounded
<1>4. CASE Worker
  <2>1. CASE RecvFlushQueue \/ RecvFlushShutdown \/ RecvTimeout \/ SubmitNothing
    <3>1. UNCHANGED <<record_queue, report>> /\ worker' \notin {"send", "requeue"}
      BY <2>1 DEF RecvFlushQueue, RecvFlushShutdown, RecvTimeout, SubmitNothing
    <3>2. worker \notin {"send", "requeue"}
      BY <2>1 DEF RecvFlushQueue, RecvFlushShutdown, RecvTimeout, SubmitNothing
    <3>3. QED  BY <1>2, <3>1, <3>2 DEF ReportInFlight, HeldBounded
  <2>2. CASE SubmitReport
    <3>1. /\ Len(report') <= b
          /\ Len(report') + Len(s') = Len(s)
          /\ s' # <<>> => Len(report') = b
      BY <1>1, <2>2, DequeueProperties DEF SubmitReport
    <3>2. Len(report') \in Nat /\ Len(s') \in Nat /\ (s' = <<>> => Len(s') = 0)
      <4>1. report' \in Seq(MetricsRecord) /\ s' \in Seq(MetricsRecord)
        BY DEF TypeOK, RecordQueues
      <4>2. QED  BY <4>1, LenProperties, EmptySeq
    <3>3. Len(s) <= L + b
      BY <1>1, <1>2
    <3>4. Len(s') <= L
      BY <1>1, <3>1, <3>2, <3>3
    <3>5. worker' = "send"
      BY <2>2 DEF SubmitReport
    <3>6. Len(report') + Len(s') <= L + b
      BY <3>1, <3>3
    <3>7. QED  BY <3>1, <3>4, <3>5, <3>6 DEF ReportInFlight, HeldBounded
  <2>3. CASE SendSucceeds \/ \E error : SendFailsForGood(error)
    <3>1. report' = <<>> /\ UNCHANGED record_queue /\ worker' \in {"submit", "ack"}
      BY <2>3 DEF SendSucceeds, SendFailsForGood
    <3>2. Len(report') = 0
      BY <3>1
    <3>3. Len(report') + Len(s') <= L + b
      BY <1>1, <1>2, <3>1, <3>2
    <3>4. Len(report') <= b
      BY <1>1, <3>2
    <3>5. QED  BY <3>1, <3>3, <3>4 DEF ReportInFlight, HeldBounded
  <2>4. CASE \E error : SendFails(error)
    <3>1. UNCHANGED <<record_queue, report>> /\ worker' = "requeue"
      BY <2>4 DEF SendFails
    <3>2. QED  BY <1>2, <3>1 DEF ReportInFlight, HeldBounded
  <2>5. CASE RequeueEntry
    <3>1. /\ Last(report) \in MetricsRecord
          /\ Len(Front(report)) = Len(report) - 1
      BY <1>1, <2>5, FrontLast DEF RequeueEntry
    <3>2. report' = Front(report) /\ worker' = "requeue"
      BY <2>5 DEF RequeueEntry
    <3>3. Len(s') = Len(s) \/ Len(s') = Len(s) + 1
      <4>1. record_queue' = record_queue
              \/ record_queue' = PushFront(record_queue, Last(report))
        BY <2>5 DEF RequeueEntry
      <4>2. QED  BY <1>1, <3>1, <4>1, PushFrontProperties
    <3>4. Len(report') <= b /\ Len(report') + Len(s') <= L + b
      BY <1>1, <1>2, <3>1, <3>2, <3>3
    <3>5. QED  BY <3>2, <3>4 DEF ReportInFlight, HeldBounded
  <2>6. CASE RequeueDone \/ Ack \/ FinalAck
    <3>1. /\ UNCHANGED <<record_queue, report>>
          /\ worker' \notin {"send", "requeue"}
          /\ report = <<>>
      BY <1>2, <2>6 DEF RequeueDone, Ack, FinalAck, SendAck
    <3>2. QED  BY <1>2, <3>1 DEF ReportInFlight, HeldBounded
  <2>7. QED
    BY <1>4, <2>1, <2>2, <2>3, <2>4, <2>5, <2>6, WorkerCases
<1>5. CASE UNCHANGED <<record_queue, worker, report>>
  BY <1>2, <1>5 DEF ReportInFlight, HeldBounded
<1>6. QED
  BY <1>3, <1>4, <1>5, StepCases

\* The new queue is far below its bounds.
LEMMA InitBound == Init => BoundInv
<1> SUFFICES ASSUME Init PROVE BoundInv
  OBVIOUS
<1>1. /\ Len(record_queue.pending_entries) = 1
      /\ report = <<>> /\ Len(report) = 0 /\ worker = "recv"
  BY InitialQueue DEF Init
<1>2. ReportInFlight /\ HeldBounded
  BY <1>1, QueueAssumption DEF ReportInFlight, HeldBounded
<1>3. QED  BY <1>2, InitTypeOK DEF BoundInv

\* The limit in add_record bounds the client although enqueue_failed ignores
\* it, and one drain always makes room: the recursion in add_record ends.
THEOREM QueueStaysBounded == Spec => []QueueBounded
<1>1. BoundInv => QueueBounded
  <2> SUFFICES ASSUME BoundInv PROVE QueueBounded
    OBVIOUS
  <2> DEFINE s == record_queue.pending_entries
  <2>1. /\ s \in Seq(MetricsRecord) /\ Len(s) \in Nat /\ Len(report) \in Nat
        /\ Len(Held) = Len(report) + Len(s)
    BY Lengths DEF BoundInv
  <2>2. Len(report) + Len(s) <= QueueLimit + 1 + ReportMaxRecords
    BY DEF BoundInv, HeldBounded
  <2>3. ASSUME Overfull(s) PROVE ~Overfull(Drain(s))
    <3>1. Len(Drain(s)) = Len(s) - (DropTo - DropFrom)
      BY <2>1, <2>3, DrainProperties
    <3>2. Len(Drain(s)) <= QueueLimit
      BY <2>1, <2>2, <3>1, QueueAssumption
    <3>3. QED  BY <2>1, <3>1, <3>2, QueueAssumption DEF Overfull
  <2>4. QED  BY <2>1, <2>2, <2>3 DEF QueueBounded
<1>2. QED  BY <1>1, InitBound, BoundStep, TypeCorrect, PTL DEF Spec

-----------------------------------------------------------------------------
(* A delay the server asked for.                                           *)

\* A step starts a delay only in forced mode, and leaves that mode only when
\* the delay is over or shutdown asked for a round.
LEMMA RetryStep == RetryDelayForces /\ [Next]_vars => RetryDelayForces'
<1> SUFFICES ASSUME RetryDelayForces, [Next]_vars PROVE RetryDelayForces'
  OBVIOUS
<1> USE DEF RetryDelayForces, MoveWorker, timerVars
<1>1. CASE UNCHANGED workerVars
  BY <1>1 DEF workerVars
<1>2. CASE Worker
  <2>1. CASE RecvFlushQueue \/ RecvFlushShutdown \/ RecvTimeout
    BY <2>1 DEF RecvFlushQueue, RecvFlushShutdown, RecvTimeout
  <2>2. CASE SubmitNothing
    BY <2>2 DEF SubmitNothing, HandleQueueEmpty
  <2>3. CASE SubmitReport
    BY <2>3 DEF SubmitReport
  <2>4. CASE SendSucceeds
    BY <2>4 DEF SendSucceeds, HandleSuccess
  <2>5. ASSUME NEW error, SendFailsForGood(error) PROVE RetryDelayForces'
    BY <2>5 DEF SendFailsForGood, HandleFailure, HandleBackoffServer, HandleBackoffFailure
  <2>6. ASSUME NEW error, SendFails(error) PROVE RetryDelayForces'
    BY <2>6 DEF SendFails
  <2>7. CASE RequeueEntry
    BY <2>7 DEF RequeueEntry
  <2>8. CASE RequeueDone
    BY <2>8 DEF RequeueDone, HandleFailure, HandleBackoffServer, HandleBackoffFailure
  <2>9. CASE Ack \/ FinalAck
    BY <2>9 DEF Ack, FinalAck, SendAck
  <2>10. QED
    BY <1>2, <2>1, <2>2, <2>3, <2>4, <2>5, <2>6, <2>7, <2>8, <2>9, WorkerCases
<1>3. CASE /\ UNCHANGED <<worker, shutdown, send_timer_mode, deadline>>
           /\ due' = due \/ due'
  BY <1>3
<1>4. QED
  BY <1>1, <1>2, <1>3, StepCases

\* While the server's delay runs no report leaves, save in the round that
\* shutdown asked for.
THEOREM RetryDelayIsRespected == Spec => []RetryDelayRespected
<1>1. Init => RetryDelayForces
  BY DEF Init, RetryDelayForces
<1>2. RetryDelayForces /\ [Next]_vars => RetryDelayForces'
  BY RetryStep
<1>3. RetryDelayForces => RetryDelayRespected
  BY DEF RetryDelayForces, RetryDelayRespected
<1>4. QED  BY <1>1, <1>2, <1>3, PTL DEF Spec

-----------------------------------------------------------------------------
(* No record is lost.                                                      *)

\* The invariant behind NoRecordLost: no report without a submission, and
\* numbers that have not wrapped.
AccountInv == TypeOK /\ ReportInFlight /\ NumbersBounded /\ NoRecordLost

\* The numbers held are those of the report and those of the queue.
LEMMA HeldSeqNos ==
    ASSUME TypeOK
    PROVE  /\ record_queue.pending_entries \in Seq(MetricsRecord)
           /\ report \in Seq(MetricsRecord)
           /\ SeqNos(Held) = SeqNos(report) \cup SeqNos(record_queue.pending_entries)
<1>1. /\ record_queue.pending_entries \in Seq(MetricsRecord)
      /\ report \in Seq(MetricsRecord)
  BY DEF TypeOK, RecordQueues
<1>2. QED  BY <1>1, SeqNosConcat DEF Held

\* An add gives out the next numbers, and what it drains is discarded.
LEMMA PushAccounts ==
    ASSUME AccountInv, TypeOK', PushRecord, UNCHANGED <<workerVars, acked>>,
           \/ /\ owner' = "running"
              /\ record_queue.entry_sequence_no < MaxRecords
           \/ owner = "add" /\ owner' = "request"
    PROVE  AccountInv'
<1> DEFINE q == record_queue
           n == q.entry_sequence_no
           m == q'.entry_sequence_no
           s == q.pending_entries
<1>1. /\ q \in RecordQueues /\ n \in Nat /\ m \in Nat
      /\ MaxRecords \in Nat /\ MaxRecords + 3 < SeqModulus
      /\ n <= MaxRecords + 1
    BY ClientAssumption, QueueAssumption DEF AccountInv, TypeOK, RecordQueues, NumbersBounded
<1>2. /\ m \in {n + 1, n + 2}
      /\ SeqNos(q'.pending_entries) \cup SeqNos(Drained(s))
            = SeqNos(s) \cup (n + 1)..m
  <2>1. n + 2 < SeqModulus
    BY <1>1, QueueAssumption
  <2>2. QED  BY <1>1, <2>1, AddRecordSeqNos DEF PushRecord, ReportTypes
<1>3. NumbersBounded'
  <2>1. CASE owner' = "running" /\ n < MaxRecords
    <3>1. m <= MaxRecords + 1
      BY <1>1, <1>2, <2>1
    <3>2. QED  BY <2>1, <3>1 DEF NumbersBounded
  <2>2. CASE owner' = "request"
    <3>1. m <= MaxRecords + 3
      BY <1>1, <1>2
    <3>2. QED  BY <2>2, <3>1 DEF NumbersBounded
  <2>3. QED  BY <2>1, <2>2
<1>4. ReportInFlight' /\ report' = report /\ acked' = acked
  BY DEF AccountInv, ReportInFlight, workerVars
<1>5. NoRecordLost'
  <2>1. 1..m = 1..n \cup (n + 1)..m
    BY <1>1, <1>2
  <2>2. 1..n = SeqNos(report) \cup SeqNos(s) \cup acked \cup discarded
    BY HeldSeqNos DEF AccountInv, NoRecordLost
  <2>3. discarded' = discarded \cup SeqNos(Drained(s))
    BY DEF PushRecord
  <2>4. SeqNos(Held)' = SeqNos(report) \cup SeqNos(q'.pending_entries)
    <3>1. SeqNos(Held)' = SeqNos(report') \cup SeqNos(q'.pending_entries)
      <4>1. /\ q'.pending_entries \in Seq(MetricsRecord)
            /\ report' \in Seq(MetricsRecord)
        BY DEF TypeOK, RecordQueues
      <4>2. QED  BY <4>1, SeqNosConcat DEF Held
    <3>2. QED  BY <1>4, <3>1
  <2>5. 1..m = SeqNos(Held)' \cup acked' \cup discarded'
    <3> HIDE DEF q, n, m, s
    <3>1. SeqNos(report) \cup SeqNos(s) \cup (n + 1)..m \cup acked \cup discarded
            = SeqNos(report) \cup SeqNos(q'.pending_entries) \cup acked
                \cup (discarded \cup SeqNos(Drained(s)))
      BY <1>2
    <3>2. QED  BY <1>4, <2>1, <2>2, <2>3, <2>4, <3>1
  <2>6. QED  BY <2>5 DEF NoRecordLost
<1>6. QED  BY <1>3, <1>4, <1>5 DEF AccountInv

\* Every step moves numbers between held, confirmed and given up, or adds new.
LEMMA AccountStep == AccountInv /\ TypeOK' /\ [Next]_vars => AccountInv'
<1> SUFFICES ASSUME AccountInv, TypeOK', [Next]_vars PROVE AccountInv'
  OBVIOUS
<1> DEFINE s == record_queue.pending_entries
           n == record_queue.entry_sequence_no
<1>1. /\ s \in Seq(MetricsRecord) /\ report \in Seq(MetricsRecord)
      /\ record_queue \in RecordQueues
      /\ 1..n = SeqNos(Held) \cup acked \cup discarded
      /\ SeqNos(Held) = SeqNos(report) \cup SeqNos(s)
      /\ worker \notin {"send", "requeue"} => report = <<>>
  BY HeldSeqNos DEF AccountInv, TypeOK, NoRecordLost, ReportInFlight
<1>2. /\ s' \in Seq(MetricsRecord) /\ report' \in Seq(MetricsRecord)
      /\ SeqNos(Held)' = SeqNos(report') \cup SeqNos(s')
  <2>1. s' \in Seq(MetricsRecord) /\ report' \in Seq(MetricsRecord)
    BY DEF TypeOK, RecordQueues
  <2>2. QED  BY <2>1, SeqNosConcat DEF Held
<1>3. SeqNos(<<>>) = {}
  BY DEF SeqNos
<1> USE DEF MoveWorker, queueVars
<1>4. ASSUME Worker, UNCHANGED owner PROVE AccountInv'
  <2>1. SUFFICES /\ ReportInFlight'
                 /\ n' = n
                 /\ SeqNos(Held)' \cup acked' \cup discarded'
                      = SeqNos(Held) \cup acked \cup discarded
    BY <1>1, <1>4 DEF AccountInv, NumbersBounded, NoRecordLost
  <2>2. CASE RecvFlushQueue \/ RecvFlushShutdown \/ RecvTimeout \/ SubmitNothing
                \/ RequeueDone \/ Ack \/ FinalAck
    <3>1. /\ UNCHANGED <<record_queue, report, acked, discarded>>
          /\ worker' \notin {"send", "requeue"} /\ report = <<>>
      BY <1>1, <2>2 DEF RecvFlushQueue, RecvFlushShutdown, RecvTimeout, SubmitNothing,
                        RequeueDone, Ack, FinalAck, SendAck
    <3>2. QED  BY <3>1 DEF ReportInFlight, Held
  <2>3. CASE SubmitReport
    <3>1. /\ worker' = "send" /\ report = <<>>
          /\ report' = Report(record_queue)
          /\ record_queue' = DequeueForReport(record_queue)
          /\ UNCHANGED <<acked, discarded>>
      BY <1>1, <2>3 DEF SubmitReport
    <3>2. report' \o s' = s /\ n' = n
      BY <1>1, <3>1, DequeueProperties
    <3>3. SeqNos(Held)' = SeqNos(s)
      BY <3>2 DEF Held
    <3>4. SeqNos(Held) = SeqNos(s)
      BY <1>1, <1>3, <3>1
    <3>5. QED  BY <3>1, <3>2, <3>3, <3>4 DEF ReportInFlight
  <2>4. CASE SendSucceeds
    <3>1. /\ worker' = "submit" /\ report' = <<>>
          /\ acked' = acked \cup SeqNos(report)
          /\ UNCHANGED <<record_queue, discarded>>
      BY <2>4 DEF SendSucceeds
    <3>2. SeqNos(Held)' = SeqNos(s)
      BY <1>2, <1>3, <3>1
    <3>3. QED  BY <1>1, <3>1, <3>2 DEF ReportInFlight
  <2>5. ASSUME NEW error, SendFailsForGood(error)
        PROVE  /\ ReportInFlight'
               /\ n' = n
               /\ SeqNos(Held)' \cup acked' \cup discarded'
                    = SeqNos(Held) \cup acked \cup discarded
    <3>1. /\ worker' = "ack" /\ report' = <<>>
          /\ discarded' = discarded \cup SeqNos(report)
          /\ UNCHANGED <<record_queue, acked>>
      BY <2>5 DEF SendFailsForGood
    <3>2. SeqNos(Held)' = SeqNos(s)
      BY <1>2, <1>3, <3>1
    <3>3. QED  BY <1>1, <3>1, <3>2 DEF ReportInFlight
  <2>6. ASSUME NEW error, SendFails(error)
        PROVE  /\ ReportInFlight'
               /\ n' = n
               /\ SeqNos(Held)' \cup acked' \cup discarded'
                    = SeqNos(Held) \cup acked \cup discarded
    <3>1. worker' = "requeue" /\ UNCHANGED <<record_queue, report, acked, discarded>>
      BY <2>6 DEF SendFails
    <3>2. QED  BY <3>1 DEF ReportInFlight, Held
  <2>7. CASE RequeueEntry
    <3> DEFINE last == Last(report)
               front == Front(report)
    <3>1. /\ last \in MetricsRecord /\ front \in Seq(MetricsRecord)
          /\ report = front \o <<last>>
      BY <1>1, <2>7, FrontLast DEF RequeueEntry
    <3>2. /\ worker' = "requeue" /\ report' = front /\ UNCHANGED discarded
          /\ \/ UNCHANGED record_queue /\ acked' = acked \cup {last.seq_no}
             \/ record_queue' = PushFront(record_queue, last) /\ UNCHANGED acked
      BY <2>7 DEF RequeueEntry
    <3> HIDE DEF last, front
    <3>3. SeqNos(<<last>>) = {last.seq_no} /\ <<last>> \in Seq(MetricsRecord)
      <4>1. SeqNos(<<last>>) = {last.seq_no}
        BY <3>1, SeqNosShort
      <4>2. <<last>> \in Seq(MetricsRecord)
        BY <3>1
      <4>3. QED  BY <4>1, <4>2
    <3>4. SeqNos(report) = SeqNos(front) \cup {last.seq_no}
      <4>1. SeqNos(front \o <<last>>) = SeqNos(front) \cup SeqNos(<<last>>)
        BY <3>1, <3>3, SeqNosConcat
      <4>2. QED  BY <3>1, <3>3, <4>1
    <3>5. CASE UNCHANGED record_queue /\ acked' = acked \cup {last.seq_no}
      <4>1. SeqNos(Held)' = SeqNos(front) \cup SeqNos(s)
        BY <1>2, <3>2, <3>5
      <4>2. QED  BY <1>1, <3>2, <3>4, <3>5, <4>1 DEF ReportInFlight
    <3>6. CASE record_queue' = PushFront(record_queue, last) /\ UNCHANGED acked
      <4>1. n' = n /\ front \o s' = (front \o <<last>>) \o s
        BY <1>1, <3>1, <3>6, PushFrontProperties
      <4>2. SeqNos(Held)' = SeqNos(Held)
        BY <3>1, <3>2, <4>1 DEF Held
      <4>3. QED  BY <3>2, <3>6, <4>1, <4>2 DEF ReportInFlight
    <3>7. QED  BY <3>2, <3>5, <3>6
  <2>8. QED
    BY <1>4, <2>2, <2>3, <2>4, <2>5, <2>6, <2>7, WorkerCases
<1>5. ASSUME /\ UNCHANGED <<queueVars, worker, report, acked>>
             /\ owner \in {"request", "wait", "done"} =>
                    owner' \in {"request", "wait", "done"}
             /\ owner' \in {"request", "wait", "done"} =>
                    owner \in {"request", "wait", "done"}
      PROVE  AccountInv'
  BY <1>1, <1>5 DEF AccountInv, ReportInFlight, NumbersBounded, NoRecordLost, Held
<1>6. QED
  BY <1>4, <1>5, PushAccounts, StepCases

\* The new client holds its "startup" record, number 1.
LEMMA InitAccount == Init => AccountInv
<1> SUFFICES ASSUME Init PROVE AccountInv
  OBVIOUS
<1> DEFINE first == [seq_no |-> 1, report_type |-> "record"]
<1>1. /\ record_queue.entry_sequence_no = 1
      /\ record_queue.pending_entries = <<first>>
      /\ report = <<>> /\ acked = {} /\ discarded = {}
      /\ worker = "recv" /\ owner = "running"
  BY InitialQueue DEF Init
<1>2. TypeOK
  BY InitTypeOK
<1>3. NumbersBounded /\ ReportInFlight
  BY <1>1, ClientAssumption DEF NumbersBounded, ReportInFlight
<1>4. SeqNos(Held) = {1}
  <2>1. first \in MetricsRecord
    BY DEF MetricsRecord, ReportTypes
  <2>2. SeqNos(<<first>>) = {first.seq_no} /\ SeqNos(<<>>) = {}
    BY <2>1, SeqNosShort
  <2>3. QED  BY <1>1, <1>2, <2>2, HeldSeqNos
<1>5. NoRecordLost
  <2>1. 1..1 = {1}
    OBVIOUS
  <2>2. QED  BY <1>1, <1>4, <2>1 DEF NoRecordLost
<1>6. QED  BY <1>2, <1>3, <1>5 DEF AccountInv

\* Every number given out is held, confirmed by the server or given up on
\* purpose, whatever the threads, the server and the timing do.
THEOREM NoRecordIsLost == Spec => []NoRecordLost
<1>1. AccountInv => NoRecordLost
  BY DEF AccountInv
<1>2. QED  BY <1>1, InitAccount, AccountStep, TypeCorrect, PTL DEF Spec

-----------------------------------------------------------------------------
(* A worker that ends has nothing left, or a backoff.                      *)

\* A request for the end of the worker is under way in a channel.
EndAsked(actions) == \E i \in DOMAIN actions : actions[i] = "FlushShutdown"

\* Appending to the channel asks for the end only with that very action, and
\* taking its head finds no request that was not there.
LEMMA EndAskedProperties ==
    ASSUME NEW actions \in Seq(Actions)
    PROVE  /\ \A a \in Actions : EndAsked(Append(actions, a)) =>
                                    EndAsked(actions) \/ a = "FlushShutdown"
           /\ actions # <<>> =>
                 /\ Head(actions) = "FlushShutdown" => EndAsked(actions)
                 /\ EndAsked(Tail(actions)) => EndAsked(actions)
<1>1. DOMAIN actions = 1..Len(actions) /\ Len(actions) \in Nat
  BY LenProperties
<1>2. ASSUME NEW a \in Actions, EndAsked(Append(actions, a)), a # "FlushShutdown"
      PROVE  EndAsked(actions)
  <2> DEFINE longer == Append(actions, a)
  <2>1. /\ DOMAIN longer = 1..(Len(actions) + 1)
        /\ longer[Len(actions) + 1] = a
        /\ \A i \in 1..Len(actions) : longer[i] = actions[i]
    BY AppendProperties, LenProperties
  <2>2. PICK i \in DOMAIN longer : longer[i] = "FlushShutdown"
    BY <1>2 DEF EndAsked
  <2> HIDE DEF longer
  <2>3. i \in DOMAIN actions /\ actions[i] = "FlushShutdown"
    BY <1>1, <1>2, <2>1, <2>2
  <2>4. QED  BY <2>3 DEF EndAsked
<1>3. ASSUME actions # <<>>
      PROVE  /\ Head(actions) = "FlushShutdown" => EndAsked(actions)
             /\ EndAsked(Tail(actions)) => EndAsked(actions)
  <2>1. Len(actions) \in Nat \ {0} /\ Head(actions) = actions[1]
    BY <1>3, EmptySeq, HeadTailProperties
  <2>2. ASSUME EndAsked(Tail(actions)) PROVE EndAsked(actions)
    <3> DEFINE rest == Tail(actions)
    <3>1. /\ DOMAIN rest = 1..(Len(actions) - 1)
          /\ \A i \in 1..(Len(actions) - 1) : rest[i] = actions[i + 1]
      BY <1>3, HeadTailProperties, LenProperties
    <3>2. PICK i \in DOMAIN rest : rest[i] = "FlushShutdown"
      BY <2>2 DEF EndAsked
    <3> HIDE DEF rest
    <3>3. i + 1 \in DOMAIN actions /\ actions[i + 1] = "FlushShutdown"
      BY <1>1, <2>1, <3>1, <3>2
    <3>4. QED  BY <3>3 DEF EndAsked
  <2>3. 1 \in DOMAIN actions
    BY <1>1, <2>1
  <2>4. QED  BY <2>1, <2>2, <2>3 DEF EndAsked
<1>4. QED  BY <1>2, <1>3

\* The invariant behind EndsDrained.
EndInv == TypeOK /\ ReportInFlight /\ EndRequested

\* EndRequested by the one thing it says of the channel.
LEMMA EndRequestedParts ==
    EndRequested <=>
        /\ EndAsked(worker_actions) => owner \in {"wait", "done"}
        /\ shutdown => owner \in {"wait", "done"}
        /\ worker \in {"final_ack", "ended"} => shutdown
        /\ shutdown /\ worker \in {"ack", "final_ack", "ended"}
             /\ send_timer_mode = "Normal" => Held = <<>>
BY DEF EndRequested, EndAsked

\* The worker: it takes the request off the channel, and reaches the ack of the
\* last round with an empty queue or after a failure.
LEMMA WorkerEnds ==
    ASSUME EndInv, Worker
    PROVE  EndRequested'
<1> USE DEF MoveWorker, queueVars, timerVars
<1> DEFINE over == owner \in {"wait", "done"}
<1>1. owner' = owner /\ worker_actions \in Seq(Actions)
  BY DEF Worker, callVars, EndInv, TypeOK
<1>2. /\ EndAsked(worker_actions) => over
      /\ shutdown => over
      /\ worker \in {"final_ack", "ended"} => shutdown
      /\ shutdown /\ worker \in {"ack", "final_ack", "ended"}
             /\ send_timer_mode = "Normal" => Held = <<>>
      /\ worker \notin {"send", "requeue"} => report = <<>>
  BY EndRequestedParts DEF EndInv, ReportInFlight
<1>3. SUFFICES /\ EndAsked(worker_actions') => over
               /\ shutdown' => over
               /\ worker' \in {"final_ack", "ended"} => shutdown'
               /\ shutdown' /\ worker' \in {"ack", "final_ack", "ended"}
                    /\ send_timer_mode' = "Normal" => Held' = <<>>
  BY <1>1 DEF EndRequested, EndAsked
<1>4. CASE RecvFlushQueue \/ RecvFlushShutdown
  <2>1. /\ worker_actions # <<>> /\ worker_actions' = Tail(worker_actions)
        /\ worker' \in {"recv", "submit"}
        /\ shutdown' = shutdown \/ Head(worker_actions) = "FlushShutdown"
    BY <1>4 DEF RecvFlushQueue, RecvFlushShutdown
  <2>2. QED  BY <1>1, <1>2, <2>1, EndAskedProperties
<1>5. CASE RecvTimeout \/ SubmitReport \/ SendSucceeds \/ (\E error : SendFails(error))
              \/ RequeueEntry
  <2>1. UNCHANGED <<worker_actions, shutdown>> /\ worker' \in {"submit", "send", "requeue"}
    BY <1>5 DEF RecvTimeout, SubmitReport, SendSucceeds, SendFails, RequeueEntry
  <2>2. QED  BY <1>2, <2>1
<1>6. CASE SubmitNothing
  <2>1. /\ worker' = "ack" /\ UNCHANGED <<worker_actions, shutdown, record_queue, report>>
        /\ report = <<>> /\ record_queue.pending_entries = <<>>
    BY <1>2, <1>6 DEF SubmitNothing
  <2>2. Held' = <<>> \o <<>>
    BY <2>1 DEF Held
  <2>3. <<>> \o <<>> = <<>>
    BY ConcatEmptySeq, EmptySeq
  <2>4. QED  BY <1>2, <2>1, <2>2, <2>3
<1>7. CASE (\E error : SendFailsForGood(error)) \/ RequeueDone
  <2>1. /\ worker' = "ack" /\ UNCHANGED <<worker_actions, shutdown>>
        /\ send_timer_mode' # "Normal"
    BY <1>7 DEF SendFailsForGood, RequeueDone, HandleFailure, HandleBackoffServer,
                HandleBackoffFailure
  <2>2. QED  BY <1>2, <2>1
<1>8. CASE Ack \/ FinalAck
  <2>1. /\ UNCHANGED <<worker_actions, shutdown, record_queue, report, send_timer_mode>>
        /\ worker \in {"ack", "final_ack"}
        /\ worker' \in {"final_ack", "ended"} => shutdown
        /\ worker' \in {"recv", "final_ack", "ended"}
    BY <1>2, <1>8 DEF Ack, FinalAck, SendAck
  <2>2. Held' = Held
    BY <2>1 DEF Held
  <2>3. QED  BY <1>2, <2>1, <2>2
<1>9. QED
  BY <1>4, <1>5, <1>6, <1>7, <1>8, WorkerCases

\* The other threads: no add once the end is asked for, which the owner does
\* last.
LEMMA OthersEnd ==
    ASSUME EndInv, [Next]_vars, ~Worker
    PROVE  EndRequested'
<1> USE DEF queueVars, workerVars, timerVars, callVars
<1> DEFINE over == owner \in {"wait", "done"}
           running == owner \in {"running", "add"}
<1>1. worker_actions \in Seq(Actions) /\ "FlushQueue" \in Actions /\ "FlushShutdown" \in Actions
  BY DEF EndInv, TypeOK, Actions
<1>2. /\ EndAsked(worker_actions) => over
      /\ shutdown => over
      /\ worker \in {"final_ack", "ended"} => shutdown
      /\ shutdown /\ worker \in {"ack", "final_ack", "ended"}
             /\ send_timer_mode = "Normal" => Held = <<>>
  BY EndRequestedParts DEF EndInv
<1>3. /\ UNCHANGED <<worker, shutdown, send_timer_mode>>
      /\ EndAsked(worker_actions') =>
            EndAsked(worker_actions) \/ owner' \in {"wait", "done"}
      /\ over => owner' \in {"wait", "done"} /\ Held' = Held
  <2>1. ASSUME PushRecord
        PROVE  EndAsked(worker_actions') => EndAsked(worker_actions)
    BY <1>1, <2>1, EndAskedProperties DEF PushRecord
  <2>2. CASE ClientAddRecord
    BY <2>1, <2>2 DEF ClientAddRecord
  <2>3. ASSUME NEW f \in Flushers, Flush(f)
        PROVE  /\ UNCHANGED <<worker, shutdown, send_timer_mode, owner, record_queue, report>>
               /\ EndAsked(worker_actions') => EndAsked(worker_actions)
    <3>1. UNCHANGED <<queueVars, workerVars, owner>>
      BY <2>3 DEF Flush, FlushStepOf
    <3>2. \/ worker_actions' = worker_actions
          \/ worker_actions' = Append(worker_actions, "FlushQueue")
      BY <2>3 DEF Flush, FlushStepOf, FlushCall, FlushLock, FlushDrainOne, FlushDrained,
                  FlushRequest, FlushRecv
    <3>3. QED  BY <1>1, <3>1, <3>2, EndAskedProperties
  <2>4. CASE Owner
    <3> USE DEF MoveOwner
    <3>1. UNCHANGED <<worker, shutdown, send_timer_mode, report>>
      BY <2>4 DEF Owner, OwnerStep, OwnerFrame
    <3>2. CASE ShutdownAdd
      BY <2>1, <3>1, <3>2 DEF ShutdownAdd
    <3>3. CASE ShutdownRequest
      BY <3>1, <3>3 DEF ShutdownRequest
    <3>4. CASE ShutdownCall \/ ShutdownDrainOne \/ ShutdownDrained \/ ShutdownReturn
      BY <3>1, <3>4 DEF ShutdownCall, ShutdownDrainOne, ShutdownDrained, ShutdownReturn, Held
    <3>5. QED  BY <2>4, <3>2, <3>3, <3>4 DEF Owner, OwnerStep
  <2>5. CASE DeadlinePasses
    BY <2>5 DEF DeadlinePasses, Held
  <2>6. CASE Crash \/ UNCHANGED vars
    BY <2>6 DEF Crash, vars, Held
  <2>7. ASSUME NEW f \in Flushers, Flush(f)
        PROVE  Held' = Held
    BY <2>3, <2>7 DEF Held
  <2>8. QED
    BY <2>2, <2>3, <2>4, <2>5, <2>6, <2>7 DEF Next, Stopped
<1>4. QED
  BY <1>2, <1>3 DEF EndRequested, EndAsked

\* Only the round that shutdown() asked for ends the worker, after the last add;
\* so without a failure in that round everything has been submitted.
THEOREM WorkerEndsDrained == Spec => []EndsDrained
<1>1. Init => ReportInFlight /\ EndRequested
  BY EmptySeq DEF Init, ReportInFlight, EndRequested
<1>2. EndInv /\ [Next]_vars => EndRequested'
  BY WorkerEnds, OthersEnd
<1>3. EndInv /\ BoundInv /\ TypeOK' /\ [Next]_vars => EndInv' /\ BoundInv'
  BY <1>2, BoundStep DEF EndInv, BoundInv
<1>4. EndInv => EndsDrained
  BY DEF EndInv, EndRequested, EndsDrained, ReportInFlight
<1>5. Init => EndInv /\ BoundInv
  BY <1>1, InitTypeOK, InitBound DEF EndInv
<1>6. QED  BY <1>3, <1>4, <1>5, TypeCorrect, PTL DEF Spec

-----------------------------------------------------------------------------
(* Lists of records in order.                                              *)

\* InOrder of two records.
Before(a, b) ==
    \/ a.seq_no < b.seq_no
    \/ a.report_type = "metrics-dropped" /\ a.seq_no = b.seq_no + 1

\* Two lists are in order, one after the other, if each is and all records of
\* the first come before all of the second.
LEMMA InOrderConcat ==
    ASSUME NEW s \in Seq(MetricsRecord), NEW t \in Seq(MetricsRecord)
    PROVE  InOrder(s \o t) <=>
             /\ InOrder(s) /\ InOrder(t)
             /\ \A i \in DOMAIN s, j \in DOMAIN t : Before(s[i], t[j])
<1> DEFINE u == s \o t
<1>1. /\ DOMAIN s = 1..Len(s) /\ Len(s) \in Nat
      /\ DOMAIN t = 1..Len(t) /\ Len(t) \in Nat
      /\ DOMAIN u = 1..(Len(s) + Len(t))
      /\ \A i \in 1..(Len(s) + Len(t)) : u[i] = IF i <= Len(s) THEN s[i] ELSE t[i - Len(s)]
  BY ConcatProperties, LenProperties
<1>2. /\ \A i \in DOMAIN s : i \in DOMAIN u /\ u[i] = s[i]
      /\ \A j \in DOMAIN t : j + Len(s) \in DOMAIN u /\ u[j + Len(s)] = t[j]
  BY <1>1
<1> HIDE DEF u
<1>3. ASSUME InOrder(u)
      PROVE  /\ InOrder(s) /\ InOrder(t)
             /\ \A i \in DOMAIN s, j \in DOMAIN t : Before(s[i], t[j])
  <2>1. InOrder(s)
    BY <1>2, <1>3 DEF InOrder
  <2>2. InOrder(t)
    <3> SUFFICES ASSUME NEW i \in DOMAIN t, NEW j \in DOMAIN t, i < j
                 PROVE  Before(t[i], t[j])
      BY DEF InOrder, Before
    <3>1. i + Len(s) < j + Len(s)
      BY <1>1
    <3>2. Before(u[i + Len(s)], u[j + Len(s)])
      BY <1>2, <1>3, <3>1 DEF InOrder, Before
    <3>3. QED  BY <1>2, <3>2
  <2>3. ASSUME NEW i \in DOMAIN s, NEW j \in DOMAIN t
        PROVE  Before(s[i], t[j])
    <3>1. i < j + Len(s)
      BY <1>1
    <3>2. Before(u[i], u[j + Len(s)])
      BY <1>2, <1>3, <3>1 DEF InOrder, Before
    <3>3. QED  BY <1>2, <3>2
  <2>4. QED  BY <2>1, <2>2, <2>3
<1>4. ASSUME InOrder(s), InOrder(t),
             \A i \in DOMAIN s, j \in DOMAIN t : Before(s[i], t[j])
      PROVE  InOrder(u)
  <2> SUFFICES ASSUME NEW i \in DOMAIN u, NEW j \in DOMAIN u, i < j
               PROVE  Before(u[i], u[j])
    BY DEF InOrder, Before
  <2>1. CASE j <= Len(s)
    <3>1. i \in DOMAIN s /\ j \in DOMAIN s
      BY <1>1, <2>1
    <3>2. Before(s[i], s[j])
      BY <1>4, <3>1 DEF InOrder, Before
    <3>3. QED  BY <1>2, <3>1, <3>2
  <2>2. CASE i > Len(s)
    <3> DEFINE k == i - Len(s)
               l == j - Len(s)
    <3>1. k \in DOMAIN t /\ l \in DOMAIN t /\ k < l /\ u[i] = t[k] /\ u[j] = t[l]
      BY <1>1, <2>2
    <3> HIDE DEF k, l
    <3>2. QED  BY <1>4, <3>1 DEF InOrder, Before
  <2>3. CASE i <= Len(s) /\ j > Len(s)
    <3> DEFINE l == j - Len(s)
    <3>1. i \in DOMAIN s /\ l \in DOMAIN t /\ u[i] = s[i] /\ u[j] = t[l]
      BY <1>1, <2>3
    <3> HIDE DEF l
    <3>2. QED  BY <1>4, <3>1
  <2>4. QED  BY <1>1, <2>1, <2>2, <2>3
<1>5. QED  BY <1>3, <1>4 DEF u

\* In order, two lists one after the other have no number in common.
LEMMA InOrderApart ==
    ASSUME NEW s \in Seq(MetricsRecord), NEW t \in Seq(MetricsRecord), InOrder(s \o t)
    PROVE  SeqNos(s) \cap SeqNos(t) = {}
<1>1. \A i \in DOMAIN s, j \in DOMAIN t : Before(s[i], t[j])
  BY InOrderConcat
<1>2. /\ \A i \in DOMAIN s : s[i].seq_no \in Nat
      /\ \A j \in DOMAIN t : t[j].seq_no \in Nat
  BY SeqNosType DEF SeqNos
<1>3. \A i \in DOMAIN s, j \in DOMAIN t : s[i].seq_no # t[j].seq_no
  BY <1>1, <1>2 DEF Before
<1>4. QED  BY <1>3 DEF SeqNos

\* Taking a part out of the middle, a drained range or a report that the
\* server has taken, keeps the order of the rest, and takes its numbers only.
LEMMA InOrderSplice ==
    ASSUME NEW a \in Seq(MetricsRecord), NEW b \in Seq(MetricsRecord),
           NEW c \in Seq(MetricsRecord), InOrder((a \o b) \o c)
    PROVE  /\ InOrder(a \o c)
           /\ SeqNos(a \o c) = SeqNos((a \o b) \o c) \ SeqNos(b)
           /\ SeqNos(b) \subseteq SeqNos((a \o b) \o c)
<1>1. a \o b \in Seq(MetricsRecord)
  BY ConcatProperties
<1>2. /\ InOrder(a \o b) /\ InOrder(c)
      /\ \A i \in DOMAIN (a \o b), j \in DOMAIN c : Before((a \o b)[i], c[j])
  BY <1>1, InOrderConcat
<1>3. \A i \in DOMAIN a : i \in DOMAIN (a \o b) /\ (a \o b)[i] = a[i]
  <2>1. /\ DOMAIN a = 1..Len(a) /\ Len(a) \in Nat /\ Len(b) \in Nat
        /\ DOMAIN (a \o b) = 1..(Len(a) + Len(b))
        /\ \A i \in 1..(Len(a) + Len(b)) :
               (a \o b)[i] = IF i <= Len(a) THEN a[i] ELSE b[i - Len(a)]
    BY ConcatProperties, LenProperties
  <2>2. QED  BY <2>1
<1>4. InOrder(a)
  BY <1>2, InOrderConcat
<1>5. \A i \in DOMAIN a, j \in DOMAIN c : Before(a[i], c[j])
  BY <1>2, <1>3
<1>6. InOrder(a \o c)
  BY <1>2, <1>4, <1>5, InOrderConcat
<1>7. /\ SeqNos((a \o b) \o c) = SeqNos(a) \cup SeqNos(b) \cup SeqNos(c)
      /\ SeqNos(a \o c) = SeqNos(a) \cup SeqNos(c)
  BY <1>1, SeqNosConcat
<1>8. /\ SeqNos(a) \cap SeqNos(b) = {}
      /\ (SeqNos(a) \cup SeqNos(b)) \cap SeqNos(c) = {}
  BY <1>1, <1>2, InOrderApart, SeqNosConcat
<1>9. QED  BY <1>6, <1>7, <1>8

\* A list has no more numbers than records, and in order as many.
LEMMA InOrderCardinality ==
    ASSUME NEW s \in Seq(MetricsRecord)
    PROVE  /\ IsFiniteSet(SeqNos(s))
           /\ Cardinality(SeqNos(s)) <= Len(s)
           /\ InOrder(s) => Cardinality(SeqNos(s)) = Len(s)
<1> DEFINE number == [i \in 1..Len(s) |-> s[i].seq_no]
<1>1. /\ DOMAIN s = 1..Len(s) /\ Len(s) \in Nat
      /\ \A i \in 1..Len(s) : s[i].seq_no \in Nat
  <2>1. DOMAIN s = 1..Len(s) /\ Len(s) \in Nat
    BY LenProperties
  <2>2. \A i \in DOMAIN s : s[i].seq_no \in Nat
    BY SeqNosType DEF SeqNos
  <2>3. QED  BY <2>1, <2>2
<1>2. IsFiniteSet(1..Len(s)) /\ Cardinality(1..Len(s)) = Len(s)
  BY <1>1, FS_Interval
<1>3. number \in Surjection(1..Len(s), SeqNos(s))
  BY <1>1 DEF Surjection, SeqNos
<1>4. InOrder(s) => number \in Injection(1..Len(s), SeqNos(s))
  <2> SUFFICES ASSUME InOrder(s), NEW i \in 1..Len(s), NEW j \in 1..Len(s), i # j
               PROVE  s[i].seq_no # s[j].seq_no
    BY <1>1 DEF Injection, IsInjective, SeqNos
  <2>1. Before(s[i], s[j]) \/ Before(s[j], s[i])
    BY <1>1 DEF InOrder, Before
  <2>2. QED  BY <1>1, <2>1 DEF Before
<1> HIDE DEF number
<1>5. QED  BY <1>2, <1>3, <1>4, FS_Surjection

\* A fresh record at the end keeps the order, and so does the note that stands
\* before it although its number is the later one.
LEMMA InOrderExtend ==
    ASSUME NEW s \in Seq(MetricsRecord), InOrder(s),
           NEW n \in Nat, SeqNos(s) \subseteq 1..n,
           NEW record \in MetricsRecord, record.seq_no = n + 1,
           NEW note \in MetricsRecord, note.seq_no = n + 2,
           note.report_type = "metrics-dropped"
    PROVE  /\ <<record>> \in Seq(MetricsRecord) /\ <<note, record>> \in Seq(MetricsRecord)
           /\ InOrder(s \o <<record>>)
           /\ SeqNos(s \o <<record>>) = SeqNos(s) \cup {n + 1}
           /\ InOrder(s \o <<note, record>>)
           /\ SeqNos(s \o <<note, record>>) = SeqNos(s) \cup {n + 1, n + 2}
<1> DEFINE one == <<record>>
           two == <<note, record>>
<1>1. /\ one \in Seq(MetricsRecord) /\ DOMAIN one = {1} /\ one[1] = record
      /\ two \in Seq(MetricsRecord) /\ DOMAIN two = {1, 2} /\ two[1] = note /\ two[2] = record
  OBVIOUS
<1>2. SeqNos(one) = {n + 1} /\ SeqNos(two) = {n + 1, n + 2}
  BY SeqNosShort
<1> HIDE DEF one, two
<1>3. InOrder(one) /\ InOrder(two)
  BY <1>1 DEF InOrder
<1>4. \A i \in DOMAIN s : s[i].seq_no \in 1..n
  BY DEF SeqNos
<1>5. /\ \A i \in DOMAIN s, j \in DOMAIN one : Before(s[i], one[j])
      /\ \A i \in DOMAIN s, j \in DOMAIN two : Before(s[i], two[j])
  BY <1>1, <1>4 DEF Before
<1>6. InOrder(s \o one) /\ InOrder(s \o two)
  BY <1>1, <1>3, <1>5, InOrderConcat
<1>7. /\ SeqNos(s \o one) = SeqNos(s) \cup SeqNos(one)
      /\ SeqNos(s \o two) = SeqNos(s) \cup SeqNos(two)
  BY <1>1, SeqNosConcat
<1>8. QED  BY <1>1, <1>2, <1>6, <1>7 DEF one, two

-----------------------------------------------------------------------------
(* Each step of the client, as a step of MetricsDelivery.                  *)

\* The invariant behind the order: what is accounted for is held in order, and
\* a submission carries records.
OrderInv == AccountInv /\ HeldBounded /\ ReportNotEmpty /\ HeldInOrder

\* What the invariant says of the lists and numbers that the steps work on.
LEMMA HeldFacts ==
    ASSUME OrderInv
    PROVE  /\ record_queue \in RecordQueues
           /\ record_queue.pending_entries \in Seq(MetricsRecord)
           /\ report \in Seq(MetricsRecord)
           /\ record_queue.entry_sequence_no \in Nat
           /\ Held = report \o record_queue.pending_entries
           /\ Held \in Seq(MetricsRecord)
           /\ InOrder(Held)
           /\ SeqNos(Held) \subseteq 1..record_queue.entry_sequence_no
<1>1. /\ record_queue \in RecordQueues
      /\ record_queue.pending_entries \in Seq(MetricsRecord)
      /\ report \in Seq(MetricsRecord)
      /\ record_queue.entry_sequence_no \in Nat
  BY DEF OrderInv, AccountInv, TypeOK, RecordQueues
<1>2. Held \in Seq(MetricsRecord)
  BY <1>1, ConcatProperties DEF Held
<1>3. QED
  BY <1>1, <1>2 DEF OrderInv, AccountInv, NoRecordLost, HeldInOrder, Held

\* MetricsDelivery counts the records that are open as this module does.
LEMMA SameCardinality == \A S : Delivery!Cardinality(S) = Cardinality(S)
BY DEF Delivery!Cardinality, Cardinality

\* Lists of records, grouped to the left.
LEMMA Regroup ==
    ASSUME NEW x \in Seq(MetricsRecord), NEW y \in Seq(MetricsRecord),
           NEW z \in Seq(MetricsRecord)
    PROVE  x \o (y \o z) = (x \o y) \o z
BY RecordsAssociative, Zenon

\* What is held after a drain is what was held before it, in the same order, but
\* for the drained range.
LEMMA DrainHeld ==
    ASSUME NEW r \in Seq(MetricsRecord), NEW s \in Seq(MetricsRecord), Overfull(s),
           InOrder(r \o s)
    PROVE  /\ InOrder(r \o Drain(s))
           /\ SeqNos(r \o Drain(s)) = SeqNos(r \o s) \ SeqNos(Drained(s))
           /\ SeqNos(Drained(s)) \subseteq SeqNos(r \o s)
<1> DEFINE gone == Drained(s)
<1>1. gone \in Seq(MetricsRecord)
  BY DrainProperties
<1> HIDE DEF gone
<1>2. PICK head \in Seq(MetricsRecord), tail \in Seq(MetricsRecord) :
        s = (head \o gone) \o tail /\ Drain(s) = head \o tail
  BY DrainSplits DEF gone
<1> DEFINE before == r \o head
<1>3. before \in Seq(MetricsRecord)
  BY ConcatProperties
<1>4. r \in Seq(MetricsRecord) /\ head \in Seq(MetricsRecord) /\ tail \in Seq(MetricsRecord)
  OBVIOUS
<1>5. r \o ((head \o gone) \o tail) = (before \o gone) \o tail
  <2> DEFINE middle == head \o gone
  <2>1. middle \in Seq(MetricsRecord)
    BY <1>1, ConcatProperties
  <2>2. r \o middle = before \o gone
    BY ONLY <1>1, <1>4, Regroup
  <2> HIDE DEF middle, before
  <2>3. r \o (middle \o tail) = (r \o middle) \o tail
    BY ONLY <1>4, <2>1, Regroup
  <2>4. QED  BY <2>2, <2>3 DEF middle
<1>6. r \o (head \o tail) = before \o tail
  BY ONLY <1>4, Regroup
<1> HIDE DEF before
<1>7. InOrder((before \o gone) \o tail)
  BY <1>2, <1>5
<1>8. /\ InOrder(before \o tail)
      /\ SeqNos(before \o tail) = SeqNos((before \o gone) \o tail) \ SeqNos(gone)
      /\ SeqNos(gone) \subseteq SeqNos((before \o gone) \o tail)
  BY ONLY <1>1, <1>3, <1>4, <1>7, InOrderSplice
<1>9. QED  BY <1>2, <1>5, <1>6, <1>8 DEF gone

\* What is held after an add: in order, and what was held before it but for a
\* drained range, with the new records.
LEMMA AddHeld ==
    ASSUME NEW r \in Seq(MetricsRecord), NEW s \in Seq(MetricsRecord), InOrder(r \o s),
           NEW n \in Nat, SeqNos(r \o s) \subseteq 1..n,
           NEW record \in MetricsRecord, record.seq_no = n + 1,
           NEW note \in MetricsRecord, note.seq_no = n + 2,
           note.report_type = "metrics-dropped"
    PROVE  /\ /\ InOrder(r \o (s \o <<record>>))
              /\ SeqNos(r \o (s \o <<record>>)) = SeqNos(r \o s) \cup {n + 1}
           /\ Overfull(s) =>
                 /\ InOrder(r \o (Drain(s) \o <<note, record>>))
                 /\ SeqNos(r \o (Drain(s) \o <<note, record>>)) =
                       (SeqNos(r \o s) \ SeqNos(Drained(s))) \cup {n + 1, n + 2}
                 /\ SeqNos(Drained(s)) \subseteq SeqNos(r \o s)
<1> DEFINE held == r \o s
           one == <<record>>
           two == <<note, record>>
<1>1. held \in Seq(MetricsRecord)
  BY ConcatProperties
<1>2. one \in Seq(MetricsRecord) /\ two \in Seq(MetricsRecord)
  OBVIOUS
<1>3. ASSUME NEW u \in Seq(MetricsRecord), InOrder(u), SeqNos(u) \subseteq 1..n
      PROVE  /\ InOrder(u \o one) /\ SeqNos(u \o one) = SeqNos(u) \cup {n + 1}
             /\ InOrder(u \o two) /\ SeqNos(u \o two) = SeqNos(u) \cup {n + 1, n + 2}
  <2>1. /\ n \in Nat
        /\ record \in MetricsRecord /\ record.seq_no = n + 1
        /\ note \in MetricsRecord /\ note.seq_no = n + 2
        /\ note.report_type = "metrics-dropped"
    OBVIOUS
  <2>2. QED  BY ONLY <1>3, <2>1, InOrderExtend, ZenonT(60)
<1> HIDE DEF one, two
<1>4. r \o (s \o one) = held \o one
  BY <1>2, Regroup
<1>5. InOrder(held) /\ SeqNos(held) \subseteq 1..n
  OBVIOUS
<1> HIDE DEF held
<1>6. InOrder(held \o one) /\ SeqNos(held \o one) = SeqNos(held) \cup {n + 1}
  BY <1>1, <1>3, <1>5
<1>7. ASSUME Overfull(s)
      PROVE  /\ InOrder(r \o (Drain(s) \o two))
             /\ SeqNos(r \o (Drain(s) \o two)) =
                   (SeqNos(held) \ SeqNos(Drained(s))) \cup {n + 1, n + 2}
             /\ SeqNos(Drained(s)) \subseteq SeqNos(held)
  <2> DEFINE kept == r \o Drain(s)
  <2>1. Drain(s) \in Seq(MetricsRecord)
    BY <1>7, DrainProperties
  <2>2. kept \in Seq(MetricsRecord)
    BY <2>1, ConcatProperties
  <2>3. r \o (Drain(s) \o two) = kept \o two
    BY <1>2, <2>1, Regroup
  <2>4. /\ InOrder(kept)
        /\ SeqNos(kept) = SeqNos(held) \ SeqNos(Drained(s))
        /\ SeqNos(Drained(s)) \subseteq SeqNos(held)
    BY <1>7, DrainHeld DEF held
  <2>5. SeqNos(kept) \subseteq 1..n
    BY <1>5, <2>4
  <2> HIDE DEF kept
  <2>6. InOrder(kept \o two) /\ SeqNos(kept \o two) = SeqNos(kept) \cup {n + 1, n + 2}
    BY <1>3, <2>2, <2>4, <2>5
  <2>7. QED  BY <2>3, <2>4, <2>6
<1>8. QED  BY <1>4, <1>6, <1>7 DEF held, one, two

\* An add is an Add, or with a drain an AddMakingRoom.
LEMMA PushDelivers ==
    ASSUME OrderInv, PushRecord, UNCHANGED <<workerVars, acked>>,
           record_queue.entry_sequence_no + 2 < SeqModulus
    PROVE  HeldInOrder' /\ Delivery!Next
<1> DEFINE s == record_queue.pending_entries
           n == record_queue.entry_sequence_no
<1>1. /\ record_queue \in RecordQueues /\ s \in Seq(MetricsRecord)
      /\ report \in Seq(MetricsRecord) /\ n \in Nat
      /\ Held = report \o s /\ Held \in Seq(MetricsRecord)
      /\ InOrder(Held) /\ SeqNos(Held) \subseteq 1..n
  BY HeldFacts
<1>2. /\ report' = report /\ acked' = acked
      /\ discarded' = discarded \cup SeqNos(Drained(s))
      /\ record_queue' = AddRecord(record_queue, "record")
  BY DEF PushRecord, workerVars
<1>3. PICK record \in MetricsRecord, note \in MetricsRecord :
        /\ record.seq_no = n + 1 /\ note.seq_no = n + 2
        /\ note.report_type = "metrics-dropped"
        /\ ~Overfull(s) => /\ record_queue'.entry_sequence_no = n + 1
                           /\ record_queue'.pending_entries = s \o <<record>>
        /\ Overfull(s) => /\ record_queue'.entry_sequence_no = n + 2
                          /\ record_queue'.pending_entries = Drain(s) \o <<note, record>>
  BY <1>1, <1>2, AddRecordAppends DEF ReportTypes
<1> DEFINE plain == report \o (s \o <<record>>)
           drained == report \o (Drain(s) \o <<note, record>>)
<1>4. /\ InOrder(plain) /\ SeqNos(plain) = SeqNos(Held) \cup {n + 1}
      /\ Overfull(s) =>
            /\ InOrder(drained)
            /\ SeqNos(drained) = (SeqNos(Held) \ SeqNos(Drained(s))) \cup {n + 1, n + 2}
            /\ SeqNos(Drained(s)) \subseteq SeqNos(Held)
  <2>1. InOrder(report \o s) /\ SeqNos(report \o s) \subseteq 1..n
    BY <1>1
  <2> HIDE DEF s, n
  <2>2. /\ record \in MetricsRecord /\ record.seq_no = n + 1
        /\ note \in MetricsRecord /\ note.seq_no = n + 2
        /\ note.report_type = "metrics-dropped"
    BY <1>3
  <2>3. report \in Seq(MetricsRecord) /\ s \in Seq(MetricsRecord) /\ n \in Nat
    BY <1>1
  <2>4. Held = report \o s
    BY <1>1
  <2> HIDE <1>1, <1>3
  <2>5. QED  BY ONLY <2>1, <2>2, <2>3, <2>4, AddHeld
<1>5. CASE ~Overfull(s)
  <2>1. Held' = plain
    BY <1>2, <1>3, <1>5 DEF Held
  <2> HIDE DEF plain, drained
  <2>2. InOrder(Held') /\ SeqNos(Held') = SeqNos(Held) \cup {n + 1}
    BY <1>4, <2>1
  <2>3. n' = n + 1 /\ discarded' = discarded
    BY <1>2, <1>3, <1>5 DEF Drained, SeqNos
  <2>4. Delivery!Add
    BY <1>2, <2>2, <2>3 DEF Delivery!Add
  <2>5. QED  BY <2>2, <2>4 DEF HeldInOrder, Delivery!Next
<1>6. CASE Overfull(s)
  <2> DEFINE gone == Drained(s)
  <2>1. gone \in Seq(MetricsRecord) /\ Len(gone) = DropTo - DropFrom
    BY <1>1, <1>6, DrainProperties
  <2>2. Held' = drained
    BY <1>2, <1>3, <1>6 DEF Held
  <2> HIDE DEF gone, plain, drained
  <2>3. /\ InOrder(Held')
        /\ SeqNos(Held') = (SeqNos(Held) \ SeqNos(gone)) \cup {n + 1, n + 2}
        /\ SeqNos(gone) \subseteq SeqNos(Held)
    BY <1>4, <1>6, <2>2 DEF gone
  <2>4. n' = n + 2
    BY <1>3, <1>6
  <2>5. SeqNos(gone) # {}
    <3>1. DOMAIN gone = 1..(DropTo - DropFrom) /\ 1 \in 1..(DropTo - DropFrom)
      BY <2>1, LenProperties, QueueAssumption
    <3>2. QED  BY <3>1 DEF SeqNos
  <2>6. Cardinality(SeqNos(Held)) > QueueLimit
    <3>1. Cardinality(SeqNos(Held)) = Len(Held)
      BY <1>1, InOrderCardinality
    <3>2. Len(Held) = Len(report) + Len(s) /\ Len(report) \in Nat /\ Len(s) \in Nat
      BY <1>1, ConcatProperties, LenProperties
    <3>3. QED  BY <1>6, <3>1, <3>2, QueueAssumption DEF Overfull
  <2>7. Delivery!AddMakingRoom
    BY <1>2, <2>3, <2>4, <2>5, <2>6, SameCardinality
    DEF Delivery!AddMakingRoom, gone
  <2>8. QED  BY <2>3, <2>7 DEF HeldInOrder, Delivery!Next
<1>7. QED  BY <1>5, <1>6

\* The numbers of a few records that are held make a batch that the abstract
\* client may settle.
LEMMA SettleHeld ==
    ASSUME NEW b \in Seq(MetricsRecord), b # <<>>, Len(b) <= ReportMaxRecords,
           SeqNos(b) \subseteq SeqNos(Held)
    PROVE  SeqNos(b) \in Delivery!Batches
<1>1. DOMAIN b = 1..Len(b) /\ Len(b) \in Nat \ {0}
  BY LenProperties, EmptySeq
<1>2. SeqNos(b) # {}
  <2>1. 1 \in DOMAIN b
    BY <1>1
  <2>2. QED  BY <2>1 DEF SeqNos
<1>3. Cardinality(SeqNos(b)) <= ReportMaxRecords
  <2>1. IsFiniteSet(SeqNos(b)) /\ Cardinality(SeqNos(b)) <= Len(b)
    BY InOrderCardinality
  <2>2. Cardinality(SeqNos(b)) \in Nat
    BY <2>1, FS_CardinalityType
  <2>3. QED  BY <1>1, <2>1, <2>2, QueueAssumption
<1>4. QED  BY <1>2, <1>3, SameCardinality DEF Delivery!Batches

\* An answer takes the report away from what is held.
LEMMA AnswerHeld ==
    ASSUME OrderInv, worker = "send", report' = <<>>, UNCHANGED record_queue
    PROVE  /\ HeldInOrder'
           /\ SeqNos(Held)' = SeqNos(Held) \ SeqNos(report)
           /\ SeqNos(report) \in Delivery!Batches
<1> DEFINE s == record_queue.pending_entries
<1>1. /\ s \in Seq(MetricsRecord) /\ report \in Seq(MetricsRecord)
      /\ InOrder(report \o s) /\ Held = report \o s
  BY HeldFacts
<1>2. Held' = s
  <2>1. Held' = <<>> \o s
    BY DEF Held
  <2>2. <<>> \o s = s
    BY <1>1, ConcatEmptySeq
  <2>3. QED  BY <2>1, <2>2
<1>3. InOrder(s) /\ SeqNos(report) \cap SeqNos(s) = {}
  BY <1>1, InOrderConcat, InOrderApart
<1>4. SeqNos(Held) = SeqNos(report) \cup SeqNos(s)
  BY <1>1, SeqNosConcat
<1>5. SeqNos(report) \in Delivery!Batches
  <2>1. report # <<>> /\ Len(report) <= ReportMaxRecords
    BY DEF OrderInv, ReportNotEmpty, HeldBounded
  <2>2. QED  BY <1>1, <1>4, <2>1, SettleHeld
<1>6. SeqNos(Held)' = SeqNos(Held')
  OBVIOUS
<1> HIDE DEF s
<1>7. QED  BY <1>2, <1>3, <1>4, <1>5 DEF HeldInOrder

\* A record that comes back goes where it was; one that the server has named
\* goes for good.
LEMMA RequeueDelivers ==
    ASSUME OrderInv, RequeueEntry
    PROVE  HeldInOrder' /\ [Delivery!Next]_(Delivery!vars)
<1> DEFINE s == record_queue.pending_entries
           last == Last(report)
           front == Front(report)
           one == <<last>>
<1>1. /\ s \in Seq(MetricsRecord) /\ report \in Seq(MetricsRecord)
      /\ InOrder(report \o s) /\ Held = report \o s /\ record_queue \in RecordQueues
  BY HeldFacts
<1>2. /\ report # <<>> /\ report' = front /\ UNCHANGED discarded
      /\ \/ UNCHANGED record_queue /\ acked' = acked \cup {last.seq_no}
         \/ record_queue' = PushFront(record_queue, last) /\ UNCHANGED acked
  BY DEF RequeueEntry
<1>3. last \in MetricsRecord /\ front \in Seq(MetricsRecord) /\ report = front \o one
  BY <1>1, <1>2, FrontLast
<1> HIDE DEF last, front
<1>4. /\ one \in Seq(MetricsRecord) /\ one # <<>> /\ Len(one) = 1
      /\ SeqNos(one) = {last.seq_no}
  <2>1. SeqNos(one) = {last.seq_no}
    BY <1>3, SeqNosShort
  <2>2. one \in Seq(MetricsRecord) /\ one # <<>> /\ Len(one) = 1
    BY <1>3
  <2>3. QED  BY <2>1, <2>2
<1>5. CASE record_queue' = PushFront(record_queue, last) /\ UNCHANGED acked
  <2>1. /\ record_queue'.entry_sequence_no = record_queue.entry_sequence_no
        /\ front \o record_queue'.pending_entries = (front \o one) \o s
    BY <1>1, <1>3, <1>5, PushFrontProperties
  <2>2. Held' = Held
    BY <1>1, <1>2, <1>3, <2>1 DEF Held
  <2>3. QED  BY <1>1, <1>2, <1>5, <2>1, <2>2 DEF HeldInOrder, Delivery!vars
<1>6. CASE UNCHANGED record_queue /\ acked' = acked \cup {last.seq_no}
  <2>1. InOrder((front \o one) \o s) /\ Held = (front \o one) \o s
    BY <1>1, <1>3
  <2>2. Held' = front \o s
    BY <1>2, <1>6 DEF Held
  <2> HIDE DEF s, one
  <2>3. /\ InOrder(front \o s)
        /\ SeqNos(front \o s) = SeqNos((front \o one) \o s) \ SeqNos(one)
        /\ SeqNos(one) \subseteq SeqNos((front \o one) \o s)
    BY <1>1, <1>3, <1>4, <2>1, InOrderSplice
  <2>4. HeldInOrder' /\ SeqNos(Held') = SeqNos(Held) \ SeqNos(one)
    BY <2>1, <2>2, <2>3 DEF HeldInOrder
  <2>5. SeqNos(one) \in Delivery!Batches
    <3>1. SeqNos(one) \subseteq SeqNos(Held) /\ Len(one) <= ReportMaxRecords
      BY <1>4, <2>1, <2>3, QueueAssumption
    <3>2. QED  BY <1>4, <3>1, SettleHeld
  <2>6. Delivery!Confirm
    BY <1>2, <1>4, <1>6, <2>4, <2>5 DEF Delivery!Confirm
  <2>7. QED  BY <2>4, <2>6 DEF Delivery!Next
<1>7. QED  BY <1>2, <1>5, <1>6

\* Each step of the worker settles records that the report carries, or moves
\* records without changing what is held.
LEMMA WorkerDelivers ==
    ASSUME OrderInv, Worker
    PROVE  HeldInOrder' /\ [Delivery!Next]_(Delivery!vars)
<1> USE DEF queueVars
<1>1. ASSUME UNCHANGED <<record_queue, report, acked, discarded>>
      PROVE  HeldInOrder' /\ [Delivery!Next]_(Delivery!vars)
  BY <1>1 DEF OrderInv, HeldInOrder, Held, Delivery!vars
<1>2. CASE RecvFlushQueue \/ RecvFlushShutdown \/ RecvTimeout \/ SubmitNothing
              \/ RequeueDone \/ Ack \/ FinalAck
  BY <1>1, <1>2 DEF RecvFlushQueue, RecvFlushShutdown, RecvTimeout, SubmitNothing,
                    RequeueDone, Ack, FinalAck, SendAck
<1>3. CASE SubmitReport
  <2>1. /\ report = <<>> /\ report' = Report(record_queue)
        /\ record_queue' = DequeueForReport(record_queue)
        /\ UNCHANGED <<acked, discarded>>
    BY <1>3 DEF SubmitReport, MoveWorker, OrderInv, AccountInv, ReportInFlight
  <2>2. /\ record_queue \in RecordQueues
        /\ record_queue.pending_entries \in Seq(MetricsRecord)
        /\ Held = report \o record_queue.pending_entries /\ InOrder(Held)
    BY HeldFacts
  <2>3. /\ record_queue'.entry_sequence_no = record_queue.entry_sequence_no
        /\ report' \o record_queue'.pending_entries = record_queue.pending_entries
    BY <2>1, <2>2, DequeueProperties
  <2>4. <<>> \o record_queue.pending_entries = record_queue.pending_entries
    BY <2>2, ConcatEmptySeq
  <2>5. Held' = Held
    BY <2>1, <2>2, <2>3, <2>4 DEF Held
  <2>6. QED  BY <2>1, <2>2, <2>3, <2>5 DEF HeldInOrder, Delivery!vars
<1>4. CASE SendSucceeds
  <2>1. /\ worker = "send" /\ report' = <<>> /\ acked' = acked \cup SeqNos(report)
        /\ UNCHANGED <<record_queue, discarded>>
    BY <1>4 DEF SendSucceeds, MoveWorker
  <2>2. Delivery!Confirm
    BY <2>1, AnswerHeld DEF Delivery!Confirm
  <2>3. QED  BY <2>1, <2>2, AnswerHeld DEF Delivery!Next
<1>5. ASSUME NEW error, SendFailsForGood(error)
      PROVE  HeldInOrder' /\ [Delivery!Next]_(Delivery!vars)
  <2>1. /\ worker = "send" /\ report' = <<>>
        /\ discarded' = discarded \cup SeqNos(report)
        /\ UNCHANGED <<record_queue, acked>>
    BY <1>5 DEF SendFailsForGood, MoveWorker
  <2>2. Delivery!GiveUp
    BY <2>1, AnswerHeld DEF Delivery!GiveUp
  <2>3. QED  BY <2>1, <2>2, AnswerHeld DEF Delivery!Next
<1>6. ASSUME NEW error, SendFails(error)
      PROVE  HeldInOrder' /\ [Delivery!Next]_(Delivery!vars)
  BY <1>1, <1>6 DEF SendFails
<1>7. CASE RequeueEntry
  BY <1>7, RequeueDelivers
<1>8. QED
  BY <1>2, <1>3, <1>4, <1>5, <1>6, <1>7, WorkerCases

\* A submission always carries records.
LEMMA NotEmptyStep == TypeOK /\ ReportNotEmpty /\ [Next]_vars => ReportNotEmpty'
<1> SUFFICES ASSUME TypeOK, ReportNotEmpty, [Next]_vars PROVE ReportNotEmpty'
  OBVIOUS
<1> USE DEF ReportNotEmpty, MoveWorker
<1>1. CASE UNCHANGED <<worker, report>>
  BY <1>1
<1>2. CASE Worker
  <2>1. CASE SubmitReport
    <3>1. /\ record_queue \in RecordQueues
          /\ record_queue.pending_entries \in Seq(MetricsRecord)
          /\ record_queue.pending_entries # <<>>
      BY <2>1 DEF SubmitReport, TypeOK, RecordQueues
    <3>2. Len(record_queue.pending_entries) \in Nat \ {0}
      BY <3>1, LenProperties, EmptySeq
    <3>3. Report(record_queue) # <<>>
      <4>1. CASE Len(record_queue.pending_entries) > ReportMaxRecords
        <5>1. Len(Report(record_queue)) = ReportMaxRecords
          BY <3>1, <3>2, <4>1, SubSeqProperties, QueueAssumption DEF Report
        <5>2. QED  BY <5>1, QueueAssumption
      <4>2. QED  BY <3>1, <4>1 DEF Report
    <3>4. QED  BY <2>1, <3>3 DEF SubmitReport
  <2>2. CASE RecvFlushQueue \/ RecvFlushShutdown \/ RecvTimeout \/ SubmitNothing
                \/ RequeueEntry \/ RequeueDone \/ Ack \/ FinalAck
    BY <2>2 DEF RecvFlushQueue, RecvFlushShutdown, RecvTimeout, SubmitNothing,
                RequeueEntry, RequeueDone, Ack, FinalAck
  <2>3. CASE SendSucceeds \/ \E error : SendFailsForGood(error) \/ SendFails(error)
    BY <2>3 DEF SendSucceeds, SendFailsForGood, SendFails
  <2>4. QED  BY <1>2, <2>1, <2>2, <2>3, WorkerCases
<1>3. QED
  BY <1>1, <1>2, StepCases DEF workerVars

\* Every step keeps the order and is a step of MetricsDelivery or none at all.
LEMMA OrderStep ==
    OrderInv /\ TypeOK' /\ [Next]_vars => OrderInv' /\ [Delivery!Next]_(Delivery!vars)
<1> SUFFICES ASSUME OrderInv, TypeOK', [Next]_vars
             PROVE  OrderInv' /\ [Delivery!Next]_(Delivery!vars)
  OBVIOUS
<1>1. AccountInv'
  BY AccountStep DEF OrderInv
<1>2. HeldBounded'
  BY BoundStep DEF OrderInv, AccountInv, BoundInv
<1>3. ReportNotEmpty'
  BY NotEmptyStep DEF OrderInv, AccountInv
<1>4. HeldInOrder' /\ [Delivery!Next]_(Delivery!vars)
  <2>1. CASE Worker
    BY <2>1, WorkerDelivers
  <2>2. CASE UNCHANGED <<queueVars, report, acked>>
    BY <2>2 DEF queueVars, OrderInv, HeldInOrder, Held, Delivery!vars
  <2>3. CASE /\ PushRecord /\ UNCHANGED <<workerVars, acked>>
             /\ record_queue.entry_sequence_no < MaxRecords \/ owner = "add"
    <3>1. record_queue.entry_sequence_no <= MaxRecords + 1
      <4>1. NumbersBounded /\ record_queue.entry_sequence_no \in Nat
        BY HeldFacts DEF OrderInv, AccountInv
      <4>2. QED  BY <2>3, <4>1, ClientAssumption DEF NumbersBounded
    <3>2. record_queue.entry_sequence_no + 2 < SeqModulus
      BY <3>1, HeldFacts, ClientAssumption, QueueAssumption
    <3>3. QED  BY <2>3, <3>2, PushDelivers
  <2>4. QED  BY <2>1, <2>2, <2>3, StepCases
<1>5. QED  BY <1>1, <1>2, <1>3, <1>4 DEF OrderInv

\* The new client holds its "startup" record, in order.
LEMMA InitOrder == Init => OrderInv /\ Delivery!Init
<1> SUFFICES ASSUME Init PROVE OrderInv /\ Delivery!Init
  OBVIOUS
<1> DEFINE first == [seq_no |-> 1, report_type |-> "record"]
<1>1. /\ record_queue.entry_sequence_no = 1
      /\ record_queue.pending_entries = <<first>>
      /\ Len(record_queue.pending_entries) = 1
      /\ report = <<>> /\ acked = {} /\ discarded = {} /\ worker = "recv"
  BY InitialQueue DEF Init
<1>2. AccountInv
  BY InitAccount
<1>3. HeldBounded /\ ReportNotEmpty
  BY <1>1, QueueAssumption DEF HeldBounded, ReportNotEmpty
<1>4. first \in MetricsRecord
  BY DEF MetricsRecord, ReportTypes
<1> HIDE DEF first
<1>5. Held = <<first>>
  BY <1>1, <1>4, ConcatEmptySeq DEF Held
<1>6. HeldInOrder
  BY <1>5 DEF HeldInOrder, InOrder
<1>7. SeqNos(Held) = {1}
  BY <1>4, <1>5, SeqNosShort DEF first
<1>8. Delivery!Init
  <2>1. 1..1 = {1}
    OBVIOUS
  <2>2. QED  BY <1>1, <1>7, <2>1 DEF Delivery!Init
<1>9. QED  BY <1>2, <1>3, <1>6, <1>8 DEF OrderInv

\* Records are held, and so reported, in the order of their numbers, save for
\* the note that stands before the record whose add wrote it; none is held
\* twice, through drains, submissions and reports that come back.
THEOREM HeldStaysInOrder == Spec => []HeldInOrder
<1>1. OrderInv => HeldInOrder
  BY DEF OrderInv
<1>2. QED  BY <1>1, InitOrder, OrderStep, TypeCorrect, PTL DEF Spec

\* The client implements MetricsDelivery: each of its steps adds, makes room,
\* confirms a batch, gives one up, or changes none of it.
THEOREM ClientImplementsDelivery == Spec => ImplementsDelivery
BY InitOrder, OrderStep, TypeCorrect, PTL DEF Spec, ImplementsDelivery, Delivery!Spec

-----------------------------------------------------------------------------
(* The verdict on a record is final.                                       *)

\* What has a verdict is not open, by any of the abstract steps.
LEMMA VerdictStep ==
    NoRecordResent /\ NoRecordLost /\ TypeOK /\ [Delivery!Next]_(Delivery!vars) => NoRecordResent'
<1> SUFFICES ASSUME NoRecordResent, NoRecordLost, TypeOK, [Delivery!Next]_(Delivery!vars)
             PROVE  NoRecordResent'
  OBVIOUS
<1> DEFINE n == record_queue.entry_sequence_no
           held == SeqNos(Held)
<1>1. n \in Nat /\ acked \subseteq 1..n /\ discarded \subseteq 1..n
  BY DEF NoRecordLost, TypeOK, RecordQueues
<1>2. n + 1 \notin acked \cup discarded /\ n + 2 \notin acked \cup discarded
  BY <1>1
<1>3. held \cap (acked \cup discarded) = {} /\ acked \cap discarded = {}
  BY DEF NoRecordResent
<1>4. SUFFICES held' \cap (acked' \cup discarded') = {} /\ acked' \cap discarded' = {}
  BY DEF NoRecordResent
<1>5. CASE Delivery!Add
  <2>1. held' = held \cup {n + 1} /\ UNCHANGED <<acked, discarded>>
    BY <1>5 DEF Delivery!Add
  <2> HIDE DEF held, n
  <2>2. QED  BY <1>2, <1>3, <2>1
<1>6. CASE Delivery!AddMakingRoom
  <2>1. PICK gone \in SUBSET held :
          /\ held' = (held \ gone) \cup {n + 1, n + 2}
          /\ discarded' = discarded \cup gone /\ UNCHANGED acked
    BY <1>6 DEF Delivery!AddMakingRoom
  <2>2. n + 1 \notin gone /\ n + 2 \notin gone
    <3>1. held \subseteq 1..n
      BY DEF NoRecordLost
    <3>2. QED  BY <1>1, <3>1
  <2> HIDE DEF held, n
  <2>3. QED  BY <1>2, <1>3, <2>1, <2>2
<1>7. CASE Delivery!Confirm \/ Delivery!GiveUp
  <2>1. PICK batch \in SUBSET held :
          /\ held' = held \ batch
          /\ \/ acked' = acked \cup batch /\ UNCHANGED discarded
             \/ discarded' = discarded \cup batch /\ UNCHANGED acked
    BY <1>7 DEF Delivery!Confirm, Delivery!GiveUp, Delivery!Batches
  <2> HIDE DEF held
  <2>2. QED  BY <1>3, <2>1
<1>8. CASE UNCHANGED Delivery!vars
  BY <1>3, <1>8 DEF Delivery!vars
<1>9. QED  BY <1>5, <1>6, <1>7, <1>8 DEF Delivery!Next

\* A record that the server confirmed is never sent again, one that was given up
\* does not come back, and none is both.
THEOREM NoRecordIsResent == Spec => []NoRecordResent
<1>1. Init => NoRecordResent
  BY DEF Init, NoRecordResent
<1>2. OrderInv /\ TypeOK' /\ NoRecordResent /\ [Next]_vars => NoRecordResent'
  BY OrderStep, VerdictStep DEF OrderInv, AccountInv
<1>3. QED  BY <1>1, <1>2, InitOrder, OrderStep, TypeCorrect, PTL DEF Spec
=============================================================================
