---------------------------- MODULE RecordQueue ----------------------------
(***************************************************************************)
(* The queue of metrics records (crates/vtd-metrics/src/queue.rs): the     *)
(* fields of RecordQueue as a record, its methods as operators from a      *)
(* queue to the queue the method leaves behind.  All of them run under the *)
(* mutex of the metrics client, see MetricsClient.                         *)
(*                                                                         *)
(* A metrics record is kept as its sequence number and the one distinction *)
(* the queue makes: records it was given, and the "metrics-dropped" notes  *)
(* it writes itself.                                                       *)
(***************************************************************************)
EXTENDS Integers, SequencesExt

CONSTANTS
    QueueLimit,         \* 50_000: above this length the next add drains
    DropFrom, DropTo,   \* 10_000 and 15_000: the drained range, 0 based, half open
    ReportMaxRecords,   \* 100: the most records one report carries
    SeqModulus          \* 2^32: sequence numbers are u32

\* What the literals in queue.rs satisfy: the drained range lies inside a
\* queue above the limit, and one drain outweighs a whole report that comes
\* back and the two records an add appends.
ASSUME QueueAssumption ==
    /\ QueueLimit \in Nat /\ DropFrom \in Nat /\ DropTo \in Nat
    /\ ReportMaxRecords \in Nat \ {0} /\ SeqModulus \in Nat \ {0}
    /\ DropTo <= QueueLimit
    /\ DropFrom + ReportMaxRecords < DropTo
    /\ DropFrom + 2 <= DropTo

ReportTypes == {"record", "metrics-dropped"}

MetricsRecord == [seq_no : Nat, report_type : ReportTypes]

RecordQueues == [entry_sequence_no : Nat, pending_entries : Seq(MetricsRecord)]

NewQueue == [entry_sequence_no |-> 0, pending_entries |-> <<>>]

\* u32::wrapping_add(1) on a number below SeqModulus.
NextSequenceId(n) == IF n + 1 = SeqModulus THEN 0 ELSE n + 1

SeqNos(entries) == {entries[i].seq_no : i \in DOMAIN entries}

\* Mutant: drains at one length only, and not above it.
OverfullAtOneLength(entries) == Len(entries) = QueueLimit + 1

Overfull(entries) == Len(entries) > QueueLimit

\* VecDeque::drain(DropFrom..DropTo): what goes and what stays.
Drained(entries) ==
    IF Overfull(entries) THEN SubSeq(entries, DropFrom + 1, DropTo) ELSE <<>>

Drain(entries) ==
    SubSeq(entries, 1, DropFrom) \o SubSeq(entries, DropTo + 1, Len(entries))

\* add_record.  The record takes its number first; a drain then adds the note,
\* which takes the next number but enters the queue ahead of the record.  The
\* note's own add finds room (QueueBounded in MetricsClient), so the
\* recursion in the code is one level deep.
AddRecord(queue, report_type) ==
    LET number  == NextSequenceId(queue.entry_sequence_no)
        record  == [seq_no |-> number, report_type |-> report_type]
        note    == [seq_no |-> NextSequenceId(number), report_type |-> "metrics-dropped"]
    IN  IF Overfull(queue.pending_entries)
        THEN [entry_sequence_no |-> note.seq_no,
              pending_entries   |-> Drain(queue.pending_entries) \o <<note, record>>]
        ELSE [entry_sequence_no |-> number,
              pending_entries   |-> Append(queue.pending_entries, record)]

\* dequeue_for_report: the report, and the queue without it.  An empty report
\* stands for None.
Report(queue) ==
    IF Len(queue.pending_entries) > ReportMaxRecords
    THEN SubSeq(queue.pending_entries, 1, ReportMaxRecords)
    ELSE queue.pending_entries

\* Mutant: the rest starts one record too late.
DequeueOneTooMany(queue) ==
    [queue EXCEPT !.pending_entries =
        IF Len(@) > ReportMaxRecords
        THEN SubSeq(@, ReportMaxRecords + 2, Len(@))
        ELSE <<>>]

DequeueForReport(queue) ==
    [queue EXCEPT !.pending_entries =
        IF Len(@) > ReportMaxRecords
        THEN SubSeq(@, ReportMaxRecords + 1, Len(@))
        ELSE <<>>]

\* Mutant: push_back instead of push_front.
PushFailedBack(queue, entry) ==
    [queue EXCEPT !.pending_entries = Append(@, entry)]

\* One round of the loop in enqueue_failed.
PushFront(queue, entry) ==
    [queue EXCEPT !.pending_entries = <<entry>> \o @]
=============================================================================
