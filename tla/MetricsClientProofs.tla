------------------------ MODULE MetricsClientProofs ------------------------
(***************************************************************************)
(* Facts about the operators of RecordQueue, for every queue, and proofs   *)
(* about MetricsClient, for any threads, limits and outcomes that satisfy  *)
(* the assumptions on the constants.                                       *)
(***************************************************************************)
EXTENDS MetricsClient, SequenceTheorems, TLAPS

-----------------------------------------------------------------------------
(* Numbers of records.                                                     *)

\* The numbers of two lists one after the other (report and queue, for
\* instance) are the numbers of both.
LEMMA SeqNosConcat ==
    ASSUME NEW s \in Seq(MetricsRecord), NEW t \in Seq(MetricsRecord)
    PROVE  SeqNos(s \o t) = SeqNos(s) \cup SeqNos(t)
<1>1. /\ s \o t \in Seq(MetricsRecord)
      /\ Len(s \o t) = Len(s) + Len(t)
      /\ \A i \in 1..(Len(s) + Len(t)) :
            (s \o t)[i] = IF i <= Len(s) THEN s[i] ELSE t[i - Len(s)]
  BY ConcatProperties
<1>2. /\ DOMAIN s = 1..Len(s) /\ Len(s) \in Nat
      /\ DOMAIN t = 1..Len(t) /\ Len(t) \in Nat
      /\ DOMAIN (s \o t) = 1..(Len(s) + Len(t))
  BY <1>1, LenProperties
<1>3. SeqNos(s \o t) \subseteq SeqNos(s) \cup SeqNos(t)
  <2>1. SUFFICES ASSUME NEW i \in 1..(Len(s) + Len(t))
                 PROVE  (s \o t)[i].seq_no \in SeqNos(s) \cup SeqNos(t)
    BY <1>2 DEF SeqNos
  <2>2. CASE i <= Len(s)
    BY <1>1, <1>2, <2>2 DEF SeqNos
  <2>3. CASE i > Len(s)
    <3>1. i - Len(s) \in DOMAIN t /\ (s \o t)[i] = t[i - Len(s)]
      BY <1>1, <1>2, <2>3
    <3>2. QED  BY <3>1 DEF SeqNos
  <2>4. QED  BY <1>2, <2>2, <2>3
<1>4. SeqNos(s) \subseteq SeqNos(s \o t)
  BY <1>1, <1>2 DEF SeqNos
<1>5. SeqNos(t) \subseteq SeqNos(s \o t)
  <2>1. SUFFICES ASSUME NEW i \in DOMAIN t
                 PROVE  t[i].seq_no \in SeqNos(s \o t)
    BY DEF SeqNos
  <2>2. /\ i + Len(s) \in DOMAIN (s \o t)
        /\ (s \o t)[i + Len(s)] = t[i]
    BY <1>1, <1>2
  <2>3. QED  BY <2>2 DEF SeqNos
<1>6. QED  BY <1>3, <1>4, <1>5

\* A list of one or two records.
LEMMA SeqNosShort ==
    ASSUME NEW r \in MetricsRecord, NEW n \in MetricsRecord
    PROVE  /\ SeqNos(<<>>) = {}
           /\ SeqNos(<<r>>) = {r.seq_no}
           /\ SeqNos(<<n, r>>) = {n.seq_no, r.seq_no}
<1>1. SeqNos(<<>>) = {}
  BY DEF SeqNos
<1>2. SeqNos(<<r>>) = {r.seq_no}
  <2>1. DOMAIN <<r>> = {1} /\ <<r>>[1] = r
    OBVIOUS
  <2>2. QED  BY <2>1 DEF SeqNos
<1>3. SeqNos(<<n, r>>) = {n.seq_no, r.seq_no}
  <2>1. DOMAIN <<n, r>> = {1, 2} /\ <<n, r>>[1] = n /\ <<n, r>>[2] = r
    OBVIOUS
  <2>2. QED  BY <2>1 DEF SeqNos
<1>4. QED  BY <1>1, <1>2, <1>3

\* The numbers of well-typed records are natural numbers.
LEMMA SeqNosType ==
    ASSUME NEW s \in Seq(MetricsRecord)
    PROVE  SeqNos(s) \subseteq Nat
<1>1. \A i \in DOMAIN s : s[i] \in MetricsRecord
  BY LenProperties, ElementOfSeq
<1>2. QED  BY <1>1 DEF SeqNos, MetricsRecord

-----------------------------------------------------------------------------
(* add_record.                                                             *)

\* What a drain keeps and what it takes, and that it always has something to
\* take: the range lies inside every queue above the limit.
LEMMA DrainProperties ==
    ASSUME NEW s \in Seq(MetricsRecord), Overfull(s)
    PROVE  /\ Drain(s) \in Seq(MetricsRecord)
           /\ Drained(s) \in Seq(MetricsRecord)
           /\ Len(Drain(s)) = Len(s) - (DropTo - DropFrom)
           /\ Len(Drained(s)) = DropTo - DropFrom
           /\ \A i \in 1..Len(Drain(s)) :
                 Drain(s)[i] = IF i <= DropFrom THEN s[i]
                                                ELSE s[i + (DropTo - DropFrom)]
           /\ \A i \in 1..Len(Drained(s)) : Drained(s)[i] = s[DropFrom + i]
<1> DEFINE head == SubSeq(s, 1, DropFrom)
           tail == SubSeq(s, DropTo + 1, Len(s))
<1>1. /\ Len(s) \in Nat /\ DropTo < Len(s) /\ DropFrom < DropTo
      /\ DropFrom \in Nat /\ DropTo \in Nat
      /\ \A i \in 1..Len(s) : s[i] \in MetricsRecord
  BY QueueAssumption, LenProperties, ElementOfSeq DEF Overfull
<1>2. /\ head \in Seq(MetricsRecord)
      /\ Len(head) = DropFrom
      /\ \A i \in 1..DropFrom : head[i] = s[i]
  <2>1. \A i \in 1..DropFrom : s[i] \in MetricsRecord
    BY <1>1
  <2>2. /\ head \in Seq(MetricsRecord)
        /\ Len(head) = IF 1 <= DropFrom THEN DropFrom - 1 + 1 ELSE 0
        /\ \A i \in 1..(DropFrom - 1 + 1) : head[i] = s[1 + i - 1]
    BY <1>1, <2>1, SubSeqProperties
  <2>3. QED  BY <1>1, <2>2
<1>3. /\ tail \in Seq(MetricsRecord)
      /\ Len(tail) = Len(s) - DropTo
      /\ \A i \in 1..(Len(s) - DropTo) : tail[i] = s[DropTo + i]
  <2>1. \A i \in (DropTo + 1)..Len(s) : s[i] \in MetricsRecord
    BY <1>1
  <2>2. /\ tail \in Seq(MetricsRecord)
        /\ Len(tail) = IF DropTo + 1 <= Len(s) THEN Len(s) - (DropTo + 1) + 1 ELSE 0
        /\ \A i \in 1..(Len(s) - (DropTo + 1) + 1) : tail[i] = s[DropTo + 1 + i - 1]
    BY <1>1, <2>1, SubSeqProperties
  <2>3. QED  BY <1>1, <2>2
<1>4. /\ Drained(s) \in Seq(MetricsRecord)
      /\ Len(Drained(s)) = DropTo - DropFrom
      /\ \A i \in 1..(DropTo - DropFrom) : Drained(s)[i] = s[DropFrom + i]
  <2>1. \A i \in (DropFrom + 1)..DropTo : s[i] \in MetricsRecord
    BY <1>1
  <2>2. Drained(s) = SubSeq(s, DropFrom + 1, DropTo)
    BY DEF Drained
  <2>3. /\ Drained(s) \in Seq(MetricsRecord)
        /\ Len(Drained(s)) = IF DropFrom + 1 <= DropTo THEN DropTo - (DropFrom + 1) + 1 ELSE 0
        /\ \A i \in 1..(DropTo - (DropFrom + 1) + 1) : Drained(s)[i] = s[DropFrom + 1 + i - 1]
    BY <1>1, <2>1, <2>2, SubSeqProperties
  <2>4. QED  BY <1>1, <2>3
<1>5. Drain(s) = head \o tail
  BY DEF Drain
<1> HIDE DEF head, tail
<1>6. /\ head \o tail \in Seq(MetricsRecord)
      /\ Len(head \o tail) = DropFrom + (Len(s) - DropTo)
      /\ \A i \in 1..(DropFrom + (Len(s) - DropTo)) :
            (head \o tail)[i] = IF i <= DropFrom THEN head[i] ELSE tail[i - DropFrom]
  <2>1. /\ head \o tail \in Seq(MetricsRecord)
        /\ Len(head \o tail) = Len(head) + Len(tail)
        /\ \A i \in 1..(Len(head) + Len(tail)) :
              (head \o tail)[i] = IF i <= Len(head) THEN head[i] ELSE tail[i - Len(head)]
    BY <1>2, <1>3, ConcatProperties
  <2>2. Len(head) = DropFrom /\ Len(tail) = Len(s) - DropTo
    BY <1>2, <1>3
  <2>3. QED  BY ONLY <2>1, <2>2
<1>7. \A i \in 1..(Len(s) - (DropTo - DropFrom)) :
          Drain(s)[i] = IF i <= DropFrom THEN s[i] ELSE s[i + (DropTo - DropFrom)]
  <2>1. SUFFICES ASSUME NEW i \in 1..(Len(s) - (DropTo - DropFrom))
                 PROVE  Drain(s)[i] = IF i <= DropFrom THEN s[i]
                                                       ELSE s[i + (DropTo - DropFrom)]
    OBVIOUS
  <2>2. CASE i <= DropFrom
    BY <1>1, <1>2, <1>5, <1>6, <2>2
  <2>3. CASE i > DropFrom
    <3>1. i - DropFrom \in 1..(Len(s) - DropTo)
      BY <1>1, <2>3
    <3>2. Drain(s)[i] = tail[i - DropFrom]
      BY <1>1, <1>5, <1>6, <2>3
    <3>3. tail[i - DropFrom] = s[DropTo + (i - DropFrom)]
      BY <1>3, <3>1
    <3>4. DropTo + (i - DropFrom) = i + (DropTo - DropFrom)
      BY <1>1
    <3>5. QED  BY <1>1, <2>3, <3>2, <3>3, <3>4
  <2>4. QED  BY <1>1, <2>2, <2>3
<1>8. /\ Len(Drain(s)) = Len(s) - (DropTo - DropFrom)
      /\ Drain(s) \in Seq(MetricsRecord)
  BY <1>1, <1>5, <1>6
<1>9. \A i \in 1..Len(Drain(s)) :
          Drain(s)[i] = IF i <= DropFrom THEN s[i] ELSE s[i + (DropTo - DropFrom)]
  BY <1>7, <1>8
<1>10. \A i \in 1..Len(Drained(s)) : Drained(s)[i] = s[DropFrom + i]
  BY <1>4
<1>11. QED  BY ONLY <1>4, <1>8, <1>9, <1>10

\* A drain splits the queue: every number stays or goes.
LEMMA DrainSeqNos ==
    ASSUME NEW s \in Seq(MetricsRecord), Overfull(s)
    PROVE  SeqNos(s) = SeqNos(Drain(s)) \cup SeqNos(Drained(s))
<1>1. /\ Len(s) \in Nat /\ DropTo < Len(s) /\ DropFrom < DropTo
      /\ DropFrom \in Nat /\ DropTo \in Nat /\ DOMAIN s = 1..Len(s)
  BY QueueAssumption, LenProperties DEF Overfull
<1>2. /\ DOMAIN Drain(s) = 1..(Len(s) - (DropTo - DropFrom))
      /\ \A i \in DOMAIN Drain(s) :
            Drain(s)[i] = IF i <= DropFrom THEN s[i] ELSE s[i + (DropTo - DropFrom)]
  BY DrainProperties, LenProperties
<1>3. /\ DOMAIN Drained(s) = 1..(DropTo - DropFrom)
      /\ \A i \in DOMAIN Drained(s) : Drained(s)[i] = s[DropFrom + i]
  BY DrainProperties, LenProperties
<1>4. SeqNos(s) \subseteq SeqNos(Drain(s)) \cup SeqNos(Drained(s))
  <2>1. SUFFICES ASSUME NEW i \in 1..Len(s)
                 PROVE  s[i].seq_no \in SeqNos(Drain(s)) \cup SeqNos(Drained(s))
    BY <1>1 DEF SeqNos
  <2>2. CASE i <= DropFrom
    <3>1. i \in DOMAIN Drain(s) /\ Drain(s)[i] = s[i]
      BY <1>1, <1>2, <2>2
    <3>2. QED  BY <3>1 DEF SeqNos
  <2>3. CASE i > DropFrom /\ i <= DropTo
    <3>1. /\ i - DropFrom \in DOMAIN Drained(s)
          /\ DropFrom + (i - DropFrom) = i
      BY <1>1, <1>3, <2>3
    <3>2. Drained(s)[i - DropFrom] = s[i]
      BY <1>3, <3>1
    <3>3. QED  BY <3>1, <3>2 DEF SeqNos
  <2>4. CASE i > DropTo
    <3>1. /\ i - (DropTo - DropFrom) \in DOMAIN Drain(s)
          /\ ~(i - (DropTo - DropFrom) <= DropFrom)
          /\ (i - (DropTo - DropFrom)) + (DropTo - DropFrom) = i
      BY <1>1, <1>2, <2>4
    <3>2. Drain(s)[i - (DropTo - DropFrom)] = s[i]
      BY <1>2, <3>1
    <3>3. QED  BY <3>1, <3>2 DEF SeqNos
  <2>5. QED  BY <1>1, <2>2, <2>3, <2>4
<1>5. SeqNos(Drain(s)) \subseteq SeqNos(s)
  <2>1. SUFFICES ASSUME NEW i \in DOMAIN Drain(s)
                 PROVE  Drain(s)[i].seq_no \in SeqNos(s)
    BY DEF SeqNos
  <2>2. CASE i <= DropFrom
    BY <1>1, <1>2, <2>2 DEF SeqNos
  <2>3. CASE i > DropFrom
    <3>1. i + (DropTo - DropFrom) \in DOMAIN s
      BY <1>1, <1>2
    <3>2. Drain(s)[i] = s[i + (DropTo - DropFrom)]
      BY <1>1, <1>2, <2>3
    <3>3. QED  BY <3>1, <3>2 DEF SeqNos
  <2>4. QED  BY <1>1, <1>2, <2>2, <2>3
<1>6. SeqNos(Drained(s)) \subseteq SeqNos(s)
  <2>1. SUFFICES ASSUME NEW i \in DOMAIN Drained(s)
                 PROVE  Drained(s)[i].seq_no \in SeqNos(s)
    BY DEF SeqNos
  <2>2. DropFrom + i \in DOMAIN s /\ Drained(s)[i] = s[DropFrom + i]
    BY <1>1, <1>3
  <2>3. QED  BY <2>2 DEF SeqNos
<1>7. QED  BY <1>4, <1>5, <1>6

\* wrapping_add stays inside the natural numbers, and below the modulus it
\* counts.
LEMMA NextSequenceIdProperties ==
    ASSUME NEW n \in Nat
    PROVE  /\ NextSequenceId(n) \in Nat
           /\ n + 1 < SeqModulus => NextSequenceId(n) = n + 1
  BY QueueAssumption DEF NextSequenceId

\* The queue that add_record leaves: a record at the end, after a drain with the
\* note right before it.
LEMMA AddRecordProperties ==
    ASSUME NEW q \in RecordQueues, NEW t \in ReportTypes
    PROVE  LET s == q.pending_entries
               a == AddRecord(q, t)
           IN  /\ a \in RecordQueues
               /\ Overfull(s) =>
                     Len(a.pending_entries) = Len(s) - (DropTo - DropFrom) + 2
               /\ ~Overfull(s) => Len(a.pending_entries) = Len(s) + 1
<1> DEFINE s == q.pending_entries
           a == AddRecord(q, t)
           number == NextSequenceId(q.entry_sequence_no)
           record == [seq_no |-> number, report_type |-> t]
           note == [seq_no |-> NextSequenceId(number), report_type |-> "metrics-dropped"]
<1>1. /\ s \in Seq(MetricsRecord)
      /\ q.entry_sequence_no \in Nat
  BY DEF RecordQueues
<1>2. number \in Nat /\ NextSequenceId(number) \in Nat
  BY <1>1, NextSequenceIdProperties
<1>3. record \in MetricsRecord /\ note \in MetricsRecord
  BY <1>2 DEF MetricsRecord, ReportTypes
<1>4. CASE Overfull(s)
  <2>1. a = [entry_sequence_no |-> note.seq_no,
             pending_entries |-> Drain(s) \o <<note, record>>]
    BY <1>4 DEF AddRecord
  <2>2. /\ Drain(s) \in Seq(MetricsRecord)
        /\ Len(Drain(s)) = Len(s) - (DropTo - DropFrom)
    BY <1>1, <1>4, DrainProperties
  <2>3. <<note, record>> \in Seq(MetricsRecord) /\ Len(<<note, record>>) = 2
    BY <1>3
  <2>4. /\ Drain(s) \o <<note, record>> \in Seq(MetricsRecord)
        /\ Len(Drain(s) \o <<note, record>>) = Len(s) - (DropTo - DropFrom) + 2
    BY <2>2, <2>3, ConcatProperties
  <2>5. QED  BY <1>2, <1>4, <2>1, <2>4 DEF RecordQueues
<1>5. CASE ~Overfull(s)
  <2>1. a = [entry_sequence_no |-> number, pending_entries |-> Append(s, record)]
    BY <1>5 DEF AddRecord
  <2>2. Append(s, record) \in Seq(MetricsRecord) /\ Len(Append(s, record)) = Len(s) + 1
    BY <1>1, <1>3, AppendProperties
  <2>3. QED  BY <1>2, <1>5, <2>1, <2>2 DEF RecordQueues
<1>6. QED  BY <1>4, <1>5

\* The numbers an add accounts for: those of the queue before it and the fresh
\* ones are in the queue after it or drained.
LEMMA AddRecordSeqNos ==
    ASSUME NEW q \in RecordQueues, NEW t \in ReportTypes,
           q.entry_sequence_no + 2 < SeqModulus
    PROVE  LET s == q.pending_entries
               n == q.entry_sequence_no
               a == AddRecord(q, t)
           IN  /\ a.entry_sequence_no \in {n + 1, n + 2}
               /\ SeqNos(a.pending_entries) \cup SeqNos(Drained(s))
                     = SeqNos(s) \cup (n + 1)..a.entry_sequence_no
<1> DEFINE s == q.pending_entries
           n == q.entry_sequence_no
           a == AddRecord(q, t)
           record == [seq_no |-> n + 1, report_type |-> t]
           note == [seq_no |-> n + 2, report_type |-> "metrics-dropped"]
<1>1. s \in Seq(MetricsRecord) /\ n \in Nat
  BY DEF RecordQueues
<1>2. NextSequenceId(n) = n + 1 /\ NextSequenceId(n + 1) = n + 2
  <2>1. n + 1 < SeqModulus /\ (n + 1) + 1 < SeqModulus /\ n + 1 \in Nat
    BY <1>1, QueueAssumption
  <2>2. NextSequenceId(n) = n + 1
    BY <1>1, <2>1, NextSequenceIdProperties
  <2>3. NextSequenceId(n + 1) = (n + 1) + 1
    BY <2>1, NextSequenceIdProperties
  <2>4. QED  BY <1>1, <2>2, <2>3
<1>3. record \in MetricsRecord /\ note \in MetricsRecord
  BY <1>1 DEF MetricsRecord, ReportTypes
<1>4. CASE Overfull(s)
  <2>1. a = [entry_sequence_no |-> n + 2,
             pending_entries |-> Drain(s) \o <<note, record>>]
    BY <1>2, <1>4 DEF AddRecord
  <2>2. Drain(s) \in Seq(MetricsRecord) /\ SeqNos(s) = SeqNos(Drain(s)) \cup SeqNos(Drained(s))
    BY <1>1, <1>4, DrainProperties, DrainSeqNos
  <2>3. <<note, record>> \in Seq(MetricsRecord)
    BY <1>3
  <2>4. SeqNos(<<note, record>>) = {note.seq_no, record.seq_no}
    BY <1>3, SeqNosShort
  <2>5. SeqNos(<<note, record>>) = (n + 1)..(n + 2)
    <3>1. (n + 1)..(n + 2) = {n + 1, n + 2}
      BY <1>1
    <3>2. QED  BY <2>4, <3>1
  <2> HIDE DEF note, record
  <2>6. SeqNos(Drain(s) \o <<note, record>>) = SeqNos(Drain(s)) \cup SeqNos(<<note, record>>)
    BY <2>2, <2>3, SeqNosConcat
  <2>7. /\ a.entry_sequence_no = n + 2
        /\ a.pending_entries = Drain(s) \o <<note, record>>
    BY <2>1
  <2> HIDE DEF a, s
  <2>8. QED  BY <2>2, <2>5, <2>6, <2>7 DEF a, s
<1>5. CASE ~Overfull(s)
  <2>1. a = [entry_sequence_no |-> n + 1, pending_entries |-> Append(s, record)]
    BY <1>2, <1>5 DEF AddRecord
  <2>2. Append(s, record) = s \o <<record>>
    BY <1>1, <1>3, AppendIsConcat
  <2>3. SeqNos(<<record>>) = {record.seq_no} /\ SeqNos(<<>>) = {}
    BY <1>3, SeqNosShort
  <2>4. SeqNos(<<record>>) = (n + 1)..(n + 1)
    <3>1. (n + 1)..(n + 1) = {n + 1}
      BY <1>1
    <3>2. QED  BY <2>3, <3>1
  <2>5. <<record>> \in Seq(MetricsRecord)
    BY <1>3
  <2> HIDE DEF record
  <2>6. SeqNos(s \o <<record>>) = SeqNos(s) \cup SeqNos(<<record>>)
    BY <1>1, <2>5, SeqNosConcat
  <2>7. Drained(s) = <<>>
    BY <1>5 DEF Drained
  <2>8. a.entry_sequence_no = n + 1 /\ a.pending_entries = s \o <<record>>
    BY <2>1, <2>2
  <2> HIDE DEF a, s
  <2>9. QED  BY <2>3, <2>4, <2>6, <2>7, <2>8 DEF a, s
<1>6. QED  BY <1>4, <1>5

\* A drain takes one range out of the middle, and never an empty one.
LEMMA DrainSplits ==
    ASSUME NEW s \in Seq(MetricsRecord), Overfull(s)
    PROVE  \E head, tail \in Seq(MetricsRecord) :
               /\ s = (head \o Drained(s)) \o tail
               /\ Drain(s) = head \o tail
<1> DEFINE head == SubSeq(s, 1, DropFrom)
           tail == SubSeq(s, DropTo + 1, Len(s))
<1>1. /\ Len(s) \in Nat /\ DropTo < Len(s) /\ DropFrom < DropTo
      /\ DropFrom \in Nat /\ DropTo \in Nat
      /\ \A i \in 1..Len(s) : s[i] \in MetricsRecord
  BY QueueAssumption, LenProperties, ElementOfSeq DEF Overfull
<1>2. head \in Seq(MetricsRecord)
  <2>1. \A i \in 1..DropFrom : s[i] \in MetricsRecord
    BY <1>1
  <2>2. QED  BY <1>1, <2>1, SubSeqProperties
<1>3. tail \in Seq(MetricsRecord)
  <2>1. \A i \in (DropTo + 1)..Len(s) : s[i] \in MetricsRecord
    BY <1>1
  <2>2. QED  BY <1>1, <2>1, SubSeqProperties
<1>4. head \o Drained(s) = SubSeq(s, 1, DropTo)
  <2>1. /\ 1 \in 1..(Len(s) + 1)
        /\ DropFrom \in (1 - 1)..Len(s)
        /\ DropTo \in DropFrom..Len(s)
    BY <1>1
  <2>2. SubSeq(s, 1, DropFrom) \o SubSeq(s, DropFrom + 1, DropTo) = SubSeq(s, 1, DropTo)
    BY ONLY <2>1, ConcatAdjacentSubSeq, s \in Seq(MetricsRecord)
  <2>3. QED  BY <2>2 DEF Drained
<1>5. SubSeq(s, 1, DropTo) \o tail = s
  <2>1. /\ 1 \in 1..(Len(s) + 1)
        /\ DropTo \in (1 - 1)..Len(s)
        /\ Len(s) \in DropTo..Len(s)
    BY <1>1
  <2>2. SubSeq(s, 1, DropTo) \o SubSeq(s, DropTo + 1, Len(s)) = SubSeq(s, 1, Len(s))
    BY ONLY <2>1, ConcatAdjacentSubSeq, s \in Seq(MetricsRecord)
  <2>3. SubSeq(s, 1, Len(s)) = s
    BY SubSeqFull
  <2>4. QED  BY <2>2, <2>3
<1>6. Drain(s) = head \o tail
  BY DEF Drain
<1> HIDE DEF head, tail
<1>7. QED  BY <1>2, <1>3, <1>4, <1>5, <1>6

\* The two ways an add ends, below the modulus of the numbers: a record at the
\* end, or a drain and the note right before the record.
LEMMA AddRecordAppends ==
    ASSUME NEW q \in RecordQueues, NEW t \in ReportTypes,
           q.entry_sequence_no + 2 < SeqModulus
    PROVE  LET s == q.pending_entries
               n == q.entry_sequence_no
               a == AddRecord(q, t)
           IN  \E record, note \in MetricsRecord :
                 /\ record.seq_no = n + 1 /\ note.seq_no = n + 2
                 /\ note.report_type = "metrics-dropped"
                 /\ ~Overfull(s) => /\ a.entry_sequence_no = n + 1
                                    /\ a.pending_entries = s \o <<record>>
                 /\ Overfull(s) => /\ a.entry_sequence_no = n + 2
                                   /\ a.pending_entries = Drain(s) \o <<note, record>>
<1> DEFINE s == q.pending_entries
           n == q.entry_sequence_no
           a == AddRecord(q, t)
           record == [seq_no |-> n + 1, report_type |-> t]
           note == [seq_no |-> n + 2, report_type |-> "metrics-dropped"]
<1>1. s \in Seq(MetricsRecord) /\ n \in Nat
  BY DEF RecordQueues
<1>2. NextSequenceId(n) = n + 1 /\ NextSequenceId(n + 1) = n + 2
  <2>1. n + 1 < SeqModulus /\ (n + 1) + 1 < SeqModulus /\ n + 1 \in Nat
    BY <1>1, QueueAssumption
  <2>2. NextSequenceId(n) = n + 1 /\ NextSequenceId(n + 1) = (n + 1) + 1
    BY <1>1, <2>1, NextSequenceIdProperties
  <2>3. QED  BY <1>1, <2>2
<1>3. record \in MetricsRecord /\ note \in MetricsRecord
  BY <1>1 DEF MetricsRecord, ReportTypes
<1>4. ASSUME ~Overfull(s)
      PROVE  a.entry_sequence_no = n + 1 /\ a.pending_entries = s \o <<record>>
  <2>1. a = [entry_sequence_no |-> n + 1, pending_entries |-> Append(s, record)]
    BY <1>2, <1>4 DEF AddRecord
  <2>2. Append(s, record) = s \o <<record>>
    BY <1>1, <1>3, AppendIsConcat
  <2>3. QED  BY <2>1, <2>2
<1>5. ASSUME Overfull(s)
      PROVE  /\ a.entry_sequence_no = n + 2
             /\ a.pending_entries = Drain(s) \o <<note, record>>
  BY <1>2, <1>5 DEF AddRecord
<1>6. record.seq_no = n + 1 /\ note.seq_no = n + 2 /\ note.report_type = "metrics-dropped"
  OBVIOUS
<1> HIDE DEF record, note
<1>7. QED  BY <1>3, <1>4, <1>5, <1>6

-----------------------------------------------------------------------------
(* dequeue_for_report.                                                     *)

\* The report and the queue it leaves are the queue it was taken from, and
\* neither has more than its share.
LEMMA DequeueProperties ==
    ASSUME NEW q \in RecordQueues
    PROVE  /\ Report(q) \in Seq(MetricsRecord)
           /\ DequeueForReport(q) \in RecordQueues
           /\ DequeueForReport(q).entry_sequence_no = q.entry_sequence_no
           /\ Report(q) \o DequeueForReport(q).pending_entries = q.pending_entries
           /\ Len(Report(q)) <= ReportMaxRecords
           /\ Len(Report(q)) + Len(DequeueForReport(q).pending_entries)
                = Len(q.pending_entries)
           /\ DequeueForReport(q).pending_entries # <<>> =>
                 Len(Report(q)) = ReportMaxRecords
<1> DEFINE s == q.pending_entries
           b == ReportMaxRecords
<1>1. /\ s \in Seq(MetricsRecord) /\ Len(s) \in Nat
      /\ q.entry_sequence_no \in Nat /\ b \in Nat \ {0}
      /\ \A i \in 1..Len(s) : s[i] \in MetricsRecord
  BY QueueAssumption, LenProperties, ElementOfSeq DEF RecordQueues
<1>2. CASE Len(s) > b
  <2> DEFINE rest == SubSeq(s, b + 1, Len(s))
  <2>1. Report(q) = SubSeq(s, 1, b)
    BY <1>2 DEF Report
  <2>2. DequeueForReport(q) = [entry_sequence_no |-> q.entry_sequence_no,
                               pending_entries |-> rest]
    <3>1. DequeueForReport(q) = [q EXCEPT !.pending_entries = rest]
      BY <1>2 DEF DequeueForReport
    <3> HIDE DEF rest
    <3>2. QED  BY <3>1 DEF RecordQueues
  <2>3. /\ SubSeq(s, 1, b) \in Seq(MetricsRecord)
        /\ Len(SubSeq(s, 1, b)) = b
    <3>1. \A i \in 1..b : s[i] \in MetricsRecord
      BY <1>1, <1>2
    <3>2. /\ SubSeq(s, 1, b) \in Seq(MetricsRecord)
          /\ Len(SubSeq(s, 1, b)) = IF 1 <= b THEN b - 1 + 1 ELSE 0
      BY <1>1, <3>1, SubSeqProperties
    <3>3. QED  BY <1>1, <3>2
  <2>4. /\ rest \in Seq(MetricsRecord)
        /\ Len(rest) = Len(s) - b
    <3>1. \A i \in (b + 1)..Len(s) : s[i] \in MetricsRecord
      BY <1>1, <1>2
    <3>2. /\ rest \in Seq(MetricsRecord)
          /\ Len(rest) = IF b + 1 <= Len(s) THEN Len(s) - (b + 1) + 1 ELSE 0
      BY <1>1, <3>1, SubSeqProperties
    <3>3. QED  BY <1>1, <1>2, <3>2
  <2>5. SubSeq(s, 1, b) \o rest = s
    <3>1. SubSeq(s, 1, b) \o SubSeq(s, b + 1, Len(s)) = SubSeq(s, 1, Len(s))
      <4>1. /\ 1 \in 1..(Len(s) + 1)
            /\ b \in (1 - 1)..Len(s)
            /\ Len(s) \in b..Len(s)
        BY <1>1, <1>2
      <4>2. QED  BY ONLY <1>1, <4>1, ConcatAdjacentSubSeq
    <3>2. SubSeq(s, 1, Len(s)) = s
      BY <1>1, SubSeqFull
    <3>3. QED  BY <3>1, <3>2
  <2> HIDE DEF rest
  <2>6. QED  BY <1>1, <2>1, <2>2, <2>3, <2>4, <2>5 DEF RecordQueues
<1>3. CASE ~(Len(s) > b)
  <2>1. Report(q) = s
    BY <1>3 DEF Report
  <2>2. DequeueForReport(q) = [entry_sequence_no |-> q.entry_sequence_no,
                               pending_entries |-> <<>>]
    BY <1>3 DEF DequeueForReport, RecordQueues
  <2>3. s \o <<>> = s
    BY <1>1, ConcatEmptySeq
  <2>4. /\ <<>> \in Seq(MetricsRecord) /\ Len(<<>>) = 0
    OBVIOUS
  <2>5. QED  BY <1>1, <1>3, <2>1, <2>2, <2>3, <2>4 DEF RecordQueues
<1>4. QED  BY <1>2, <1>3

-----------------------------------------------------------------------------
(* enqueue_failed.                                                         *)

\* The last record of a report and the records before it.
LEMMA FrontLast ==
    ASSUME NEW r \in Seq(MetricsRecord), r # <<>>
    PROVE  /\ Front(r) \in Seq(MetricsRecord)
           /\ Last(r) \in MetricsRecord
           /\ Len(r) \in Nat \ {0}
           /\ Len(Front(r)) = Len(r) - 1
           /\ r = Front(r) \o <<Last(r)>>
<1> DEFINE n == Len(r)
           front == SubSeq(r, 1, n - 1)
           last == r[n]
<1>1. /\ n \in Nat \ {0}
      /\ \A i \in 1..n : r[i] \in MetricsRecord
  BY LenProperties, ElementOfSeq, EmptySeq
<1>2. Front(r) = front /\ Last(r) = last
  BY DEF Front, Last
<1>3. front \in Seq(MetricsRecord) /\ Len(front) = n - 1
  <2>1. \A i \in 1..(n - 1) : r[i] \in MetricsRecord
    BY <1>1
  <2>2. /\ front \in Seq(MetricsRecord)
        /\ Len(front) = IF 1 <= n - 1 THEN (n - 1) - 1 + 1 ELSE 0
    BY <1>1, <2>1, SubSeqProperties
  <2> HIDE DEF front, n
  <2>3. QED  BY <1>1, <2>2
<1>4. r = front \o <<last>>
  <2>1. SubSeq(r, 1, n) = front \o <<last>>
    BY <1>1, SubSeqRecursiveSecond
  <2>2. SubSeq(r, 1, n) = r
    BY SubSeqFull
  <2> HIDE DEF front, last, n
  <2>3. QED  BY <2>1, <2>2
<1>5. last \in MetricsRecord
  BY <1>1
<1> HIDE DEF front, last
<1>6. QED  BY <1>1, <1>2, <1>3, <1>4, <1>5

\* Lists of records concatenate in any grouping.
LEMMA RecordsAssociative ==
    \A x, y, z \in Seq(MetricsRecord) : (x \o y) \o z = x \o (y \o z)
BY ConcatAssociative

\* Pushing a record to the front of the queue is moving it from the end of the
\* list before it.
LEMMA PushFrontProperties ==
    ASSUME NEW q \in RecordQueues, NEW r \in Seq(MetricsRecord), NEW e \in MetricsRecord
    PROVE  /\ PushFront(q, e) \in RecordQueues
           /\ PushFront(q, e).entry_sequence_no = q.entry_sequence_no
           /\ Len(PushFront(q, e).pending_entries) = Len(q.pending_entries) + 1
           /\ r \o PushFront(q, e).pending_entries = (r \o <<e>>) \o q.pending_entries
<1> DEFINE s == q.pending_entries
           one == <<e>>
<1>1. s \in Seq(MetricsRecord) /\ q.entry_sequence_no \in Nat
  BY DEF RecordQueues
<1>2. PushFront(q, e) = [entry_sequence_no |-> q.entry_sequence_no,
                         pending_entries |-> one \o s]
  <2>1. PushFront(q, e) = [q EXCEPT !.pending_entries = one \o s]
    BY DEF PushFront
  <2> HIDE DEF one
  <2>2. QED  BY <2>1 DEF RecordQueues
<1>3. one \in Seq(MetricsRecord) /\ Len(one) = 1
  OBVIOUS
<1> HIDE DEF one
<1>4. one \o s \in Seq(MetricsRecord) /\ Len(one \o s) = Len(s) + 1
  <2>1. Len(s) \in Nat
    BY <1>1, LenProperties
  <2>2. Len(one \o s) = Len(one) + Len(s) /\ one \o s \in Seq(MetricsRecord)
    BY <1>1, <1>3, ConcatProperties
  <2>3. QED  BY <1>3, <2>1, <2>2
<1>5. r \o (one \o s) = (r \o one) \o s
  <2> HIDE DEF s
  <2>1. (r \o one) \o s = r \o (one \o s)
    BY <1>1, <1>3, RecordsAssociative, Zenon
  <2>2. QED  BY <2>1
<1> HIDE DEF s
<1>6. /\ PushFront(q, e) \in RecordQueues
      /\ PushFront(q, e).entry_sequence_no = q.entry_sequence_no
      /\ PushFront(q, e).pending_entries = one \o s
  BY <1>1, <1>2, <1>4 DEF RecordQueues
<1>7. QED  BY <1>4, <1>5, <1>6 DEF one, s

-----------------------------------------------------------------------------
(* Type correctness.                                                       *)

\* What an add does to the queue, the actions and the discarded numbers.
LEMMA PushRecordType ==
    ASSUME TypeOK, PushRecord
    PROVE  /\ record_queue' \in RecordQueues
           /\ worker_actions' \in Seq(Actions)
           /\ discarded' \subseteq Nat
<1> DEFINE s == record_queue.pending_entries
<1>1. record_queue \in RecordQueues /\ s \in Seq(MetricsRecord) /\ discarded \subseteq Nat
  BY DEF TypeOK, RecordQueues
<1>2. record_queue' \in RecordQueues
  BY <1>1, AddRecordProperties DEF PushRecord, ReportTypes
<1>3. worker_actions' \in Seq(Actions)
  <2>1. worker_actions \in Seq(Actions) /\ "FlushQueue" \in Actions
    BY DEF TypeOK, Actions
  <2>2. Append(worker_actions, "FlushQueue") \in Seq(Actions)
    BY <2>1
  <2>3. QED  BY <2>1, <2>2 DEF PushRecord
<1>4. discarded' \subseteq Nat
  <2>1. Drained(s) \in Seq(MetricsRecord)
    <3>1. CASE Overfull(s)
      BY <1>1, <3>1, DrainProperties
    <3>2. CASE ~Overfull(s)
      BY <3>2 DEF Drained
    <3>3. QED  BY <3>1, <3>2
  <2>2. SeqNos(Drained(s)) \subseteq Nat
    BY <2>1, SeqNosType
  <2>3. QED  BY <1>1, <2>2 DEF PushRecord
<1>5. QED  BY <1>2, <1>3, <1>4

\* The new queue with the "startup" record.
LEMMA InitialQueue ==
    /\ NewQueue \in RecordQueues
    /\ AddRecord(NewQueue, "record") =
          [entry_sequence_no |-> 1,
           pending_entries |-> <<[seq_no |-> 1, report_type |-> "record"]>>]
    /\ AddRecord(NewQueue, "record") \in RecordQueues
    /\ Len(AddRecord(NewQueue, "record").pending_entries) = 1
<1>1. NewQueue \in RecordQueues /\ ~Overfull(NewQueue.pending_entries)
  BY QueueAssumption DEF NewQueue, RecordQueues, Overfull
<1>2. NextSequenceId(NewQueue.entry_sequence_no) = 1
  BY ClientAssumption, QueueAssumption DEF NewQueue, NextSequenceId
<1> DEFINE first == [seq_no |-> 1, report_type |-> "record"]
<1>3. AddRecord(NewQueue, "record") =
          [entry_sequence_no |-> 1, pending_entries |-> Append(<<>>, first)]
  BY <1>1, <1>2 DEF AddRecord, NewQueue
<1>4. first \in MetricsRecord
  BY DEF MetricsRecord, ReportTypes
<1> HIDE DEF first
<1>5. /\ Append(<<>>, first) = <<first>>
      /\ <<first>> \in Seq(MetricsRecord)
      /\ Len(<<first>>) = 1
  BY <1>4
<1>6. AddRecord(NewQueue, "record") \in RecordQueues
  BY <1>1, AddRecordProperties DEF ReportTypes
<1>7. QED  BY <1>1, <1>3, <1>5, <1>6 DEF first

\* MetricsClient::new makes a well-typed client.
LEMMA InitTypeOK == Init => TypeOK
<1> SUFFICES ASSUME Init PROVE TypeOK
  OBVIOUS
<1>1. record_queue \in RecordQueues
  BY InitialQueue DEF Init
<1>2. worker_actions \in Seq(Actions) /\ report \in Seq(MetricsRecord)
  BY DEF Init
<1>3. backoff_level \in 0..(BackoffIntervals - 1)
  BY ClientAssumption DEF Init
<1>4. flusher \in [Flushers -> [at : FlusherPlaces, blocking : BOOLEAN]]
  BY DEF Init, FlusherPlaces
<1>5. submit_error \in SubmitErrors
  BY DEF Init, SubmitErrors, DefaultSubmitError
<1>6. /\ acks \in 0..1 /\ flush_rx \in {"alive", "dropped"}
      /\ flush_rx_holder \in Flushers \cup {NoFlusher}
      /\ owner \in OwnerStates /\ worker \in WorkerStates
  BY DEF Init, OwnerStates, WorkerStates
<1>7. /\ send_timer_mode \in {"Normal", "Backoff", "BackoffForced"}
      /\ shutdown \in BOOLEAN /\ due \in BOOLEAN
      /\ deadline \in {"interval", "backoff", "retry_delay"}
      /\ process \in {"up", "blocked", "down"}
      /\ acked \subseteq Nat /\ discarded \subseteq Nat
  BY DEF Init
<1>8. QED  BY <1>1, <1>2, <1>3, <1>4, <1>5, <1>6, <1>7 DEF TypeOK

\* The submit errors are well typed.
LEMMA SubmitErrorsType ==
    ASSUME NEW outcome \in Outcomes, NEW r \in Seq(MetricsRecord),
           NEW error \in SubmitErrorsOf(outcome, r)
    PROVE  error \in SubmitErrors
<1>1. SeqNos(r) \subseteq Nat
  BY SeqNosType
<1>2. DefaultSubmitError \in SubmitErrors
  BY DEF DefaultSubmitError, SubmitErrors
<1>3. [DefaultSubmitError EXCEPT !.drop_records = FALSE] \in SubmitErrors
  BY DEF DefaultSubmitError, SubmitErrors
<1>4. CASE outcome \in DropOutcomes
  BY <1>2, <1>4 DEF SubmitErrorsOf, DropOutcomes
<1>5. CASE outcome \notin DropOutcomes /\ outcome = "RateLimited"
  <2>1. error \in [records_submitted : SUBSET SeqNos(r),
                   drop_records : {FALSE}, retry_delay : {TRUE}]
    BY <1>5 DEF SubmitErrorsOf
  <2>2. QED  BY <1>1, <2>1 DEF SubmitErrors
<1>6. CASE outcome \notin DropOutcomes /\ outcome # "RateLimited"
  BY <1>3, <1>6 DEF SubmitErrorsOf
<1>7. QED  BY <1>4, <1>5, <1>6

\* A remainder is a backoff level.
LEMMA BackoffLevel ==
    ASSUME backoff_level \in 0..(BackoffIntervals - 1)
    PROVE  /\ 0 \in 0..(BackoffIntervals - 1)
           /\ (backoff_level + 1) % BackoffIntervals \in 0..(BackoffIntervals - 1)
  BY ClientAssumption

\* Removing the head of the channel and adding at its end keep its type.
LEMMA ChannelType ==
    ASSUME worker_actions \in Seq(Actions)
    PROVE  /\ worker_actions # <<>> => Tail(worker_actions) \in Seq(Actions)
           /\ \A a \in Actions : Append(worker_actions, a) \in Seq(Actions)
  BY HeadTailProperties, AppendProperties

\* Every step keeps the types: the threads that add ...
LEMMA AddType == TypeOK /\ ClientAddRecord => TypeOK'
<1> SUFFICES ASSUME TypeOK, ClientAddRecord PROVE TypeOK'
  OBVIOUS
<1>1. /\ record_queue' \in RecordQueues
      /\ worker_actions' \in Seq(Actions)
      /\ discarded' \subseteq Nat
  BY PushRecordType DEF ClientAddRecord
<1>2. QED  BY <1>1 DEF TypeOK, ClientAddRecord, workerVars, timerVars, callVars

\* ... the threads that flush ...
LEMMA MoveFlusherType ==
    ASSUME flusher \in [Flushers -> [at : FlusherPlaces, blocking : BOOLEAN]],
           NEW f \in Flushers, NEW place \in FlusherPlaces, MoveFlusher(f, place)
    PROVE  flusher' \in [Flushers -> [at : FlusherPlaces, blocking : BOOLEAN]]
<1> DEFINE T == [at : FlusherPlaces, blocking : BOOLEAN]
<1>1. [flusher[f] EXCEPT !.at = place] \in T
  <2>1. flusher[f] \in T
    OBVIOUS
  <2>2. ASSUME NEW r \in T PROVE [r EXCEPT !.at = place] \in T
    BY <2>2
  <2>3. QED  BY <2>1, <2>2
<1> HIDE DEF T
<1>2. flusher' = [flusher EXCEPT ![f] = [flusher[f] EXCEPT !.at = place]]
  BY DEF MoveFlusher
<1>3. flusher' \in [Flushers -> T]
  <2> DEFINE moved == [flusher[f] EXCEPT !.at = place]
  <2>1. moved \in T /\ flusher' = [flusher EXCEPT ![f] = moved]
    BY <1>1, <1>2
  <2>2. flusher \in [Flushers -> T]
    BY DEF T
  <2> HIDE DEF moved
  <2>3. QED  BY <2>1, <2>2
<1>4. QED  BY <1>3 DEF T

\* ... all steps of flush() ...
LEMMA FlushType == ASSUME NEW f \in Flushers PROVE TypeOK /\ Flush(f) => TypeOK'
<1> SUFFICES ASSUME TypeOK, Flush(f) PROVE TypeOK'
  OBVIOUS
<1> USE DEF FlusherPlaces, MoveFlusher
<1>1. UNCHANGED <<queueVars, workerVars, flush_rx, owner, process, acked>>
  BY DEF Flush, FlushStepOf
<1>2. /\ flusher' \in [Flushers -> [at : FlusherPlaces, blocking : BOOLEAN]]
      /\ flush_rx_holder' \in Flushers \cup {NoFlusher}
      /\ acks' \in 0..1
      /\ worker_actions' \in Seq(Actions)
  <2>1. CASE FlushCall(f)
    BY <2>1 DEF FlushCall, TypeOK
  <2>2. CASE FlushLock(f)
    BY <2>2 DEF FlushLock, TypeOK
  <2>3. CASE FlushDrainOne(f)
    BY <2>3 DEF FlushDrainOne, TypeOK
  <2>4. CASE FlushDrained(f)
    BY <2>4 DEF FlushDrained, TypeOK
  <2>5. CASE FlushRequest(f)
    <3>1. worker_actions' \in Seq(Actions)
      BY <2>5, ChannelType DEF FlushRequest, TypeOK, Actions
    <3>2. CASE flusher[f].blocking
      <4>1. MoveFlusher(f, "recv") /\ UNCHANGED <<flush_rx_holder, acks>>
        BY <2>5, <3>2 DEF FlushRequest
      <4>2. flusher' \in [Flushers -> [at : FlusherPlaces, blocking : BOOLEAN]]
        BY <4>1, MoveFlusherType DEF TypeOK
      <4>3. QED  BY <3>1, <4>1, <4>2 DEF TypeOK
    <3>3. CASE ~flusher[f].blocking
      <4>1. FlushReturn(f) /\ UNCHANGED acks
        BY <2>5, <3>3 DEF FlushRequest
      <4>2. QED  BY <3>1, <4>1 DEF FlushReturn, TypeOK
    <3>4. QED  BY <3>2, <3>3
  <2>6. CASE FlushRecv(f)
    BY <2>6 DEF FlushRecv, FlushReturn, TypeOK
  <2>7. QED
    BY <2>1, <2>2, <2>3, <2>4, <2>5, <2>6 DEF Flush, FlushStepOf
<1>3. QED
  BY <1>1, <1>2 DEF TypeOK, queueVars, workerVars, timerVars

\* ... the owner ...
LEMMA OwnerType == TypeOK /\ Owner => TypeOK'
<1> SUFFICES ASSUME TypeOK, Owner PROVE TypeOK'
  OBVIOUS
<1> USE DEF MoveOwner, OwnerStates, queueVars
<1>1. UNCHANGED <<workerVars, flush_rx_holder, flusher, process, acked>>
  BY DEF Owner, OwnerStep, OwnerFrame
<1>2. /\ record_queue' \in RecordQueues /\ discarded' \subseteq Nat
      /\ worker_actions' \in Seq(Actions)
      /\ acks' \in 0..1 /\ flush_rx' \in {"alive", "dropped"}
      /\ owner' \in OwnerStates
  <2>1. CASE ShutdownCall
    BY <2>1 DEF ShutdownCall, TypeOK
  <2>2. CASE ShutdownDrainOne
    BY <2>2 DEF ShutdownDrainOne, TypeOK
  <2>3. CASE ShutdownDrained
    BY <2>3 DEF ShutdownDrained, TypeOK
  <2>4. CASE ShutdownAdd
    <3>1. /\ record_queue' \in RecordQueues
          /\ worker_actions' \in Seq(Actions)
          /\ discarded' \subseteq Nat
      BY <2>4, PushRecordType DEF ShutdownAdd
    <3>2. QED  BY <2>4, <3>1 DEF ShutdownAdd, TypeOK
  <2>5. CASE ShutdownRequest
    <3>1. worker_actions' \in Seq(Actions)
      BY <2>5, ChannelType DEF ShutdownRequest, TypeOK, Actions
    <3>2. QED  BY <2>5, <3>1 DEF ShutdownRequest, TypeOK
  <2>6. CASE ShutdownReturn
    BY <2>6 DEF ShutdownReturn, TypeOK
  <2>7. QED
    BY <2>1, <2>2, <2>3, <2>4, <2>5, <2>6 DEF Owner, OwnerStep
<1>3. QED
  BY <1>1, <1>2 DEF TypeOK, workerVars, timerVars

\* ... and the worker, whose answers carry a well-typed error.
LEMMA HandleFailureType ==
    ASSUME TypeOK, NEW error, HandleFailure(error)
    PROVE  /\ send_timer_mode' \in {"Normal", "Backoff", "BackoffForced"}
           /\ backoff_level' \in 0..(BackoffIntervals - 1)
           /\ deadline' \in {"interval", "backoff", "retry_delay"}
           /\ due' \in BOOLEAN
<1>1. /\ 0 \in 0..(BackoffIntervals - 1)
      /\ (backoff_level + 1) % BackoffIntervals \in 0..(BackoffIntervals - 1)
  BY BackoffLevel DEF TypeOK
<1>2. CASE HandleBackoffServer
  BY <1>1, <1>2 DEF HandleBackoffServer
<1>3. CASE HandleBackoffFailure
  BY <1>1, <1>3 DEF HandleBackoffFailure
<1>4. QED  BY <1>2, <1>3 DEF HandleFailure

\* The worker: its waits, submissions and requeues keep the types.
LEMMA WorkerType == TypeOK /\ Worker => TypeOK'
<1> SUFFICES ASSUME TypeOK, Worker PROVE TypeOK'
  OBVIOUS
<1> USE DEF MoveWorker, WorkerStates, queueVars, timerVars
<1> DEFINE WorkerTypeOK ==
        /\ record_queue \in RecordQueues /\ discarded \subseteq Nat
        /\ worker_actions \in Seq(Actions)
        /\ acks \in 0..1
        /\ worker \in WorkerStates
        /\ report \in Seq(MetricsRecord)
        /\ submit_error \in SubmitErrors
        /\ send_timer_mode \in {"Normal", "Backoff", "BackoffForced"}
        /\ backoff_level \in 0..(BackoffIntervals - 1)
        /\ shutdown \in BOOLEAN
        /\ deadline \in {"interval", "backoff", "retry_delay"}
        /\ due \in BOOLEAN
        /\ process \in {"up", "blocked", "down"}
        /\ acked \subseteq Nat
<1>1. UNCHANGED callVars
  BY DEF Worker
<1>2. WorkerTypeOK'
  <2>1. CASE RecvFlushQueue /\ UNCHANGED process
    <3>1. worker_actions' \in Seq(Actions)
      BY <2>1, ChannelType DEF RecvFlushQueue, TypeOK
    <3>2. worker' \in {"recv", "submit"}
      BY <2>1 DEF RecvFlushQueue
    <3>3. QED  BY <2>1, <3>1, <3>2 DEF RecvFlushQueue, TypeOK
  <2>2. CASE RecvFlushShutdown /\ UNCHANGED process
    <3>1. worker_actions' \in Seq(Actions)
      BY <2>2, ChannelType DEF RecvFlushShutdown, TypeOK
    <3>2. QED  BY <2>2, <3>1 DEF RecvFlushShutdown, TypeOK
  <2>3. CASE RecvTimeout /\ UNCHANGED process
    BY <2>3 DEF RecvTimeout, TypeOK
  <2>4. CASE SubmitNothing /\ UNCHANGED process
    BY <2>4 DEF SubmitNothing, HandleQueueEmpty, TypeOK
  <2>5. CASE SubmitReport /\ UNCHANGED process
    <3>1. record_queue' \in RecordQueues /\ report' \in Seq(MetricsRecord)
      BY <2>5, DequeueProperties DEF SubmitReport, TypeOK
    <3>2. QED  BY <2>5, <3>1 DEF SubmitReport, TypeOK
  <2>6. CASE RequeueEntry /\ UNCHANGED process
    <3>1. /\ Front(report) \in Seq(MetricsRecord)
          /\ Last(report) \in MetricsRecord
      BY <2>6, FrontLast DEF RequeueEntry, TypeOK
    <3>2. Last(report).seq_no \in Nat
      BY <3>1 DEF MetricsRecord
    <3>3. PushFront(record_queue, Last(report)) \in RecordQueues
      BY <3>1, PushFrontProperties DEF TypeOK
    <3> HIDE DEF MoveWorker, WorkerStates
    <3>4. record_queue' \in RecordQueues /\ acked' \subseteq Nat
      BY <2>6, <3>2, <3>3 DEF RequeueEntry, TypeOK
    <3>5. QED  BY <2>6, <3>1, <3>4 DEF RequeueEntry, TypeOK
  <2>7. CASE RequeueDone /\ UNCHANGED process
    <3>1. submit_error' \in SubmitErrors
      BY <2>7 DEF RequeueDone, DefaultSubmitError, SubmitErrors
    <3>2. QED  BY <2>7, <3>1, HandleFailureType DEF RequeueDone, TypeOK
  <2>8. CASE (Ack \/ FinalAck) /\ UNCHANGED process
    <3>1. worker' \in WorkerStates
      BY <2>8 DEF Ack, FinalAck
    <3>2. acks' \in 0..1
      BY <2>8 DEF Ack, FinalAck, SendAck, TypeOK
    <3>3. UNCHANGED <<queueVars, worker_actions, report, submit_error, shutdown,
                      timerVars, process, acked>>
      BY <2>8 DEF Ack, FinalAck, SendAck
    <3>4. QED  BY <3>1, <3>2, <3>3 DEF TypeOK
  <2>9. CASE Send
    <3>1. SeqNos(report) \subseteq Nat /\ <<>> \in Seq(MetricsRecord)
      BY SeqNosType DEF TypeOK
    <3>2. PICK outcome \in Outcomes :
            \/ /\ SendSucceeds
               /\ process' = IF outcome = "InstanceBlocked" THEN "blocked" ELSE process
            \/ /\ \E error \in SubmitErrorsOf(outcome, report) :
                      SendFailsForGood(error) \/ SendFails(error)
               /\ UNCHANGED process
      BY <2>9 DEF Send
    <3>3. process' \in {"up", "blocked", "down"}
      BY <3>2 DEF TypeOK
    <3>4. CASE SendSucceeds
      BY <3>1, <3>3, <3>4 DEF SendSucceeds, HandleSuccess, TypeOK
    <3>5. ASSUME NEW error \in SubmitErrorsOf(outcome, report), SendFailsForGood(error)
          PROVE  WorkerTypeOK'
      BY <3>1, <3>3, <3>5, HandleFailureType DEF SendFailsForGood, TypeOK
    <3>6. ASSUME NEW error \in SubmitErrorsOf(outcome, report), SendFails(error)
          PROVE  WorkerTypeOK'
      <4>1. error \in SubmitErrors
        BY SubmitErrorsType DEF TypeOK
      <4>2. QED  BY <3>3, <3>6, <4>1 DEF SendFails, TypeOK
    <3>7. QED  BY <3>2, <3>4, <3>5, <3>6
  <2> HIDE DEF WorkerTypeOK, MoveWorker, WorkerStates, queueVars, timerVars
  <2>10. QED
    BY <2>1, <2>2, <2>3, <2>4, <2>5, <2>6, <2>7, <2>8, <2>9 DEF Worker
<1>3. QED
  BY <1>1, <1>2 DEF TypeOK, callVars

\* Type correctness: no thread ever leaves a value of a wrong kind behind.
THEOREM TypeCorrect == Spec => []TypeOK
<1>1. Init => TypeOK
  BY InitTypeOK
<1>2. TypeOK /\ [Next]_vars => TypeOK'
  <2> SUFFICES ASSUME TypeOK, [Next]_vars PROVE TypeOK'
    OBVIOUS
  <2>1. CASE ClientAddRecord
    BY <2>1, AddType
  <2>2. ASSUME NEW f \in Flushers, Flush(f) PROVE TypeOK'
    BY <2>2, FlushType
  <2>3. CASE Owner
    BY <2>3, OwnerType
  <2>4. CASE Worker
    BY <2>4, WorkerType
  <2>5. CASE DeadlinePasses
    BY <2>5 DEF DeadlinePasses, TypeOK, queueVars, callVars
  <2>6. CASE Crash
    BY <2>6 DEF Crash, TypeOK, queueVars, workerVars, timerVars, callVars
  <2>7. CASE UNCHANGED vars
    BY <2>7 DEF vars, TypeOK, queueVars, workerVars, timerVars, callVars
  <2>8. QED
    BY <2>1, <2>2, <2>3, <2>4, <2>5, <2>6, <2>7 DEF Next, Stopped
<1>3. QED  BY <1>1, <1>2, PTL DEF Spec
=============================================================================
