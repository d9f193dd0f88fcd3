--------------------------- MODULE EnumerationProofs ---------------------------
(***************************************************************************)
(* Proofs about Enumeration, for any ids, buffers and numbers of attempts, *)
(* and whatever comes and goes while a list is made: its types, what is in *)
(* a list, and what has to happen for all attempts to fail.                *)
(***************************************************************************)
EXTENDS Enumeration, FiniteSetTheorems, SequenceTheorems, TLAPS

-----------------------------------------------------------------------------
(* The order of the system.                                                *)

Below(S, x) == {other \in S : other < x}

\* Where a number stands in a finite set: at a place of its own.
LEMMA PlaceProperties ==
    ASSUME NEW S \in SUBSET Nat, IsFiniteSet(S)
    PROVE  /\ \A x \in S : Cardinality(Below(S, x)) \in 0..(Cardinality(S) - 1)
           /\ \A x, y \in S : Cardinality(Below(S, x)) = Cardinality(Below(S, y)) => x = y
           /\ \A x, y \in S : Cardinality(Below(S, x)) < Cardinality(Below(S, y)) => x < y
<1>1. \A x \in S : IsFiniteSet(Below(S, x)) /\ Cardinality(Below(S, x)) \in Nat
  BY FS_Subset, FS_CardinalityType DEF Below
<1>2. ASSUME NEW x \in S PROVE Cardinality(Below(S, x)) < Cardinality(S)
  <2>1. Below(S, x) \in SUBSET S /\ x \notin Below(S, x)
    BY DEF Below
  <2>2. Cardinality(Below(S, x)) <= Cardinality(S) /\ Cardinality(Below(S, x)) # Cardinality(S)
    BY <2>1, FS_Subset
  <2>3. Cardinality(S) \in Nat
    BY FS_CardinalityType
  <2>4. QED  BY <1>1, <2>2, <2>3
<1>3. ASSUME NEW x \in S, NEW y \in S, x < y
      PROVE  Cardinality(Below(S, x)) < Cardinality(Below(S, y))
  <2>1. Below(S, x) \in SUBSET Below(S, y) /\ x \in Below(S, y) /\ x \notin Below(S, x)
    <3>1. x \in Nat /\ y \in Nat /\ \A other \in S : other \in Nat
      OBVIOUS
    <3>2. \A other \in S : other < x => other < y
      BY ONLY <1>3, <3>1
    <3>3. ~(x < x)
      BY ONLY <3>1
    <3>4. QED  BY <1>3, <3>2, <3>3 DEF Below
  <2>2. /\ Cardinality(Below(S, x)) <= Cardinality(Below(S, y))
        /\ Cardinality(Below(S, x)) # Cardinality(Below(S, y))
    BY <1>1, <2>1, FS_Subset
  <2>3. QED  BY <1>1, <2>2
<1>4. Cardinality(S) \in Nat
  BY FS_CardinalityType
<1>5. \A x \in S : Cardinality(Below(S, x)) \in 0..(Cardinality(S) - 1)
  BY <1>1, <1>2, <1>4
<1>6. \A x, y \in S : Cardinality(Below(S, x)) = Cardinality(Below(S, y)) => x = y
  BY <1>1, <1>3
<1>7. \A x, y \in S : Cardinality(Below(S, x)) < Cardinality(Below(S, y)) => x < y
  <2> SUFFICES ASSUME NEW x \in S, NEW y \in S, y <= x
               PROVE  ~(Cardinality(Below(S, x)) < Cardinality(Below(S, y)))
    OBVIOUS
  <2>1. CASE x = y
    BY <1>1, <2>1
  <2>2. CASE y < x
    BY <1>1, <1>3, <2>2
  <2>3. QED  BY <2>1, <2>2
<1>8. QED  BY <1>5, <1>6, <1>7

\* And every place is somebody's.
LEMMA PlaceTaken ==
    ASSUME NEW S \in SUBSET Nat, IsFiniteSet(S), NEW k \in 0..(Cardinality(S) - 1)
    PROVE  \E x \in S : Cardinality(Below(S, x)) = k
<1> DEFINE c == Cardinality(S)
           place == [x \in S |-> Cardinality(Below(S, x))]
<1>1. c \in Nat
  BY FS_CardinalityType
<1>2. place \in Injection(S, 0..(c - 1))
  BY PlaceProperties DEF Injection, IsInjective
<1>3. IsFiniteSet(0..(c - 1)) /\ Cardinality(0..(c - 1)) = c
  <2> HIDE DEF c
  <2>1. 0 \in Int /\ c - 1 \in Int
    BY <1>1
  <2>2. IsFiniteSet(0..(c - 1)) /\ Cardinality(0..(c - 1)) = IF 0 > c - 1 THEN 0 ELSE (c - 1) - 0 + 1
    BY <2>1, FS_Interval
  <2>3. QED  BY <1>1, <2>2
<1>4. place \in Surjection(S, 0..(c - 1))
  <2> HIDE DEF place
  <2>1. QED  BY <1>2, <1>3, FS_Injection
<1>5. QED  BY <1>4 DEF Surjection

\* What a Vec of n elements gets: ids that there are, each once, and all if
\* there are no more than n.
LEMMA AtMostProperties ==
    ASSUME live \subseteq Ids, NEW n \in Nat
    PROVE  /\ AtMost(n) \in Seq(live)
           /\ Len(AtMost(n)) = IF Cardinality(live) <= n THEN Cardinality(live) ELSE n
           /\ \A i, j \in DOMAIN AtMost(n) : i # j => AtMost(n)[i] # AtMost(n)[j]
           /\ \A i, j \in DOMAIN AtMost(n) : i < j => AtMost(n)[i] < AtMost(n)[j]
           /\ Cardinality(live) <= n =>
                 \A id \in live : \E i \in DOMAIN AtMost(n) : AtMost(n)[i] = id
<1> DEFINE c == Cardinality(live)
           m == IF c <= n THEN c ELSE n
           list == AtMost(n)
<1>1. IsFiniteSet(live) /\ live \in SUBSET Nat
  BY EnumerationAssumption, FS_Subset
<1>2. c \in Nat /\ m \in Nat /\ m <= c
  BY <1>1, FS_CardinalityType
<1> DEFINE Pick(i) == CHOOSE id \in live : Cardinality(Below(live, id)) = i - 1
<1>3. ASSUME NEW i \in 1..m
      PROVE  Pick(i) \in live /\ Cardinality(Below(live, Pick(i))) = i - 1
  <2>1. i - 1 \in 0..(c - 1)
    BY <1>2
  <2>2. \E x \in live : Cardinality(Below(live, x)) = i - 1
    BY <1>1, <2>1, PlaceTaken
  <2>3. QED  BY <2>2
<1>4. /\ list \in [1..m -> live]
      /\ \A i \in 1..m : Cardinality(Below(live, list[i])) = i - 1
  <2>1. list = [i \in 1..m |-> Pick(i)]
    BY DEF AtMost, Below
  <2> HIDE DEF m, list, Pick
  <2>2. QED  BY <1>3, <2>1
<1> HIDE DEF m, list, Pick
<1>5. list \in Seq(live) /\ Len(list) = m /\ DOMAIN list = 1..m
  BY <1>2, <1>4
<1>6. \A i, j \in 1..m : i # j => list[i] # list[j]
  <2> SUFFICES ASSUME NEW i \in 1..m, NEW j \in 1..m, list[i] = list[j] PROVE i = j
    OBVIOUS
  <2>1. i - 1 = j - 1
    BY <1>4
  <2>2. QED  BY <1>2, <2>1
<1>7. c <= n => \A id \in live : \E i \in 1..m : list[i] = id
  <2> SUFFICES ASSUME c <= n, NEW id \in live PROVE \E i \in 1..m : list[i] = id
    OBVIOUS
  <2> DEFINE k == Cardinality(Below(live, id))
  <2>1. k \in 0..(c - 1)
    BY <1>1, PlaceProperties
  <2>2. k + 1 \in 1..m /\ (k + 1) - 1 = k
    BY <1>2, <2>1 DEF m
  <2>3. list[k + 1] \in live /\ Cardinality(Below(live, list[k + 1])) = k
    BY <1>4, <2>2
  <2>4. \A x, y \in live :
            Cardinality(Below(live, x)) = Cardinality(Below(live, y)) => x = y
    BY <1>1, PlaceProperties
  <2>5. list[k + 1] = id
    BY <2>3, <2>4
  <2>6. QED  BY <2>2, <2>5
<1>8. \A i, j \in 1..m : i < j => list[i] < list[j]
  <2> SUFFICES ASSUME NEW i \in 1..m, NEW j \in 1..m, i < j PROVE list[i] < list[j]
    OBVIOUS
  <2>1. Cardinality(Below(live, list[i])) < Cardinality(Below(live, list[j]))
    BY <1>2, <1>4
  <2>2. list[i] \in live /\ list[j] \in live
    BY <1>4
  <2>3. \A x, y \in live :
            Cardinality(Below(live, x)) < Cardinality(Below(live, y)) => x < y
    BY <1>1, PlaceProperties
  <2>4. QED  BY ONLY <2>1, <2>2, <2>3
<1>9. QED  BY <1>5, <1>6, <1>7, <1>8 DEF m, list

-----------------------------------------------------------------------------
(* Type correctness.                                                       *)

\* Vec::resize_with only ever makes the buffer longer here.
LEMMA ResizedProperties ==
    ASSUME NEW entries \in Seq(Entry), NEW size \in Nat, Len(entries) <= size
    PROVE  Resized(entries, size) \in Seq(Entry) /\ Len(Resized(entries, size)) = size
<1> DEFINE blank == [id |-> NoId, attempt |-> 0]
           n == size - Len(entries)
           more == [i \in 1..n |-> blank]
<1>1. blank \in Entry
  BY EnumerationAssumption DEF Entry
<1> HIDE DEF blank
<1>2. n \in Nat /\ Len(entries) \in Nat
  BY LenProperties
<1>3. more \in Seq(Entry) /\ Len(more) = n
  <2> HIDE DEF n
  <2>1. QED  BY <1>1, <1>2
<1>4. Resized(entries, size) = entries \o more
  BY DEF Resized, blank
<1> HIDE DEF more
<1>5. entries \o more \in Seq(Entry) /\ Len(entries \o more) = Len(entries) + n
  BY <1>3, ConcatProperties
<1>6. QED  BY <1>2, <1>4, <1>5

\* What the driver takes for a list: what there is, and garbage for modules it
\* has no room for.
LEMMA EnumeratedList ==
    ASSUME live \subseteq Ids, driver_length \in Nat
    PROVE  LET list == AtMost(driver_length) \o
                       [i \in 1..(Found - Len(AtMost(driver_length))) |-> NoId]
           IN  /\ list \in Seq(Ids \cup {NoId})
               /\ Found <= driver_length => list = AtMost(driver_length)
               /\ Found < driver_length => Cardinality(live) <= driver_length
<1> DEFINE front == AtMost(driver_length)
           n == Found - Len(front)
           back == [i \in 1..n |-> NoId]
           c == Cardinality(live)
<1>1. /\ front \in Seq(live) /\ Len(front) = IF c <= driver_length THEN c ELSE driver_length
      /\ c \in Nat
  <2>1. IsFiniteSet(live)
    BY EnumerationAssumption, FS_Subset
  <2>2. QED  BY <2>1, AtMostProperties, FS_CardinalityType
<1>2. front \in Seq(Ids \cup {NoId})
  BY <1>1, SeqMonotonic
<1>3. Found = IF ReportsNeeded THEN c ELSE Len(front)
  BY DEF Found
<1> HIDE DEF front, c
<1>4. n \in Nat /\ (Found <= driver_length => n = 0) /\ (Found < driver_length => c <= driver_length)
  BY <1>1, <1>3, EnumerationAssumption
<1> HIDE DEF n
<1>5. back \in Seq(Ids \cup {NoId}) /\ (n = 0 => back = <<>>)
  BY <1>4
<1> HIDE DEF back
<1>6. front \o back \in Seq(Ids \cup {NoId}) /\ (back = <<>> => front \o back = front)
  BY <1>2, <1>5, ConcatProperties, ConcatEmptySeq
<1>7. QED  BY <1>4, <1>5, <1>6 DEF front, back, n, c

\* The types, and what they need.
TypeInv == TypeOK /\ AttemptsLeft /\ CountStartsAtZero

\* At first no list is made.
LEMMA InitTypeInv == Init => TypeInv
<1> SUFFICES ASSUME Init PROVE TypeInv
  OBVIOUS
<1>1. <<>> \in Seq(Ids \cup {NoId}) /\ <<>> \in Seq(Entry)
  BY EmptySeq
<1>2. 0 \in 0..(Retries + 1) /\ 0 \in 0..MaxStarts /\ 0 \in 0..MaxExits
  BY EnumerationAssumption
<1>3. QED  BY <1>1, <1>2 DEF Init, TypeInv, TypeOK, AttemptsLeft, CountStartsAtZero

\* The interface's part.
LEMMA InterfaceTypeInv == TypeInv /\ (List \/ ListDone \/ ListAgain) => TypeInv'
<1> SUFFICES ASSUME TypeInv, List \/ ListDone \/ ListAgain PROVE TypeInv'
  OBVIOUS
<1> USE EnumerationAssumption DEF TypeInv, TypeOK, AttemptsLeft, CountStartsAtZero
<1>1. <<>> \in Seq(Ids \cup {NoId}) /\ <<>> \in Seq(Entry) /\ Len(<<>>) = 0
  BY EmptySeq
<1>2. CASE List
  <2>1. buffer' \in Seq(Entry) /\ Len(buffer') = Capacity
    <3>1. Capacity \in Nat /\ Len(<<>>) <= Capacity
      BY <1>1
    <3>2. buffer' = Resized(<<>>, Capacity)
      BY <1>2 DEF List
    <3>3. QED  BY ONLY <1>1, <3>1, <3>2, ResizedProperties, EnumerationAssumption
  <2>2. 0 \in 0..(Retries + 1) /\ 0 \in 0..MaxStarts /\ 0 \in 0..MaxExits /\ 0 <= Retries
    OBVIOUS
  <2>3. QED  BY <1>1, <1>2, <2>1, <2>2 DEF List, Command
<1>3. CASE ListDone
  <2>1. buffer' \in Seq(Entry)
    <3>1. \A i \in 1..count : buffer[i] \in Entry
      BY <1>3, ElementOfSeq DEF ListDone
    <3>2. SubSeq(buffer, 1, count) \in Seq(Entry)
      BY <3>1, SubSeqProperties
    <3>3. QED  BY <1>3, <3>2 DEF ListDone
  <2>2. QED  BY <1>3, <2>1 DEF ListDone, world
<1>4. CASE ListAgain
  <2>1. /\ at = "fill" /\ count > length /\ length' = count + Slack
        /\ buffer' = Resized(buffer, count + Slack) /\ retry' = retry + 1
        /\ UNCHANGED world
    BY <1>4 DEF ListAgain
  <2>2. buffer' \in Seq(Entry) /\ Len(buffer') = length' /\ length' \in Nat
    <3>1. count + Slack \in Nat /\ Len(buffer) <= count + Slack
      BY <2>1
    <3>2. QED  BY <2>1, <3>1, ResizedProperties
  <2>3. retry' \in 0..(Retries + 1)
    BY <2>1
  <2>4. CASE retry' <= Retries
    BY <1>1, <1>4, <2>1, <2>2, <2>3, <2>4 DEF ListAgain, Command, world
  <2>5. CASE ~(retry' <= Retries)
    BY <1>4, <2>1, <2>2, <2>3, <2>5 DEF ListAgain, world
  <2>6. QED  BY <2>4, <2>5
<1>5. QED  BY <1>2, <1>3, <1>4

\* The driver's.
LEMMA DriverTypeInv ==
    TypeInv /\ (EnumerateAgain \/ Enumerate \/ EnumerateFails \/ Fill \/ CountOn) => TypeInv'
<1> SUFFICES ASSUME TypeInv, EnumerateAgain \/ Enumerate \/ EnumerateFails \/ Fill \/ CountOn
             PROVE  TypeInv'
  OBVIOUS
<1> USE EnumerationAssumption DEF TypeInv, TypeOK, AttemptsLeft, CountStartsAtZero, world
<1>1. CASE EnumerateAgain
  BY <1>1 DEF EnumerateAgain
<1>2. CASE Enumerate
  <2>1. ids' \in Seq(Ids \cup {NoId})
    BY <1>2, EnumeratedList DEF Enumerate
  <2>2. QED  BY <1>2, <2>1 DEF Enumerate
<1>3. CASE EnumerateFails
  BY <1>3 DEF EnumerateFails
<1>4. CASE Fill
  <2>1. /\ at = "fill" /\ at' = at /\ ids # <<>> /\ count < length /\ ids' = Tail(ids)
        /\ UNCHANGED <<length, retry, driver_length, world>>
    BY <1>4 DEF Fill
  <2>2. ids' \in Seq(Ids \cup {NoId})
    BY <2>1, HeadTailProperties
  <2>3. buffer' \in Seq(Entry) /\ Len(buffer') = Len(buffer) /\ count' \in Nat
    <3>1. PICK id \in ReadsAs(Head(ids)) :
              IF Readable(id)
              THEN /\ buffer' = [buffer EXCEPT ![count + 1] = [id |-> id, attempt |-> retry]]
                   /\ count' = count + 1
              ELSE UNCHANGED <<buffer, count>>
      BY <1>4 DEF Fill
    <3>2. CASE Readable(id)
      <4>1. [id |-> id, attempt |-> retry] \in Entry
        BY <2>1, <3>2 DEF Readable, Entry
      <4>2. count + 1 \in 1..Len(buffer)
        BY <2>1
      <4>3. QED  BY <3>1, <3>2, <4>1, <4>2, ExceptSeq
    <3>3. CASE ~Readable(id)
      BY <3>1, <3>3
    <3>4. QED  BY <3>2, <3>3
  <2>4. QED  BY <2>1, <2>2, <2>3
<1>5. CASE CountOn
  <2>1. ids' \in Seq(Ids \cup {NoId})
    BY <1>5, HeadTailProperties DEF CountOn
  <2>2. QED  BY <1>5, <2>1 DEF CountOn
<1>6. QED  BY <1>1, <1>2, <1>3, <1>4, <1>5

\* And that of the system.
LEMMA SystemTypeInv ==
    ASSUME NEW id \in Ids, TypeInv, Start(id) \/ Exit(id)
    PROVE  TypeInv'
<1> USE EnumerationAssumption DEF TypeInv, TypeOK, AttemptsLeft, CountStartsAtZero, listing
<1>1. CASE Start(id)
  <2>1. live' \subseteq Ids /\ steady' \subseteq live' /\ starts' \in 0..MaxStarts
    BY <1>1 DEF Start
  <2>2. QED  BY <1>1, <2>1 DEF Start
<1>2. CASE Exit(id)
  <2>1. live' \subseteq Ids /\ steady' \subseteq live' /\ exits' \in 0..MaxExits
    BY <1>2 DEF Exit
  <2>2. QED  BY <1>2, <2>1 DEF Exit
<1>3. QED  BY <1>1, <1>2

\* Every step keeps the types.
LEMMA NextTypeInv == TypeInv /\ [Next]_vars => TypeInv'
<1>1. TypeInv /\ UNCHANGED vars => TypeInv'
  BY DEF TypeInv, TypeOK, AttemptsLeft, CountStartsAtZero, vars, listing, world
<1>2. QED  BY <1>1, InterfaceTypeInv, DriverTypeInv, SystemTypeInv DEF Next, Listing, Returned

\* So they hold in every state that can be reached.
LEMMA TypeInvIsInvariant == Spec => []TypeInv
BY InitTypeInv, NextTypeInv, PTL DEF Spec

\* No attempt, and nothing that comes or goes meanwhile, leaves a value of a
\* wrong kind: the buffer is as long as the interface takes it to be when the
\* driver fills it.
THEOREM EnumerationTypeCorrect == Spec => []TypeOK
<1>1. TypeInv => TypeOK
  BY DEF TypeInv
<1>2. QED  BY TypeInvIsInvariant, <1>1, PTL

-----------------------------------------------------------------------------
(* What is in a list.                                                      *)

\* The invariant behind ListIsFresh and NothingMissed.
FreshInv ==
    /\ VecGrows /\ FilledApart /\ FilledOrToCome
    /\ ListIsFresh /\ NothingMissed

\* Taking the first of a list moves the others up.
LEMMA TailElements ==
    ASSUME NEW S, NEW list \in Seq(S), list # <<>>
    PROVE  /\ 1 \in DOMAIN list /\ list[1] = Head(list)
           /\ \A i \in DOMAIN Tail(list) :
                  i # 0 /\ i + 1 \in DOMAIN list /\ i + 1 # 1 /\ Tail(list)[i] = list[i + 1]
           /\ \A i \in DOMAIN list :
                  i # 1 => i - 1 \in DOMAIN Tail(list) /\ Tail(list)[i - 1] = list[i]
<1> DEFINE n == Len(list)
           rest == Tail(list)
<1>1. n \in Nat \ {0} /\ DOMAIN list = 1..n
  BY EmptySeq, LenProperties
<1>2. rest \in Seq(S) /\ Len(rest) = n - 1 /\ \A i \in 1..Len(rest) : rest[i] = list[i + 1]
  BY HeadTailProperties
<1>3. DOMAIN rest = 1..(n - 1)
  BY <1>2, LenProperties
<1>4. list[1] = Head(list)
  OBVIOUS
<1> HIDE DEF n, rest
<1>5. 1 \in DOMAIN list
  BY <1>1
<1>6. \A i \in 1..(n - 1) : i # 0 /\ i + 1 \in 1..n /\ i + 1 # 1 /\ rest[i] = list[i + 1]
  BY <1>1, <1>2
<1>7. \A i \in 1..n : i # 1 => i - 1 \in 1..(n - 1) /\ rest[i - 1] = list[i]
  BY <1>1, <1>6
<1>8. QED  BY <1>1, <1>3, <1>4, <1>5, <1>6, <1>7 DEF rest

\* The list that is returned is what the last attempt has filled in.
LEMMA ListDoneFresh ==
    TypeInv /\ FreshInv /\ ListDone => FreshInv'
<1> SUFFICES ASSUME TypeInv, FreshInv, ListDone PROVE FreshInv'
  OBVIOUS
<1>1. /\ at = "fill" /\ at' = "done" /\ ids = <<>> /\ count <= length /\ count \in Nat
      /\ length = Len(buffer) /\ buffer \in Seq(Entry)
      /\ buffer' = SubSeq(buffer, 1, count) /\ retry' = retry /\ steady' = steady
  BY DEF ListDone, TypeInv, TypeOK, world
<1>2. Filled = 1..count
  BY <1>1 DEF Filled, TypeInv, TypeOK
<1>3. DOMAIN buffer' = 1..count /\ \A i \in 1..count : buffer'[i] = buffer[i]
  <2>1. \A i \in 1..count : buffer[i] \in Entry
    BY <1>1, ElementOfSeq
  <2>2. /\ SubSeq(buffer, 1, count) \in Seq(Entry)
        /\ Len(SubSeq(buffer, 1, count)) = IF 1 <= count THEN count - 1 + 1 ELSE 0
        /\ \A i \in 1..(count - 1 + 1) : SubSeq(buffer, 1, count)[i] = buffer[1 + i - 1]
    BY <1>1, <2>1, SubSeqProperties
  <2>3. Len(SubSeq(buffer, 1, count)) = count
    BY <1>1, <2>2
  <2>4. QED  BY <1>1, <2>2, <2>3, LenProperties
<1>4. ListIsFresh'
  BY <1>1, <1>2, <1>3 DEF FreshInv, FilledApart, ListIsFresh
<1>5. NothingMissed'
  <2> SUFFICES ASSUME NEW id \in steady \ Protected PROVE \E i \in 1..count : buffer[i].id = id
    BY <1>1, <1>3 DEF NothingMissed, Listed
  <2>1. ~(\E i \in DOMAIN ids : ids[i] = id) /\ ~(count > length)
    BY <1>1
  <2>2. QED  BY <1>1, <1>2, <2>1 DEF FreshInv, FilledOrToCome
<1>6. QED  BY <1>1, <1>4, <1>5 DEF FreshInv, VecGrows, FilledApart, FilledOrToCome

\* While there is room for all, a list that is taken is all there is.
LEMMA EnumeratesAll ==
    ASSUME TypeInv, FreshInv, VecSuffices, Enumerate
    PROVE  ids' = AtMost(driver_length) /\ Cardinality(live) <= driver_length
<1> DEFINE list == AtMost(driver_length)
<1>1. /\ Found # driver_length /\ live \subseteq Ids
      /\ driver_length \in Nat /\ driver_length >= DriverCapacity
  BY DEF Enumerate, TypeInv, TypeOK, FreshInv, VecGrows
<1>2. Len(list) = IF Cardinality(live) <= driver_length THEN Cardinality(live) ELSE driver_length
  BY <1>1, AtMostProperties
<1>3. Cardinality(live) \in Nat
  BY <1>1, EnumerationAssumption, FS_Subset, FS_CardinalityType
<1> HIDE DEF list
<1>4. Found <= driver_length /\ Found \in Nat
  <2>1. Len(list) \in Nat /\ Len(list) <= driver_length
    BY <1>1, <1>2, <1>3
  <2>2. CASE ReportsNeeded
    BY <1>1, <1>3, <2>2, EnumerationAssumption DEF Found, VecSuffices
  <2>3. CASE ~ReportsNeeded
    BY <2>1, <2>3 DEF Found, list
  <2>4. QED  BY <2>2, <2>3
<1>5. ids' = list /\ Cardinality(live) <= driver_length
  <2>1. Found < driver_length
    BY <1>1, <1>4
  <2>2. QED  BY <1>1, <1>4, <2>1, EnumeratedList DEF Enumerate, list
<1>6. QED  BY <1>5 DEF list

\* The driver begins with all that there is, each once.
LEMMA EnumerateFresh ==
    TypeInv /\ FreshInv /\ VecSuffices /\ Enumerate => FreshInv'
<1> SUFFICES ASSUME TypeInv, FreshInv, VecSuffices, Enumerate PROVE FreshInv'
  OBVIOUS
<1> DEFINE list == AtMost(driver_length)
<1>1. /\ at = "enumerate" /\ at' = "fill" /\ Found # driver_length
      /\ count' = count /\ count = 0 /\ length' = length /\ length \in Nat /\ steady' = steady
      /\ live \subseteq Ids /\ steady \subseteq live /\ driver_length \in Nat
      /\ driver_length >= DriverCapacity
  BY DEF Enumerate, TypeInv, TypeOK, CountStartsAtZero, FreshInv, VecGrows, world
<1>2. /\ list \in Seq(live)
      /\ Len(list) = IF Cardinality(live) <= driver_length THEN Cardinality(live) ELSE driver_length
      /\ \A i, j \in DOMAIN list : i # j => list[i] # list[j]
      /\ Cardinality(live) <= driver_length =>
            \A id \in live : \E i \in DOMAIN list : list[i] = id
  BY <1>1, AtMostProperties
<1>3. ids' = list /\ Cardinality(live) <= driver_length
  BY EnumeratesAll DEF list
<1> HIDE DEF list
<1>4. Filled' = {}
  BY <1>1 DEF Filled
<1>5. \A i \in DOMAIN list : list[i] \in Ids /\ list[i] # NoId
  BY <1>1, <1>2, EnumerationAssumption, ElementOfSeq, LenProperties
<1>6. FilledApart'
  BY <1>2, <1>3, <1>4, <1>5 DEF FilledApart
<1>7. FilledOrToCome'
  BY <1>1, <1>2, <1>3 DEF FilledOrToCome
<1>8. QED  BY <1>1, <1>6, <1>7 DEF FreshInv, VecGrows, ListIsFresh, NothingMissed

\* One more slot is filled, or an id that cannot be read is skipped.
LEMMA FillFresh ==
    TypeInv /\ FreshInv /\ Fill => FreshInv'
<1> SUFFICES ASSUME TypeInv, FreshInv, Fill PROVE FreshInv'
  OBVIOUS
<1> DEFINE head == Head(ids)
<1>1. /\ at = "fill" /\ at' = "fill" /\ ids # <<>> /\ count < length /\ ids' = Tail(ids)
      /\ length' = length /\ retry' = retry /\ steady' = steady /\ length = Len(buffer)
      /\ count \in Nat /\ length \in Nat /\ buffer \in Seq(Entry) /\ ids \in Seq(Ids \cup {NoId})
      /\ steady \subseteq live
  BY DEF Fill, TypeInv, TypeOK, world
<1>2. /\ 1 \in DOMAIN ids /\ ids[1] = head
      /\ \A i \in DOMAIN Tail(ids) :
             i # 0 /\ i + 1 \in DOMAIN ids /\ i + 1 # 1 /\ Tail(ids)[i] = ids[i + 1]
      /\ \A i \in DOMAIN ids :
             i # 1 => i - 1 \in DOMAIN Tail(ids) /\ Tail(ids)[i - 1] = ids[i]
  BY <1>1, TailElements
<1> HIDE DEF head
<1>3. Filled = 1..count
  BY <1>1 DEF Filled
<1>4. head # NoId /\ ReadsAs(head) = {head}
  BY <1>1, <1>2 DEF FreshInv, FilledApart, ReadsAs
<1>5. IF Readable(head)
      THEN /\ buffer' = [buffer EXCEPT ![count + 1] = [id |-> head, attempt |-> retry]]
           /\ count' = count + 1
      ELSE UNCHANGED <<buffer, count>>
  BY <1>4 DEF Fill, head
<1>6. \A i \in DOMAIN ids' :
          /\ ids'[i] # NoId /\ ids'[i] # head
          /\ \A j \in DOMAIN ids' : i # j => ids'[i] # ids'[j]
          /\ \A j \in Filled : ids'[i] # buffer[j].id
  <2> SUFFICES ASSUME NEW i \in DOMAIN Tail(ids)
               PROVE  /\ Tail(ids)[i] # NoId /\ Tail(ids)[i] # head
                      /\ \A j \in DOMAIN Tail(ids) : i # j => Tail(ids)[i] # Tail(ids)[j]
                      /\ \A j \in Filled : Tail(ids)[i] # buffer[j].id
    BY <1>1
  <2>1. Tail(ids)[i] # NoId /\ Tail(ids)[i] # head
    BY <1>1, <1>2 DEF FreshInv, FilledApart
  <2>2. \A j \in Filled : Tail(ids)[i] # buffer[j].id
    BY <1>1, <1>2 DEF FreshInv, FilledApart
  <2>3. ASSUME NEW j \in DOMAIN Tail(ids), i # j PROVE Tail(ids)[i] # Tail(ids)[j]
    <3>1. DOMAIN Tail(ids) \subseteq Nat
      BY <1>1, HeadTailProperties, LenProperties
    <3>2. i + 1 # j + 1
      BY <2>3, <3>1
    <3>3. QED  BY <1>1, <1>2, <3>2 DEF FreshInv, FilledApart
  <2>4. QED  BY <2>1, <2>2, <2>3
<1>7. CASE Readable(head)
  <2>1. Filled' = 1..(count + 1) /\ count' = count + 1
    BY <1>1, <1>5, <1>7 DEF Filled
  <2>2. /\ buffer'[count + 1] = [id |-> head, attempt |-> retry]
        /\ \A i \in 1..count : buffer'[i] = buffer[i]
    <3>1. DOMAIN buffer = 1..Len(buffer)
      BY <1>1, LenProperties
    <3>2. QED  BY <1>1, <1>5, <1>7, <3>1
  <2>3. \A i \in 1..(count + 1) : i \in 1..count \/ i = count + 1
    BY <1>1
  <2>4. \A i \in 1..count : buffer[i].id # head
    BY <1>1, <1>2, <1>3 DEF FreshInv, FilledApart
  <2>5. ASSUME NEW i \in Filled'
        PROVE  /\ buffer'[i].id # NoId /\ buffer'[i].attempt = retry
               /\ \A j \in DOMAIN ids' : ids'[j] # buffer'[i].id
    <3>1. CASE i \in 1..count
      BY <1>1, <1>3, <1>6, <2>2, <3>1 DEF FreshInv, FilledApart
    <3>2. CASE i = count + 1
      BY <1>4, <1>6, <2>2, <3>2
    <3>3. QED  BY <2>1, <2>3, <3>1, <3>2
  <2>6. ASSUME NEW i \in Filled', NEW j \in Filled', i # j
        PROVE  buffer'[i].id # buffer'[j].id
    <3>1. CASE i \in 1..count /\ j \in 1..count
      BY <1>1, <1>3, <2>2, <2>6, <3>1 DEF FreshInv, FilledApart
    <3>2. CASE i \in 1..count /\ j = count + 1
      BY <2>2, <2>4, <3>2
    <3>3. CASE i = count + 1 /\ j \in 1..count
      BY <2>2, <2>4, <3>3
    <3>4. QED  BY <2>1, <2>3, <2>6, <3>1, <3>2, <3>3
  <2>7. FilledApart'
    BY <1>1, <1>6, <2>5, <2>6 DEF FilledApart
  <2>8. ASSUME NEW id \in steady' \ Protected
        PROVE  \/ \E i \in DOMAIN ids' : ids'[i] = id
               \/ \E i \in Filled' : buffer'[i].id = id
    <3>1. \/ \E i \in DOMAIN ids : ids[i] = id
          \/ \E i \in Filled : buffer[i].id = id
      BY <1>1, <2>8 DEF FreshInv, FilledOrToCome
    <3>2. CASE id = head
      <4>1. count + 1 \in Filled'
        BY <1>1, <2>1
      <4>2. QED  BY <2>2, <3>2, <4>1
    <3>3. ASSUME NEW i \in DOMAIN ids, ids[i] = id, i # 1 PROVE \E k \in DOMAIN ids' : ids'[k] = id
      BY <1>1, <1>2, <3>3
    <3>4. ASSUME NEW i \in Filled, buffer[i].id = id PROVE \E k \in Filled' : buffer'[k].id = id
      <4>1. i \in Filled'
        BY <1>1, <1>3, <2>1
      <4>2. QED  BY <1>3, <2>2, <3>4, <4>1
    <3>5. QED  BY <1>2, <3>1, <3>2, <3>3, <3>4
  <2>9. FilledOrToCome'
    BY <2>8 DEF FilledOrToCome
  <2>10. QED  BY <1>1, <2>7, <2>9 DEF FreshInv, VecGrows, ListIsFresh, NothingMissed
<1>8. CASE ~Readable(head)
  <2>1. Filled' = Filled /\ buffer' = buffer /\ count' = count
    BY <1>1, <1>5, <1>8 DEF Filled
  <2>2. FilledApart'
    BY <1>1, <1>6, <2>1 DEF FreshInv, FilledApart
  <2>3. ASSUME NEW id \in steady' \ Protected
        PROVE  \/ \E i \in DOMAIN ids' : ids'[i] = id
               \/ \E i \in Filled' : buffer'[i].id = id
    <3>1. \/ \E i \in DOMAIN ids : ids[i] = id
          \/ \E i \in Filled : buffer[i].id = id
      BY <1>1, <2>3 DEF FreshInv, FilledOrToCome
    <3>2. id # head
      BY <1>1, <1>8, <2>3 DEF Readable
    <3>3. ASSUME NEW i \in DOMAIN ids, ids[i] = id PROVE \E k \in DOMAIN ids' : ids'[k] = id
      BY <1>1, <1>2, <3>2, <3>3
    <3>4. QED  BY <2>1, <3>1, <3>3
  <2>4. FilledOrToCome'
    BY <2>3 DEF FilledOrToCome
  <2>5. QED  BY <1>1, <2>2, <2>4 DEF FreshInv, VecGrows, ListIsFresh, NothingMissed
<1>9. QED  BY <1>7, <1>8

\* No slot is left: the list will be known to be too short.
LEMMA CountOnFresh ==
    TypeInv /\ FreshInv /\ CountOn => FreshInv'
<1> SUFFICES ASSUME TypeInv, FreshInv, CountOn PROVE FreshInv'
  OBVIOUS
<1>1. /\ at = "fill" /\ at' = "fill" /\ ids # <<>> /\ count >= length /\ ids' = Tail(ids)
      /\ count' = count + 1 /\ buffer' = buffer
      /\ length' = length /\ retry' = retry /\ steady' = steady
      /\ count \in Nat /\ length \in Nat /\ ids \in Seq(Ids \cup {NoId})
  BY DEF CountOn, TypeInv, TypeOK, world
<1>2. \A i \in DOMAIN Tail(ids) : i + 1 \in DOMAIN ids /\ Tail(ids)[i] = ids[i + 1]
  BY <1>1, TailElements
<1>3. Filled' = Filled /\ count' > length'
  BY <1>1 DEF Filled
<1>4. FilledApart'
  <2>1. \A i \in DOMAIN ids' : ids'[i] # NoId /\ \A j \in Filled : ids'[i] # buffer[j].id
    BY <1>1, <1>2 DEF FreshInv, FilledApart
  <2>2. ASSUME NEW i \in DOMAIN ids', NEW j \in DOMAIN ids', i # j PROVE ids'[i] # ids'[j]
    <3>1. DOMAIN Tail(ids) \subseteq Nat
      BY <1>1, HeadTailProperties, LenProperties
    <3>2. i + 1 # j + 1
      BY <1>1, <2>2, <3>1
    <3>3. QED  BY <1>1, <1>2, <3>2 DEF FreshInv, FilledApart
  <2>3. QED  BY <1>1, <1>3, <2>1, <2>2 DEF FreshInv, FilledApart
<1>5. QED  BY <1>1, <1>3, <1>4
              DEF FreshInv, VecGrows, FilledOrToCome, ListIsFresh, NothingMissed

\* The other steps: nothing is being filled in then, or it is left as it is.
LEMMA OthersFresh ==
    ASSUME TypeInv, FreshInv,
           \/ List \/ ListAgain \/ EnumerateAgain \/ EnumerateFails
           \/ \E id \in Ids : Start(id) \/ Exit(id)
           \/ UNCHANGED vars
    PROVE  FreshInv'
<1> USE EnumerationAssumption
        DEF FreshInv, VecGrows, FilledApart, FilledOrToCome, ListIsFresh, NothingMissed
<1>1. CASE List \/ EnumerateFails
  BY <1>1 DEF List, Command, EnumerateFails
<1>2. CASE ListAgain
  BY <1>2 DEF ListAgain, Command
<1>3. CASE EnumerateAgain
  BY <1>3 DEF EnumerateAgain, TypeInv, TypeOK
<1>4. ASSUME NEW id \in Ids, Start(id) \/ Exit(id) PROVE FreshInv'
  <2>1. /\ UNCHANGED listing /\ steady' \subseteq steady
        /\ at \notin {"idle", "done", "exhausted", "error"}
    BY <1>4 DEF Start, Exit
  <2>2. FilledApart' /\ FilledOrToCome'
    BY <2>1 DEF listing, Filled
  <2>3. QED  BY <2>1, <2>2 DEF listing
<1>5. CASE UNCHANGED vars
  BY <1>5 DEF vars, listing, world, Filled, Listed
<1>6. QED  BY <1>1, <1>2, <1>3, <1>4, <1>5

\* Every step keeps it.
LEMMA NextFresh == VecSuffices /\ TypeInv /\ FreshInv /\ [Next]_vars => FreshInv'
BY ListDoneFresh, EnumerateFresh, FillFresh, CountOnFresh, OthersFresh DEF Next, Listing, Returned

\* So it holds as long as the Vec of the driver suffices.
LEMMA FreshInvariance == Spec /\ []VecSuffices => []FreshInv
<1>1. Init => FreshInv
  BY DEF Init, FreshInv, VecGrows, FilledApart, FilledOrToCome, ListIsFresh, NothingMissed
<1>2. QED  BY TypeInvIsInvariant, <1>1, NextFresh, PTL DEF Spec

\* A list that is returned holds what the last attempt found, each id once,
\* however often the buffer was too small and whatever came and went: of
\* processes always, and of modules as long as there are no more than the driver
\* has room for at first.
THEOREM ListsAreFresh == Spec /\ []VecSuffices => []ListIsFresh
<1>1. FreshInv => ListIsFresh
  BY DEF FreshInv
<1>2. QED  BY FreshInvariance, <1>1, PTL

\* And under the same condition it holds all that may be read and has been there
\* from the call to the return.
THEOREM NothingIsMissed == Spec /\ []VecSuffices => []NothingMissed
<1>1. FreshInv => NothingMissed
  BY DEF FreshInv
<1>2. QED  BY FreshInvariance, <1>1, PTL

-----------------------------------------------------------------------------
(* When the interface gives up.                                            *)

\* An attempt fails when something is left to be looked at after as many as the
\* one before has counted, and the slack.  Then more have come than the slack:
\* else those would be all that was counted before, and the one that is left,
\* which is behind them, was neither counted nor skipped.
LEMMA MoreThanSlack ==
    ASSUME NEW there \in SUBSET Nat, IsFiniteSet(there),
           NEW counted \in SUBSET there, NEW left \in there, \A x \in counted : x < left,
           NEW before \in SUBSET Nat, IsFiniteSet(before), NEW skipped \in SUBSET Nat,
           \A q \in skipped : \E c \in before : q < c,
           counted \cap skipped = {},
           NEW slack \in Nat, Cardinality(counted) = Cardinality(before) + slack
    PROVE  Cardinality(there \ (before \cup skipped)) >= slack + 1
<1> DEFINE came == there \ (before \cup skipped)
           new == counted \ before
           old == counted \cap before
<1>1. /\ IsFiniteSet(counted) /\ IsFiniteSet(came) /\ IsFiniteSet(new) /\ IsFiniteSet(old)
  <2>1. IsFiniteSet(counted)
    BY FS_Subset
  <2>2. IsFiniteSet(came)
    BY FS_Subset
  <2>3. QED  BY <2>1, <2>2, FS_Subset
<1>2. /\ Cardinality(counted) \in Nat /\ Cardinality(came) \in Nat /\ Cardinality(new) \in Nat
      /\ Cardinality(old) \in Nat /\ Cardinality(before) \in Nat
  BY <1>1, FS_CardinalityType
<1>3. Cardinality(new) = Cardinality(counted) - Cardinality(old)
  BY <1>1, FS_Difference
<1>4. new \in SUBSET came /\ old \in SUBSET before
  OBVIOUS
<1>5. /\ Cardinality(new) <= Cardinality(came) /\ (Cardinality(came) = Cardinality(new) => came = new)
      /\ Cardinality(old) <= Cardinality(before) /\ (Cardinality(before) = Cardinality(old) => before = old)
  BY <1>1, <1>4, FS_Subset
<1>6. ASSUME Cardinality(came) <= slack PROVE FALSE
  <2>1. Cardinality(came) = Cardinality(new) /\ Cardinality(before) = Cardinality(old)
    BY <1>2, <1>3, <1>5, <1>6
  <2>2. came = new /\ before = old
    BY <1>5, <2>1
  <2>3. left \notin counted
    BY counted \in SUBSET Nat, left \in Nat
  <2>4. left \in skipped
    BY <2>2, <2>3
  <2>5. PICK c \in before : left < c
    BY <2>4
  <2>6. c \in counted /\ c < left
    BY <2>2
  <2>7. c \in Nat /\ left \in Nat
    OBVIOUS
  <2>8. QED  BY <2>5, <2>6, <2>7
<1>7. QED  BY <1>2, <1>6

\* One that comes is one more at most.
LEMMA OneMore ==
    ASSUME NEW S, IsFiniteSet(S), NEW T, NEW x
    PROVE  /\ Cardinality((S \cup {x}) \ T) <= Cardinality(S \ T) + 1
           /\ Cardinality(S \ T) \in Nat
           /\ Cardinality((S \cup {x}) \ T) \in Nat
<1>1. IsFiniteSet(S \ T)
  BY FS_Subset
<1> DEFINE rest == S \ T
<1>2. /\ IsFiniteSet(rest \cup {x})
      /\ Cardinality(rest \cup {x}) <= Cardinality(rest) + 1
      /\ Cardinality(rest) \in Nat
  <2> HIDE DEF rest
  <2>1. Cardinality(rest) \in Nat
    BY <1>1, FS_CardinalityType DEF rest
  <2>2. /\ IsFiniteSet(rest \cup {x})
        /\ Cardinality(rest \cup {x}) =
              IF x \in rest THEN Cardinality(rest) ELSE Cardinality(rest) + 1
    BY <1>1, FS_AddElement DEF rest
  <2>3. QED  BY <2>1, <2>2
<1>3. (S \cup {x}) \ T \in SUBSET ((S \ T) \cup {x})
  OBVIOUS
<1>4. /\ IsFiniteSet((S \cup {x}) \ T)
      /\ Cardinality((S \cup {x}) \ T) <= Cardinality((S \ T) \cup {x})
  BY <1>2, <1>3, FS_Subset
<1>5. Cardinality((S \cup {x}) \ T) \in Nat /\ Cardinality((S \ T) \cup {x}) \in Nat
  BY <1>2, <1>4, FS_CardinalityType
<1>6. QED  BY <1>2, <1>4, <1>5

\* One that goes is none more.
LEMMA OneLess ==
    ASSUME NEW S, IsFiniteSet(S), NEW T, NEW x
    PROVE  Cardinality((S \ {x}) \ T) <= Cardinality(S \ T)
<1>1. IsFiniteSet(S \ T)
  BY FS_Subset
<1>2. (S \ {x}) \ T \in SUBSET (S \ T)
  OBVIOUS
<1>3. QED  BY <1>1, <1>2, FS_Subset

\* What n attempts take, one after the other.
LEMMA GrowthStep ==
    /\ Growth(0) = 0
    /\ \A n \in Nat : Growth(n) \in Nat /\ Growth(n + 1) = Growth(n) + Slack + 1
BY EnumerationAssumption DEF Growth

\* The invariant behind GivesUpOnGrowth.
GrowthInv ==
    /\ Ascending /\ GrowthBetween /\ GrowthWithin /\ GivesUpOnGrowth

\* The first attempt needs nothing.
LEMMA ListGrowth == TypeInv /\ List => GrowthInv'
<1> SUFFICES ASSUME TypeInv, List PROVE GrowthInv'
  OBVIOUS
<1>1. at' = "enumerate" /\ retry' = 0 /\ ids' = <<>>
  BY DEF List, Command
<1>2. QED  BY <1>1 DEF GrowthInv, Ascending, GrowthBetween, CameSince, GrowthWithin, GivesUpOnGrowth

\* An attempt has failed: what it counted is what the next one starts from.
LEMMA ListAgainGrowth == TypeInv /\ GrowthInv /\ ListAgain => GrowthInv'
<1> SUFFICES ASSUME TypeInv, GrowthInv, ListAgain PROVE GrowthInv'
  OBVIOUS
<1>1. /\ at = "fill" /\ ids = <<>> /\ count > length /\ length' = count + Slack /\ retry' = retry + 1
      /\ live' = live /\ starts' = starts /\ starts \in Nat /\ retry \in Nat /\ retry <= Retries
      /\ live \subseteq Ids /\ count \in Nat /\ length \in Nat
      /\ at' \in {"enumerate", "exhausted"} /\ ids' = <<>>
      /\ at' = "exhausted" => retry = Retries
  BY EnumerationAssumption DEF ListAgain, Command, world, TypeInv, TypeOK, AttemptsLeft
<1>2. PICK there \in SUBSET Ids, counted \in SUBSET Ids, skipped \in SUBSET Protected, before \in 0..starts :
          Looked(there, counted, skipped, before)
  BY <1>1 DEF GrowthInv, GrowthWithin
<1>3. Remaining = {}
  BY <1>1 DEF Remaining
<1>4. /\ Cardinality(counted) = count /\ before >= Growth(retry)
      /\ \A q \in skipped : \E c \in counted : q < c
      /\ starts >= before + Cardinality(live \ (counted \cup skipped))
  BY <1>1, <1>2, <1>3 DEF Looked
<1>5. Cardinality(live \ (counted \cup skipped)) \in Nat
  BY <1>1, EnumerationAssumption, FS_Subset, FS_CardinalityType
<1>6. Growth(retry) \in Nat /\ before \in Nat
  BY <1>1, GrowthStep
<1>7. starts >= Growth(retry) + Cardinality(live \ (counted \cup skipped)) /\ starts >= Growth(retry)
  BY <1>1, <1>4, <1>5, <1>6
<1>8. CameSince(live, starts, retry)'
  <2>1. retry' - 1 = retry /\ Cardinality(counted) + Slack = length'
    BY <1>1, <1>4
  <2>2. QED  BY <1>1, <1>4, <1>7, <2>1 DEF CameSince, Growth
<1>9. GivesUpOnGrowth'
  BY <1>1, <1>7 DEF GivesUpOnGrowth, Growth
<1>10. QED  BY <1>1, <1>8, <1>9 DEF GrowthInv, Ascending, GrowthBetween, GrowthWithin

\* An attempt begins with what there is.
LEMMA EnumerateGrowth == TypeInv /\ FreshInv /\ GrowthInv /\ VecSuffices /\ Enumerate => GrowthInv'
<1> SUFFICES ASSUME TypeInv, FreshInv, GrowthInv, VecSuffices, Enumerate PROVE GrowthInv'
  OBVIOUS
<1> DEFINE list == AtMost(driver_length)
<1>1. /\ at = "enumerate" /\ at' = "fill" /\ count' = 0 /\ length' = length /\ length \in Nat
      /\ retry' = retry /\ live' = live /\ starts' = starts /\ starts \in Nat
      /\ live \subseteq Ids /\ driver_length \in Nat
  BY DEF Enumerate, TypeInv, TypeOK, CountStartsAtZero, world
<1>2. /\ list \in Seq(live)
      /\ \A i, j \in DOMAIN list : i < j => list[i] < list[j]
      /\ Cardinality(live) <= driver_length =>
            \A id \in live : \E i \in DOMAIN list : list[i] = id
  BY <1>1, AtMostProperties
<1> HIDE DEF list
<1>3. ids' = list /\ Cardinality(live) <= driver_length
  BY EnumeratesAll DEF list
<1>4. Ascending'
  BY <1>2, <1>3 DEF Ascending
<1>5. Remaining' = live
  <2>1. \A i \in DOMAIN list : list[i] \in live
    BY <1>2, ElementOfSeq, LenProperties
  <2>2. QED  BY <1>2, <1>3, <2>1 DEF Remaining
<1>6. Looked(live, {}, {}, starts)'
  <2>1. live \ live = {} /\ Cardinality({}) = 0
    BY FS_EmptySet
  <2>2. CameSince(live, starts, retry)
    BY <1>1 DEF GrowthInv, GrowthBetween
  <2>3. starts >= starts + 0
    BY <1>1
  <2>4. CameSince(live, starts, retry)'
    BY <1>1, <2>2 DEF CameSince, Growth
  <2>5. live \ ({} \cup {} \cup live) = {}
    OBVIOUS
  <2>6. ~(count' > length')
    BY <1>1
  <2>7. QED  BY <1>1, <1>5, <2>1, <2>3, <2>4, <2>5, <2>6 DEF Looked
<1>7. GrowthWithin'
  <2>1. live \in SUBSET Ids /\ {} \in SUBSET Ids /\ {} \in SUBSET Protected /\ starts \in 0..starts
    BY <1>1
  <2>2. QED  BY <1>1, <1>6, <2>1 DEF GrowthWithin
<1>8. QED  BY <1>1, <1>4, <1>7 DEF GrowthInv, GrowthBetween, GivesUpOnGrowth

\* The next id to be looked at is the least that remains.
LEMMA HeadTaken ==
    ASSUME TypeInv, FreshInv, Ascending, at = "fill", ids # <<>>, ids' = Tail(ids)
    PROVE  /\ Head(ids) \in Ids /\ Remaining \subseteq Ids
           /\ Remaining = Remaining' \cup {Head(ids)}
           /\ \A y \in Remaining' : Head(ids) < y
           /\ Ascending'
<1> DEFINE head == Head(ids)
<1>1. ids \in Seq(Ids \cup {NoId}) /\ Tail(ids) \in Seq(Ids \cup {NoId})
  BY HeadTailProperties DEF TypeInv, TypeOK
<1>2. /\ 1 \in DOMAIN ids /\ ids[1] = head
      /\ \A i \in DOMAIN Tail(ids) :
             i # 0 /\ i + 1 \in DOMAIN ids /\ i + 1 # 1 /\ Tail(ids)[i] = ids[i + 1]
      /\ \A i \in DOMAIN ids :
             i # 1 => i - 1 \in DOMAIN Tail(ids) /\ Tail(ids)[i - 1] = ids[i]
  BY <1>1, TailElements
<1> HIDE DEF head
<1>3. Remaining \subseteq Ids
  <2>1. \A i \in DOMAIN ids : ids[i] \in Ids \cup {NoId}
    BY <1>1, ElementOfSeq, LenProperties
  <2>2. QED  BY <2>1 DEF FreshInv, FilledApart, Remaining
<1>4. head \in Ids
  BY <1>2, <1>3 DEF Remaining
<1>5. Remaining = Remaining' \cup {head}
  <2>1. Remaining' = {Tail(ids)[i] : i \in DOMAIN Tail(ids)}
    BY DEF Remaining
  <2>2. ASSUME NEW y \in Remaining PROVE y \in Remaining' \cup {head}
    <3>1. PICK i \in DOMAIN ids : ids[i] = y
      BY DEF Remaining
    <3>2. CASE i = 1
      BY <1>2, <3>1, <3>2
    <3>3. CASE i # 1
      BY <1>2, <2>1, <3>1, <3>3
    <3>4. QED  BY <3>2, <3>3
  <2>3. ASSUME NEW y \in Remaining' \cup {head} PROVE y \in Remaining
    <3>1. CASE y = head
      BY <1>2, <3>1 DEF Remaining
    <3>2. CASE y \in Remaining'
      <4>1. PICK i \in DOMAIN Tail(ids) : Tail(ids)[i] = y
        BY <2>1, <3>2
      <4>2. QED  BY <1>2, <4>1 DEF Remaining
    <3>3. QED  BY <2>3, <3>1, <3>2
  <2>4. QED  BY <2>2, <2>3
<1>6. DOMAIN Tail(ids) \subseteq Nat \ {0}
  BY <1>1, LenProperties
<1>7. \A y \in Remaining' : head < y
  <2>1. ASSUME NEW i \in DOMAIN Tail(ids) PROVE head < Tail(ids)[i]
    <3>1. 1 < i + 1
      BY <1>6
    <3>2. QED  BY <1>2, <3>1 DEF Ascending
  <2>2. QED  BY <2>1 DEF Remaining
<1>8. Ascending'
  <2>1. ASSUME NEW i \in DOMAIN Tail(ids), NEW j \in DOMAIN Tail(ids), i < j
        PROVE  Tail(ids)[i] < Tail(ids)[j]
    <3>1. i + 1 < j + 1
      BY <1>6, <2>1
    <3>2. QED  BY <1>2, <3>1 DEF Ascending
  <2>2. QED  BY <2>1 DEF Ascending
<1>9. QED  BY <1>3, <1>4, <1>5, <1>7, <1>8 DEF head

\* What is filled in is counted, and what is not is skipped, or gone.
LEMMA FillGrowth == TypeInv /\ FreshInv /\ GrowthInv /\ Fill => GrowthInv'
<1> SUFFICES ASSUME TypeInv, FreshInv, GrowthInv, Fill PROVE GrowthInv'
  OBVIOUS
<1>1. /\ at = "fill" /\ at' = "fill" /\ ids # <<>> /\ count < length /\ ids' = Tail(ids)
      /\ length' = length /\ retry' = retry /\ live' = live /\ starts' = starts /\ starts \in Nat
      /\ count \in Nat /\ length \in Nat /\ live \subseteq Ids
  BY DEF Fill, TypeInv, TypeOK, world
<1>2. PICK head \in Ids :
          /\ head = Head(ids) /\ Remaining = Remaining' \cup {head} /\ Remaining \subseteq Ids
          /\ \A y \in Remaining' : head < y
          /\ Ascending'
  BY <1>1, HeadTaken DEF GrowthInv
<1>3. IF Readable(head) THEN count' = count + 1 ELSE count' = count
  <2>1. Head(ids) # NoId
    BY <1>2, EnumerationAssumption
  <2>2. QED  BY <1>2, <2>1 DEF Fill, ReadsAs
<1>4. PICK there \in SUBSET Ids, counted \in SUBSET Ids, skipped \in SUBSET Protected, before \in 0..starts :
          Looked(there, counted, skipped, before)
  BY <1>1 DEF GrowthInv, GrowthWithin
<1>5. /\ counted \cup skipped \cup Remaining \subseteq there /\ Cardinality(counted) = count
      /\ \A x \in counted \cup skipped, y \in Remaining : x < y
      /\ starts >= before + Cardinality(live \ (counted \cup skipped \cup Remaining))
      /\ counted \cap Protected = {} /\ CameSince(there, before, retry)
  BY <1>1, <1>4 DEF Looked
<1>6. CameSince(there, before, retry)'
  BY <1>1, <1>5 DEF CameSince, Growth
<1>7. ASSUME NEW counted2 \in SUBSET Ids, NEW skipped2 \in SUBSET Protected,
             \/ /\ Readable(head) /\ counted2 = counted \cup {head} /\ skipped2 = skipped
             \/ /\ ~Readable(head) /\ counted2 = counted
                /\ skipped2 = skipped \cup ({head} \cap Protected)
      PROVE  Looked(there, counted2, skipped2, before)'
  <2>1. counted2 \cup skipped2 \cup Remaining' \subseteq there
    BY <1>2, <1>5, <1>7
  <2>2. Cardinality(counted2) = count'
    <3>1. CASE Readable(head)
      <4>1. head \notin counted
        BY <1>2, <1>5, EnumerationAssumption
      <4>2. IsFiniteSet(counted)
        BY EnumerationAssumption, FS_Subset
      <4>3. Cardinality(counted \cup {head}) = Cardinality(counted) + 1
        BY <4>1, <4>2, FS_AddElement
      <4>4. QED  BY <1>3, <1>5, <1>7, <3>1, <4>3
    <3>2. CASE ~Readable(head)
      BY <1>3, <1>5, <1>7, <3>2
    <3>3. QED  BY <3>1, <3>2
  <2>3. \A x \in counted2 \cup skipped2, y \in Remaining' : x < y
    BY <1>2, <1>5, <1>7
  <2>4. live \ (counted2 \cup skipped2 \cup Remaining') = live \ (counted \cup skipped \cup Remaining)
    <3>1. CASE Readable(head)
      BY <1>2, <1>7, <3>1
    <3>2. CASE ~Readable(head)
      BY <1>2, <1>7, <3>2 DEF Readable
    <3>3. QED  BY <3>1, <3>2
  <2>5. counted2 \cap Protected = {}
    BY <1>5, <1>7 DEF Readable
  <2>6. ~(count' > length')
    BY <1>1, <1>3
  <2>7. QED  BY <1>1, <1>5, <1>6, <2>1, <2>2, <2>3, <2>4, <2>5, <2>6 DEF Looked
<1>8. GrowthWithin'
  <2>1. before \in 0..starts'
    BY <1>1
  <2>2. CASE Readable(head)
    <3>1. Looked(there, counted \cup {head}, skipped, before)'
      BY <1>2, <1>7, <2>2
    <3>2. counted \cup {head} \in SUBSET Ids
      BY <1>2
    <3>3. QED  BY <2>1, <3>1, <3>2 DEF GrowthWithin
  <2>3. CASE ~Readable(head)
    <3>1. Looked(there, counted, skipped \cup ({head} \cap Protected), before)'
      BY <1>7, <2>3
    <3>2. skipped \cup ({head} \cap Protected) \in SUBSET Protected
      OBVIOUS
    <3>3. QED  BY <2>1, <3>1, <3>2 DEF GrowthWithin
  <2>4. QED  BY <2>2, <2>3
<1>9. QED  BY <1>1, <1>2, <1>8 DEF GrowthInv, GrowthBetween, GivesUpOnGrowth

\* The first id without a slot shows that the attempt fails, and why.
LEMMA CountOnGrowth == TypeInv /\ FreshInv /\ GrowthInv /\ CountOn => GrowthInv'
<1> SUFFICES ASSUME TypeInv, FreshInv, GrowthInv, CountOn PROVE GrowthInv'
  OBVIOUS
<1>1. /\ at = "fill" /\ at' = "fill" /\ ids # <<>> /\ count >= length /\ ids' = Tail(ids)
      /\ length' = length /\ retry' = retry /\ live' = live /\ starts' = starts /\ starts \in Nat
      /\ count \in Nat /\ length \in Nat /\ live \subseteq Ids /\ count' = count + 1 /\ retry \in Nat
  BY EnumerationAssumption DEF CountOn, TypeInv, TypeOK, world
<1>2. PICK head \in Ids :
          /\ head = Head(ids) /\ Remaining = Remaining' \cup {head} /\ Remaining \subseteq Ids
          /\ \A y \in Remaining' : head < y
          /\ Ascending'
  BY <1>1, HeadTaken DEF GrowthInv
<1>3. PICK there \in SUBSET Ids, counted \in SUBSET Ids, skipped \in SUBSET Protected, before \in 0..starts :
          Looked(there, counted, skipped, before)
  BY <1>1 DEF GrowthInv, GrowthWithin
<1>4. /\ counted \cup skipped \cup Remaining \subseteq there /\ Cardinality(counted) = count
      /\ \A x \in counted \cup skipped, y \in Remaining : x < y
      /\ starts >= before + Cardinality(live \ (counted \cup skipped \cup Remaining))
      /\ count = length => counted \cap Protected = {} /\ CameSince(there, before, retry)
      /\ count # length =>
             before >= Growth(retry) /\ \A q \in skipped : \E c \in counted : q < c
  BY <1>1, <1>3 DEF Looked
<1>5. /\ IsFiniteSet(Ids) /\ Ids \subseteq Nat /\ Protected \subseteq Ids /\ Slack \in Nat
  BY EnumerationAssumption
<1> DEFINE counted2 == counted \cup {head}
<1>6. Cardinality(counted2) = count'
  <2>1. head \notin counted
    BY <1>2, <1>4, <1>5
  <2>2. IsFiniteSet(counted)
    BY <1>5, FS_Subset
  <2>3. Cardinality(counted \cup {head}) = Cardinality(counted) + 1
    BY <2>1, <2>2, FS_AddElement
  <2>4. QED  BY <1>1, <1>4, <2>3
<1>7. before >= Growth(retry)
  <2>1. CASE count = length /\ retry > 0
    <3>1. PICK counted1 \in SUBSET Ids, skipped1 \in SUBSET Protected :
              /\ Cardinality(counted1) + Slack = length
              /\ \A q \in skipped1 : \E c \in counted1 : q < c
              /\ before >= Growth(retry - 1) + Cardinality(there \ (counted1 \cup skipped1))
      BY <1>4, <2>1 DEF CameSince
    <3>2. IsFiniteSet(counted1) /\ Cardinality(counted1) \in Nat /\ IsFiniteSet(there)
      BY <1>5, FS_Subset, FS_CardinalityType
    <3>3. Cardinality(counted) = Cardinality(counted1) + Slack
      BY <1>4, <2>1, <3>1, <3>2
    <3>4. counted \in SUBSET there /\ head \in there /\ \A x \in counted : x < head
      BY <1>2, <1>4
    <3>5. counted \cap skipped1 = {}
      BY <1>4, <2>1
    <3>6. there \in SUBSET Nat /\ counted1 \in SUBSET Nat /\ skipped1 \in SUBSET Nat
      BY <1>5
    <3>7. Cardinality(there \ (counted1 \cup skipped1)) >= Slack + 1
      BY ONLY <1>5, <3>1, <3>2, <3>3, <3>4, <3>5, <3>6, MoreThanSlack
    <3>8. Cardinality(there \ (counted1 \cup skipped1)) \in Nat
      BY <3>2, FS_Subset, FS_CardinalityType
    <3>9. retry - 1 \in Nat /\ (retry - 1) + 1 = retry
      BY <1>1, <2>1
    <3>10. Growth(retry - 1) \in Nat /\ Growth(retry) = Growth(retry - 1) + Slack + 1
      BY <3>9, GrowthStep
    <3> HIDE DEF Growth
    <3>11. before \in Nat
      BY <1>1
    <3>12. QED  BY ONLY <1>5, <3>1, <3>7, <3>8, <3>10, <3>11
  <2>2. CASE retry = 0
    BY <1>1, <2>2, GrowthStep
  <2>3. CASE count # length
    BY <1>4, <2>3
  <2>4. QED  BY <1>1, <2>1, <2>2, <2>3
<1>8. \A q \in skipped : \E c \in counted2 : q < c
  BY <1>2, <1>4
<1>9. Looked(there, counted2, skipped, before)'
  <2>1. counted2 \cup skipped \cup Remaining' \subseteq there
    BY <1>2, <1>4
  <2>2. \A x \in counted2 \cup skipped, y \in Remaining' : x < y
    BY <1>2, <1>4
  <2>3. live \ (counted2 \cup skipped \cup Remaining') = live \ (counted \cup skipped \cup Remaining)
    BY <1>2
  <2>4. count' > length' /\ ~(count' <= length')
    BY <1>1
  <2>5. (before >= Growth(retry))'
    BY <1>1, <1>7 DEF Growth
  <2>6. starts' >= before + Cardinality(live' \ (counted2 \cup skipped \cup Remaining'))
    BY <1>1, <1>4, <2>3
  <2> HIDE DEF counted2
  <2>7. QED  BY <1>6, <1>8, <2>1, <2>2, <2>4, <2>5, <2>6 DEF Looked
<1>10. GrowthWithin'
  <2>1. before \in 0..starts' /\ counted2 \in SUBSET Ids
    BY <1>1, <1>2
  <2> HIDE DEF counted2
  <2>2. QED  BY <1>9, <2>1 DEF GrowthWithin
<1>11. QED  BY <1>1, <1>2, <1>10 DEF GrowthInv, GrowthBetween, GivesUpOnGrowth

\* What comes is paid for, and what goes costs nothing.
LEMMA SystemGrowth ==
    ASSUME NEW id \in Ids, TypeInv, GrowthInv, Start(id) \/ Exit(id)
    PROVE  GrowthInv'
<1>1. /\ at' = at /\ length' = length /\ retry' = retry /\ ids' = ids /\ count' = count
      /\ at # "exhausted" /\ starts \in Nat /\ live \subseteq Ids
  BY DEF Start, Exit, listing, TypeInv, TypeOK
<1>2. starts' \in Nat /\ starts' >= starts
  BY <1>1 DEF Start, Exit
<1>3. \A T : /\ Cardinality(live \ T) \in Nat /\ Cardinality(live' \ T) \in Nat
             /\ Cardinality(live' \ T) + starts <= Cardinality(live \ T) + starts'
  <2> SUFFICES ASSUME NEW T
               PROVE  /\ Cardinality(live \ T) \in Nat /\ Cardinality(live' \ T) \in Nat
                      /\ Cardinality(live' \ T) + starts <= Cardinality(live \ T) + starts'
    OBVIOUS
  <2>1. IsFiniteSet(live)
    BY <1>1, EnumerationAssumption, FS_Subset
  <2>2. CASE Start(id)
    <3>1. live' = live \cup {id} /\ starts' = starts + 1
      BY <2>2 DEF Start
    <3>2. /\ Cardinality((live \cup {id}) \ T) <= Cardinality(live \ T) + 1
          /\ Cardinality(live \ T) \in Nat
          /\ Cardinality((live \cup {id}) \ T) \in Nat
      BY <2>1, OneMore
    <3>3. QED  BY <1>1, <3>1, <3>2
  <2>3. CASE Exit(id)
    <3>1. live' = live \ {id} /\ starts' = starts
      BY <2>3 DEF Exit
    <3>2. Cardinality((live \ {id}) \ T) <= Cardinality(live \ T)
      BY <2>1, OneLess
    <3>3. Cardinality(live \ T) \in Nat /\ Cardinality((live \ {id}) \ T) \in Nat
      BY <2>1, FS_Subset, FS_CardinalityType
    <3>4. QED  BY <1>1, <3>1, <3>2, <3>3
  <2>4. QED  BY <2>2, <2>3
<1>4. Ascending' /\ Remaining' = Remaining
  BY <1>1 DEF GrowthInv, Ascending, Remaining
<1>5. GrowthBetween'
  <2> SUFFICES ASSUME at = "enumerate", retry > 0 PROVE CameSince(live, starts, retry)'
    BY <1>1 DEF GrowthBetween, CameSince
  <2>1. PICK counted \in SUBSET Ids, skipped \in SUBSET Protected :
            /\ Cardinality(counted) + Slack = length
            /\ \A q \in skipped : \E c \in counted : q < c
            /\ starts >= Growth(retry - 1) + Cardinality(live \ (counted \cup skipped))
    BY DEF GrowthInv, GrowthBetween, CameSince
  <2>2. retry - 1 \in Nat /\ Growth(retry - 1) \in Nat
    <3>1. retry - 1 \in Nat
      BY EnumerationAssumption DEF TypeInv, TypeOK
    <3>2. QED  BY <3>1, GrowthStep
  <2>3. starts' >= Growth(retry - 1) + Cardinality(live' \ (counted \cup skipped))
    <3> DEFINE T == counted \cup skipped
    <3>1. /\ Cardinality(live \ T) \in Nat /\ Cardinality(live' \ T) \in Nat
          /\ Cardinality(live' \ T) + starts <= Cardinality(live \ T) + starts'
      BY ONLY <1>3
    <3>2. QED  BY ONLY <1>1, <1>2, <2>1, <2>2, <3>1
  <2>4. QED  BY <1>1, <2>1, <2>3 DEF CameSince, Growth
<1>6. GrowthWithin'
  <2> SUFFICES ASSUME at = "fill" PROVE GrowthWithin'
    BY <1>1 DEF GrowthWithin
  <2>1. PICK there \in SUBSET Ids, counted \in SUBSET Ids, skipped \in SUBSET Protected, before \in 0..starts :
            Looked(there, counted, skipped, before)
    BY DEF GrowthInv, GrowthWithin
  <2>2. starts' >= before + Cardinality(live' \ (counted \cup skipped \cup Remaining))
    <3> DEFINE T == counted \cup skipped \cup Remaining
    <3>1. /\ Cardinality(live \ T) \in Nat /\ Cardinality(live' \ T) \in Nat
          /\ Cardinality(live' \ T) + starts <= Cardinality(live \ T) + starts'
      BY ONLY <1>3
    <3>2. starts >= before + Cardinality(live \ T) /\ before \in Nat
      BY <1>1, <2>1 DEF Looked
    <3>3. QED  BY ONLY <1>1, <1>2, <3>1, <3>2
  <2>3. CameSince(there, before, retry) => CameSince(there, before, retry)'
    BY <1>1 DEF CameSince, Growth
  <2>4. (before >= Growth(retry))' <=> before >= Growth(retry)
    BY <1>1 DEF Growth
  <2>5. Looked(there, counted, skipped, before)'
    BY <1>1, <1>4, <2>1, <2>2, <2>3, <2>4 DEF Looked
  <2>6. before \in 0..starts'
    BY <1>1, <1>2
  <2>7. QED  BY <2>5, <2>6 DEF GrowthWithin
<1>7. QED  BY <1>1, <1>4, <1>5, <1>6 DEF GrowthInv, GivesUpOnGrowth

\* A larger Vec, a failure, and no step at all change nothing of it.
LEMMA OthersGrowth ==
    GrowthInv /\ (ListDone \/ EnumerateAgain \/ EnumerateFails \/ UNCHANGED vars) => GrowthInv'
<1> SUFFICES ASSUME GrowthInv, ListDone \/ EnumerateAgain \/ EnumerateFails \/ UNCHANGED vars
             PROVE  GrowthInv'
  OBVIOUS
<1> USE DEF GrowthInv, Ascending, GrowthBetween, GrowthWithin, GivesUpOnGrowth
<1>1. CASE ListDone \/ EnumerateFails
  BY <1>1 DEF ListDone, EnumerateFails
<1>2. CASE EnumerateAgain
  BY <1>2 DEF EnumerateAgain, world, CameSince, Growth
<1>3. CASE UNCHANGED vars
  <2>1. /\ at' = at /\ length' = length /\ retry' = retry /\ ids' = ids /\ count' = count
        /\ live' = live /\ starts' = starts
    BY <1>3 DEF vars, listing, world
  <2>2. \A there \in SUBSET Ids, counted \in SUBSET Ids, skipped \in SUBSET Protected, before \in 0..starts :
            Looked(there, counted, skipped, before) => Looked(there, counted, skipped, before)'
    <3> SUFFICES ASSUME NEW there \in SUBSET Ids, NEW counted \in SUBSET Ids,
                        NEW skipped \in SUBSET Protected, NEW before \in 0..starts,
                        Looked(there, counted, skipped, before)
                 PROVE  Looked(there, counted, skipped, before)'
      OBVIOUS
    <3>1. CameSince(there, before, retry)' <=> CameSince(there, before, retry)
      BY <2>1 DEF CameSince, Growth
    <3>2. Remaining' = Remaining
      BY <2>1 DEF Remaining
    <3>3. (before >= Growth(retry))' <=> before >= Growth(retry)
      BY <2>1 DEF Growth
    <3>4. QED  BY <2>1, <3>1, <3>2, <3>3 DEF Looked
  <2>3. GrowthWithin'
    BY <2>1, <2>2
  <2>4. GrowthBetween'
    BY <2>1 DEF CameSince, Growth
  <2>5. QED  BY <2>1, <2>3, <2>4
<1>4. QED  BY <1>1, <1>2, <1>3

\* Every step keeps it.
LEMMA NextGrowth == VecSuffices /\ TypeInv /\ FreshInv /\ GrowthInv /\ [Next]_vars => GrowthInv'
BY ListGrowth, ListAgainGrowth, EnumerateGrowth, FillGrowth, CountOnGrowth, SystemGrowth, OthersGrowth
   DEF Next, Listing, Returned

\* So it holds as long as the Vec of the driver suffices.
LEMMA GrowthInvariance == Spec /\ []VecSuffices => []GrowthInv
<1>1. Init => GrowthInv
  BY DEF Init, GrowthInv, Ascending, GrowthBetween, GrowthWithin, GivesUpOnGrowth
<1>2. QED  BY TypeInvIsInvariant, FreshInvariance, <1>1, NextGrowth, PTL DEF Spec

\* All attempts fail only if before each but the first more came than the slack
\* makes room for: neither ids that may not be read, counted by one attempt and
\* skipped by the next, nor any that go use an attempt up.
THEOREM GivingUpTakesGrowth == Spec /\ []VecSuffices => []GivesUpOnGrowth
<1>1. GrowthInv => GivesUpOnGrowth
  BY DEF GrowthInv
<1>2. QED  BY GrowthInvariance, <1>1, PTL

\* The list of processes needs no condition: EnumProcesses reports no more than
\* fits.
THEOREM ProcessListsAreRight ==
    ~ReportsNeeded => (Spec => [](ListIsFresh /\ NothingMissed /\ GivesUpOnGrowth))
<1>1. ~ReportsNeeded => VecSuffices
  BY DEF VecSuffices
<1>2. FreshInv /\ GrowthInv => ListIsFresh /\ NothingMissed /\ GivesUpOnGrowth
  BY DEF FreshInv, GrowthInv
<1>3. ASSUME ~ReportsNeeded PROVE Spec => [](ListIsFresh /\ NothingMissed /\ GivesUpOnGrowth)
  <2>1. VecSuffices
    BY <1>1, <1>3
  <2>2. QED  BY <1>2, <2>1, FreshInvariance, GrowthInvariance, PTL
<1>4. QED  BY <1>3
=============================================================================
