----------------------- MODULE DriverInstancesProofs -----------------------
(***************************************************************************)
(* Proofs about DriverInstances, for any number of interfaces and library  *)
(* files and any table of the firmware.                                    *)
(*                                                                         *)
(* All of it rests on one fact that metrics.rs does not show: only the     *)
(* panic of a second logger keeps two interfaces from using one mapped     *)
(* library.  So at most one interface of a library is past its startup,    *)
(* and METRICS belongs to that one.                                        *)
(*                                                                         *)
(* What a client sends is another matter: the scan of the table, which is  *)
(* shown to find what the table means by where each byte of it lies.       *)
(***************************************************************************)
EXTENDS DriverInstances, Inductions

Started(i) == at[i] \notin {"idle", "startup"}

\* The types that the proofs need; of a client only that there is one.
Types ==
    /\ at \in [Interfaces -> Places]
    /\ uses \in [Interfaces -> Libraries \cup {NoLibrary}]
    /\ logger \in [Libraries -> BOOLEAN]
    /\ metrics \in [Libraries -> SUBSET {DeviceId}]
    /\ held \in [Interfaces -> SUBSET {DeviceId}]
    /\ served \in [Interfaces -> BOOLEAN]
    /\ \A i \in Interfaces : uses[i] = NoLibrary <=> at[i] = "idle"

\* The logger is set from the first startup to the last unload.
LoggerInUse ==
    /\ \A i \in Interfaces : Started(i) => logger[uses[i]]
    /\ \A library \in Libraries : logger[library] => \E i \in Interfaces : uses[i] = library

\* One interface at most is past the startup of a library.
OneStarted ==
    \A i, j \in Interfaces : Started(i) /\ Started(j) /\ uses[i] = uses[j] => i = j

\* Without an overlap a library has one user, and a set logger is that user's.
Apart ==
    ~overlap =>
        /\ \A i, j \in Interfaces : uses[i] = uses[j] /\ uses[i] # NoLibrary => i = j
        /\ \A i \in Interfaces : at[i] = "startup" => ~logger[uses[i]]
        /\ process = "up"

\* A client in METRICS is the business of an interface that will yet take it.
ClientOwned ==
    \A library \in Libraries : metrics[library] # {} =>
        \E i \in Interfaces : uses[i] = library /\ at[i] \in {"initialize", "ready", "teardown"}

\* And it is there when its interface has been told so.
ClientKept ==
    \A i \in Interfaces :
        /\ at[i] \in {"initialize", "ready"} /\ served[i] => metrics[uses[i]] # {}
        /\ at[i] = "make" => ~served[i]
        /\ at[i] = "store" => held[i] # {}

IInv == Types /\ LoggerInUse /\ OneStarted /\ Apart /\ ClientOwned /\ ClientKept

\* In a fresh process nothing is set and nobody has started.
LEMMA InitInv == Init => IInv
BY InstancesAssumption DEF Init, IInv, Types, Places, LoggerInUse, OneStarted, Apart, ClientOwned, ClientKept, Started

\* The firmware stays as it is, and so does the id of the device.
LEMMA SameDevice == ASSUME UNCHANGED firmware PROVE DeviceId' = DeviceId
BY DEF DeviceId

\* A new user has not started the library yet; without an overlap it is the
\* only one, and the logger is not set.
LEMMA LoadInv ==
    ASSUME IInv, NEW i \in Interfaces, NEW library \in Libraries, Load(i, library)
    PROVE  IInv'
<1>1. DeviceId' = DeviceId
  BY SameDevice DEF Load, Move
<1>2. Types'
  BY <1>1, InstancesAssumption DEF Load, Move, IInv, Types, Places, statics
<1>3. LoggerInUse'
  BY InstancesAssumption DEF Load, Move, IInv, Types, LoggerInUse, Started, statics
<1>4. OneStarted'
  BY DEF Load, Move, IInv, Types, OneStarted, Started
<1>5. Apart'
  <2> SUFFICES ASSUME ~overlap' PROVE Apart'
    BY DEF Apart
  <2>1. ~overlap /\ \A j \in Interfaces : uses[j] # library
    BY DEF Load, Users
  <2>2. ~logger[library]
    BY <2>1 DEF IInv, LoggerInUse
  <2>3. /\ uses'[i] = library /\ at'[i] = "startup"
        /\ \A j \in Interfaces \ {i} : uses'[j] = uses[j] /\ at'[j] = at[j]
    BY DEF Load, Move, IInv, Types
  <2>4. logger' = logger /\ process' = "up"
    BY DEF Load, Move, statics
  <2>5. \A j, k \in Interfaces : uses'[j] = uses'[k] /\ uses'[j] # NoLibrary => j = k
    BY <2>1, <2>3 DEF IInv, Apart
  <2>6. \A j \in Interfaces : at'[j] = "startup" => ~logger'[uses'[j]]
    BY <2>1, <2>2, <2>3, <2>4 DEF IInv, Apart
  <2>7. QED  BY <2>4, <2>5, <2>6 DEF Apart
<1>6. ClientOwned'
  BY DEF Load, Move, IInv, Types, ClientOwned, statics
<1>7. ClientKept'
  BY DEF Load, Move, IInv, Types, ClientKept, statics
<1>8. QED  BY <1>2, <1>3, <1>4, <1>5, <1>6, <1>7 DEF IInv

\* The logger was not set, so that nobody else is past the startup.
LEMMA StartupInv ==
    ASSUME IInv, NEW i \in Interfaces, Startup(i)
    PROVE  IInv'
<1>1. DeviceId' = DeviceId
  BY SameDevice DEF Startup, Move
<1>2. Types'
  BY <1>1 DEF Startup, Move, IInv, Types, Places, statics, ofInterface
<1>3. LoggerInUse'
  BY DEF Startup, Move, IInv, Types, LoggerInUse, Started, statics, ofInterface
<1>4. OneStarted'
  BY DEF Startup, Move, IInv, Types, OneStarted, LoggerInUse, Started, ofInterface
<1>5. Apart'
  BY DEF Startup, Move, IInv, Types, Apart
<1>6. ClientOwned'
  BY DEF Startup, Move, IInv, Types, ClientOwned, statics, ofInterface
<1>7. ClientKept'
  BY DEF Startup, Move, IInv, Types, ClientKept, statics, ofInterface
<1>8. QED  BY <1>2, <1>3, <1>4, <1>5, <1>6, <1>7 DEF IInv

\* What METRICS holds is of this interface, and it is told so.
LEMMA CheckMetricsInv ==
    ASSUME IInv, NEW i \in Interfaces, CheckMetrics(i)
    PROVE  IInv'
<1>1. DeviceId' = DeviceId
  BY SameDevice DEF CheckMetrics, Move
<1>2. Types'
  BY <1>1 DEF CheckMetrics, Move, IInv, Types, Places, statics
<1>3. LoggerInUse'
  BY DEF CheckMetrics, Move, IInv, Types, LoggerInUse, Started, statics
<1>4. OneStarted'
  BY DEF CheckMetrics, Move, IInv, Types, OneStarted, Started
<1>5. Apart'
  BY DEF CheckMetrics, Move, IInv, Types, Apart, statics
<1>6. ClientOwned'
  BY DEF CheckMetrics, Move, IInv, Types, ClientOwned, statics
<1>7. ClientKept'
  <2>1. /\ at'[i] \in {"make", "initialize"} /\ served'[i] = (metrics[uses[i]] # {})
        /\ at'[i] = "make" => metrics[uses[i]] = {}
        /\ \A j \in Interfaces \ {i} : at'[j] = at[j] /\ served'[j] = served[j]
    BY DEF CheckMetrics, Move, IInv, Types
  <2>2. UNCHANGED <<uses, metrics, held>>
    BY DEF CheckMetrics, statics
  <2>3. QED  BY <2>1, <2>2 DEF IInv, ClientKept
<1>8. QED  BY <1>2, <1>3, <1>4, <1>5, <1>6, <1>7 DEF IInv

\* A client that is made is held until it is stored.
LEMMA MakeClientInv ==
    ASSUME IInv, NEW i \in Interfaces, MakeClient(i)
    PROVE  IInv'
<1>1. DeviceId' = DeviceId
  BY SameDevice DEF MakeClient, Move
<1>2. Types'
  BY <1>1 DEF MakeClient, Move, IInv, Types, Places, statics
<1>3. LoggerInUse'
  BY DEF MakeClient, Move, IInv, Types, LoggerInUse, Started, statics
<1>4. OneStarted'
  BY DEF MakeClient, Move, IInv, Types, OneStarted, Started
<1>5. Apart'
  BY DEF MakeClient, Move, IInv, Types, Apart, statics
<1>6. ClientOwned'
  BY DEF MakeClient, Move, IInv, Types, ClientOwned, statics
<1>7. ClientKept'
  BY <1>2, InstancesAssumption DEF MakeClient, Move, IInv, Types, Places, ClientKept, statics
<1>8. QED  BY <1>2, <1>3, <1>4, <1>5, <1>6, <1>7 DEF IInv

\* METRICS is written by the one interface that is past the startup.
LEMMA StoreClientInv ==
    ASSUME IInv, NEW i \in Interfaces, StoreClient(i)
    PROVE  IInv'
<1>1. DeviceId' = DeviceId
  BY SameDevice DEF StoreClient, Move
<1>2. Types'
  BY <1>1 DEF StoreClient, Move, IInv, Types, Places
<1>3. LoggerInUse'
  BY DEF StoreClient, Move, IInv, Types, LoggerInUse, Started
<1>4. OneStarted'
  BY DEF StoreClient, Move, IInv, Types, OneStarted, Started
<1>5. Apart'
  BY DEF StoreClient, Move, IInv, Types, Apart
<1>6. ClientOwned'
  BY DEF StoreClient, Move, IInv, Types, ClientOwned
<1>7. ClientKept'
  BY DEF StoreClient, Move, IInv, Types, ClientKept
<1>8. QED  BY <1>2, <1>3, <1>4, <1>5, <1>6, <1>7 DEF IInv

\* Refused or not, the interface will come to take the client.
LEMMA InitializeInv ==
    ASSUME IInv, NEW i \in Interfaces, Initialize(i)
    PROVE  IInv'
<1>1. DeviceId' = DeviceId
  BY SameDevice DEF Initialize, Move
<1>2. Types'
  BY <1>1 DEF Initialize, Move, IInv, Types, Places, statics
<1>3. LoggerInUse'
  BY DEF Initialize, Move, IInv, Types, LoggerInUse, Started, statics
<1>4. OneStarted'
  BY DEF Initialize, Move, IInv, Types, OneStarted, Started
<1>5. Apart'
  BY DEF Initialize, Move, IInv, Types, Apart, statics
<1>6. ClientOwned'
  BY DEF Initialize, Move, IInv, Types, ClientOwned, statics
<1>7. ClientKept'
  BY DEF Initialize, Move, IInv, Types, ClientKept, statics
<1>8. QED  BY <1>2, <1>3, <1>4, <1>5, <1>6, <1>7 DEF IInv

\* The same on the ordinary end.
LEMMA DestroyInv ==
    ASSUME IInv, NEW i \in Interfaces, Destroy(i)
    PROVE  IInv'
<1>1. DeviceId' = DeviceId
  BY SameDevice DEF Destroy, Move
<1>2. Types'
  BY <1>1 DEF Destroy, Move, IInv, Types, Places, statics
<1>3. LoggerInUse'
  BY DEF Destroy, Move, IInv, Types, LoggerInUse, Started, statics
<1>4. OneStarted'
  BY DEF Destroy, Move, IInv, Types, OneStarted, Started
<1>5. Apart'
  BY DEF Destroy, Move, IInv, Types, Apart, statics
<1>6. ClientOwned'
  BY DEF Destroy, Move, IInv, Types, ClientOwned, statics
<1>7. ClientKept'
  BY DEF Destroy, Move, IInv, Types, ClientKept, statics
<1>8. QED  BY <1>2, <1>3, <1>4, <1>5, <1>6, <1>7 DEF IInv

\* Nobody else is past the startup whose client this could be.
LEMMA TakeClientInv ==
    ASSUME IInv, NEW i \in Interfaces, TakeClient(i)
    PROVE  IInv'
<1>1. DeviceId' = DeviceId
  BY SameDevice DEF TakeClient, Move
<1>2. Types'
  BY <1>1 DEF TakeClient, Move, IInv, Types, Places
<1>3. LoggerInUse'
  BY DEF TakeClient, Move, IInv, Types, LoggerInUse, Started
<1>4. OneStarted'
  BY DEF TakeClient, Move, IInv, Types, OneStarted, Started
<1>5. Apart'
  BY DEF TakeClient, Move, IInv, Types, Apart
<1>6. ClientOwned'
  BY DEF TakeClient, Move, IInv, Types, ClientOwned
<1>7. ClientKept'
  BY DEF TakeClient, Move, IInv, Types, ClientKept, OneStarted, Started
<1>8. QED  BY <1>2, <1>3, <1>4, <1>5, <1>6, <1>7 DEF IInv

\* METRICS is empty already.
LEMMA ShutdownClientInv ==
    ASSUME IInv, NEW i \in Interfaces, ShutdownClient(i)
    PROVE  IInv'
<1>1. DeviceId' = DeviceId
  BY SameDevice DEF ShutdownClient, Move
<1>2. Types'
  BY <1>1 DEF ShutdownClient, Move, IInv, Types, Places, statics
<1>3. LoggerInUse'
  BY DEF ShutdownClient, Move, IInv, Types, LoggerInUse, Started, statics
<1>4. OneStarted'
  BY DEF ShutdownClient, Move, IInv, Types, OneStarted, Started
<1>5. Apart'
  BY DEF ShutdownClient, Move, IInv, Types, Apart, statics
<1>6. ClientOwned'
  BY DEF ShutdownClient, Move, IInv, Types, ClientOwned, statics
<1>7. ClientKept'
  BY DEF ShutdownClient, Move, IInv, Types, ClientKept, statics
<1>8. QED  BY <1>2, <1>3, <1>4, <1>5, <1>6, <1>7 DEF IInv

\* The logger stays for other users, and goes with the last.
LEMMA UnloadInv ==
    ASSUME IInv, NEW i \in Interfaces, Unload(i)
    PROVE  IInv'
<1>1. DeviceId' = DeviceId
  BY SameDevice DEF Unload, Move
<1>2. Types'
  BY <1>1 DEF Unload, Move, IInv, Types, Places, statics
<1>3. LoggerInUse'
  BY DEF Unload, Move, IInv, Types, LoggerInUse, Started, statics, Users
<1>4. OneStarted'
  BY DEF Unload, Move, IInv, Types, OneStarted, Started
<1>5. Apart'
  BY DEF Unload, Move, IInv, Types, Apart, statics
<1>6. ClientOwned'
  BY DEF Unload, Move, IInv, Types, ClientOwned, statics
<1>7. ClientKept'
  BY DEF Unload, Move, IInv, Types, ClientKept, OneStarted, Started, statics
<1>8. QED  BY <1>2, <1>3, <1>4, <1>5, <1>6, <1>7 DEF IInv

\* Every step of an interface keeps the invariant.
LEMMA NextInv == IInv /\ [Next]_vars => IInv'
<1> SUFFICES ASSUME IInv, [Next]_vars PROVE IInv'
  OBVIOUS
<1>1. ASSUME NEW i \in Interfaces, Step(i) PROVE IInv'
  BY <1>1, LoadInv, StartupInv, CheckMetricsInv, MakeClientInv, StoreClientInv, InitializeInv,
     DestroyInv, TakeClientInv, ShutdownClientInv, UnloadInv DEF Step
<1>2. CASE UNCHANGED vars
  BY <1>2 DEF vars, statics, ofInterface, DeviceId, IInv, Types, LoggerInUse, OneStarted, Apart,
     ClientOwned, ClientKept, Started
<1>3. QED  BY <1>1, <1>2 DEF Next, Aborted

\* So it holds in every state that can be reached.
LEMMA Invariance == Spec => []IInv
BY InitInv, NextInv, PTL DEF Spec

\* An application that does not overlap two interfaces on one file is never
\* aborted.
THEOREM SequentialUseIsSafe == Spec => []AloneIsSafe
<1>1. IInv => AloneIsSafe
  BY DEF IInv, Apart, AloneIsSafe
<1>2. QED  BY <1>1, Invariance, PTL

\* The metrics of an interface that is ready are never taken by another one.
THEOREM MetricsAreKept == Spec => []MetricsKept
<1>1. IInv => MetricsKept
  BY DEF IInv, ClientKept, MetricsKept
<1>2. QED  BY <1>1, Invariance, PTL

\* A library is never unmapped with a client in it.
THEOREM NoneIsAbandoned == Spec => NoClientAbandoned
<1>1. ASSUME IInv, NEW i \in Interfaces, Unload(i), Users(uses[i]) = {i}
      PROVE  metrics[uses[i]] = {}
  <2>1. at[i] = "unload" /\ uses[i] \in Libraries
    BY <1>1 DEF Unload, Move, IInv, Types
  <2>2. \A j \in Interfaces : uses[j] = uses[i] => j = i
    BY <1>1 DEF Users
  <2>3. QED  BY <1>1, <2>1, <2>2 DEF IInv, ClientOwned
<1>2. IInv /\ [Next]_vars =>
        [\A i \in Interfaces : Unload(i) /\ Users(uses[i]) = {i} => metrics[uses[i]] = {}]_vars
  BY <1>1
<1>3. QED  BY <1>2, Invariance, PTL DEF Spec, NoClientAbandoned

-----------------------------------------------------------------------------
(* Sequences laid end to end.                                              *)

\* Min finds the least.
LEMMA MinProperties ==
    ASSUME NEW T \in SUBSET Nat, T # {}
    PROVE  Min(T) \in T /\ \A y \in T : Min(T) <= y
BY LeastNumber DEF Min

\* Where each of the sequences begins in all of them: start[k] elements come
\* before the k-th.
Lies(start, parts, n, all) ==
    /\ start[1] = 0 /\ start[n + 1] = Len(all)
    /\ \A k \in 1..n :
          /\ start[k] \in Nat /\ start[k + 1] = start[k] + Len(parts[k])
          /\ start[k + 1] <= Len(all)
          /\ \A j \in 1..Len(parts[k]) : all[start[k] + j] = parts[k][j]
    /\ \A q \in 1..Len(all) : \E k \in 1..n : q - start[k] \in 1..Len(parts[k])

\* No sequences, end to end.
LEMMA LiesEmpty ==
    ASSUME NEW parts
    PROVE  \E start : Lies(start, parts, 0, <<>>)
<1>1. Lies([k \in {1} |-> 0], parts, 0, <<>>)
  BY DEF Lies
<1>2. QED  BY <1>1

\* One more sequence after the others.
LEMMA LiesAppend ==
    ASSUME NEW S, NEW n \in Nat, NEW parts,
           \A k \in 1..(n + 1) : parts[k] \in Seq(S),
           NEW all \in Seq(S), NEW start, Lies(start, parts, n, all)
    PROVE  \E next : Lies(next, parts, n + 1, all \o parts[n + 1])
<1> DEFINE part == parts[n + 1]
           longer == all \o part
           next == [k \in 1..(n + 2) |-> IF k = n + 2 THEN Len(all) + Len(part) ELSE start[k]]
<1>1. part \in Seq(S) /\ Len(part) \in Nat /\ Len(all) \in Nat
  <2>1. n + 1 \in 1..(n + 1)
    OBVIOUS
  <2>2. part \in Seq(S)
    BY <2>1
  <2> HIDE DEF part
  <2>3. QED  BY <2>2, LenProperties
<1> HIDE DEF part
<1>2. /\ Len(longer) = Len(all) + Len(part)
      /\ \A i \in 1..(Len(all) + Len(part)) :
            longer[i] = IF i <= Len(all) THEN all[i] ELSE part[i - Len(all)]
  BY <1>1, ConcatProperties
<1> HIDE DEF longer
<1>3. start[1] = 0 /\ start[n + 1] = Len(all)
  BY DEF Lies
<1>4. /\ \A k \in 1..(n + 1) : next[k] = start[k]
      /\ next[n + 2] = Len(longer)
  BY <1>2
<1> HIDE DEF next
<1>5. next[1] = 0 /\ next[(n + 1) + 1] = Len(longer)
  BY <1>3, <1>4
<1>6. ASSUME NEW k \in 1..(n + 1)
      PROVE  /\ next[k] \in Nat /\ next[k + 1] = next[k] + Len(parts[k])
             /\ next[k + 1] <= Len(longer)
             /\ \A j \in 1..Len(parts[k]) : longer[next[k] + j] = parts[k][j]
  <2>1. CASE k \in 1..n
    <3>1. next[k] = start[k] /\ next[k + 1] = start[k + 1]
      BY <1>4, <2>1
    <3>2. /\ start[k] \in Nat /\ start[k + 1] = start[k] + Len(parts[k])
          /\ start[k + 1] <= Len(all)
          /\ \A j \in 1..Len(parts[k]) : all[start[k] + j] = parts[k][j]
      BY <2>1 DEF Lies
    <3>3. Len(parts[k]) \in Nat
      BY LenProperties
    <3>4. ASSUME NEW j \in 1..Len(parts[k]) PROVE longer[next[k] + j] = parts[k][j]
      <4>1. start[k] + j \in 1..(Len(all) + Len(part)) /\ start[k] + j <= Len(all)
        BY <1>1, <3>2, <3>3
      <4>2. QED  BY <1>2, <3>1, <3>2, <4>1
    <3>5. QED  BY <1>1, <1>2, <3>1, <3>2, <3>4
  <2>2. CASE k = n + 1
    <3>1. next[k] = Len(all) /\ parts[k] = part /\ next[k + 1] = Len(all) + Len(part)
      BY <1>2, <1>3, <1>4, <2>2 DEF part
    <3>2. ASSUME NEW j \in 1..Len(part) PROVE longer[Len(all) + j] = part[j]
      <4>1. Len(all) + j \in 1..(Len(all) + Len(part)) /\ ~(Len(all) + j <= Len(all))
            /\ (Len(all) + j) - Len(all) = j
        BY <1>1
      <4>2. QED  BY <1>2, <4>1
    <3>3. QED  BY <1>1, <1>2, <3>1, <3>2
  <2>3. QED  BY <2>1, <2>2
<1>7. ASSUME NEW q \in 1..Len(longer)
      PROVE  \E k \in 1..(n + 1) : q - next[k] \in 1..Len(parts[k])
  <2>1. CASE q <= Len(all)
    <3>1. PICK k \in 1..n : q - start[k] \in 1..Len(parts[k])
      BY <1>1, <2>1 DEF Lies
    <3>2. QED  BY <1>4, <3>1
  <2>2. CASE ~(q <= Len(all))
    <3>1. next[n + 1] = Len(all) /\ parts[n + 1] = part /\ n + 1 \in 1..(n + 1)
      BY <1>3, <1>4 DEF part
    <3>2. q - Len(all) \in 1..Len(part)
      BY <1>1, <1>2, <2>2
    <3>3. QED  BY <3>1, <3>2
  <2>3. QED  BY <2>1, <2>2
<1>8. Lies(next, parts, n + 1, longer)
  BY <1>5, <1>6, <1>7 DEF Lies
<1>9. QED  BY <1>8 DEF longer, part

\* What FlattenSeq makes of more than nothing.
LEMMA FlattenUnfolds ==
    ASSUME NEW parts, Len(parts) # 0
    PROVE  FlattenSeq(parts) =
               (CHOOSE f : f = [i \in 1..Len(parts) |->
                                   IF i = 1 THEN parts[i] ELSE f[i - 1] \o parts[i]])[Len(parts)]
BY Zenon DEF FlattenSeq

\* FlattenSeq lays sequences end to end.
LEMMA FlattenLies ==
    ASSUME NEW S, NEW parts \in Seq(Seq(S))
    PROVE  /\ FlattenSeq(parts) \in Seq(S)
           /\ \E start : Lies(start, parts, Len(parts), FlattenSeq(parts))
<1>0. PICK n \in Nat : n = Len(parts) /\ \A k \in 1..n : parts[k] \in Seq(S)
  BY ElementOfSeq, LenProperties
<1>1. CASE n = 0
  <2>1. parts = <<>>
    BY <1>0, <1>1, EmptySeq
  <2>2. FlattenSeq(parts) = <<>>
    BY <2>1 DEF FlattenSeq
  <2>3. Len(parts) = 0 /\ <<>> \in Seq(S)
    BY <1>0, <1>1
  <2>4. QED  BY <2>1, <2>2, <2>3, LiesEmpty
<1>2. CASE n # 0
  <2> DEFINE Rule(f) == f = [i \in 1..n |-> IF i = 1 THEN parts[i] ELSE f[i - 1] \o parts[i]]
             flatten == CHOOSE f : Rule(f)
             P(m, f) == /\ f \in [1..m -> Seq(S)]
                        /\ \A i \in 1..m : f[i] = IF i = 1 THEN parts[i] ELSE f[i - 1] \o parts[i]
             Built == {m \in Nat : m + 1 <= n => \E f : P(m + 1, f)}
  <2>1. FlattenSeq(parts) = flatten[n]
    BY <1>0, <1>2, FlattenUnfolds
  <2>2. 0 \in Built
    <3>1. P(1, [i \in 1..1 |-> parts[1]])
      <4>1. 1 \in 1..n
        BY <1>2
      <4>2. parts[1] \in Seq(S)
        BY <1>0, <4>1
      <4>3. QED  BY <4>2
    <3> HIDE DEF P
    <3>2. QED  BY <3>1
  <2>3. ASSUME NEW m \in Nat, m \in Built PROVE m + 1 \in Built
    <3> HIDE DEF P
    <3>0. SUFFICES ASSUME (m + 1) + 1 <= n PROVE \E f : P((m + 1) + 1, f)
      OBVIOUS
    <3>1. (m + 1) + 1 = m + 2 /\ m + 2 <= n /\ m + 1 <= n
      BY <1>0, <3>0
    <3>2. PICK f : P(m + 1, f)
      BY <2>3, <3>1
    <3> DEFINE h == [i \in 1..(m + 2) |-> IF i = m + 2 THEN f[m + 1] \o parts[m + 2] ELSE f[i]]
    <3>3. f \in [1..(m + 1) -> Seq(S)] /\ parts[m + 2] \in Seq(S)
      BY <1>0, <3>1, <3>2 DEF P
    <3>4. f[m + 1] \o parts[m + 2] \in Seq(S)
      BY <3>3, ConcatProperties
    <3>5. h \in [1..(m + 2) -> Seq(S)]
      BY <3>3, <3>4
    <3>6. ASSUME NEW i \in 1..(m + 2) PROVE h[i] = IF i = 1 THEN parts[i] ELSE h[i - 1] \o parts[i]
      <4>1. CASE i = m + 2
        <5>1. i # 1 /\ i - 1 = m + 1 /\ m + 1 \in 1..(m + 2) /\ m + 1 # m + 2
          BY <4>1
        <5>2. QED  BY <4>1, <5>1
      <4>2. CASE i # m + 2 /\ i # 1
        <5>1. i \in 1..(m + 1) /\ i - 1 \in 1..(m + 2) /\ i - 1 # m + 2
          BY <4>2
        <5>2. h[i] = f[i] /\ h[i - 1] = f[i - 1]
          BY <4>2, <5>1
        <5>3. QED  BY <3>2, <4>2, <5>1, <5>2 DEF P
      <4>3. CASE i # m + 2 /\ i = 1
        <5>1. i \in 1..(m + 1) /\ h[i] = f[i]
          BY <4>3
        <5>2. QED  BY <3>2, <4>3, <5>1 DEF P
      <4>4. QED  BY <4>1, <4>2, <4>3
    <3> HIDE DEF h
    <3>7. P(m + 2, h)
      BY <3>5, <3>6 DEF P
    <3>8. QED  BY <3>1, <3>7
  <2>4. Nat \subseteq Built
    <3> HIDE DEF Built
    <3>1. QED  BY <2>2, <2>3, NumbersFrom0
  <2>5. PICK g : P(n, g)
    <3> HIDE DEF P
    <3>1. n - 1 \in Nat /\ (n - 1) + 1 = n
      BY <1>2
    <3>2. n - 1 \in Built
      BY <2>4, <3>1
    <3>3. QED  BY <3>1, <3>2
  <2>6. Rule(g)
    BY <2>5
  <2>7. Rule(flatten)
    <3> HIDE DEF Rule
    <3>1. QED  BY <2>6
  <2> HIDE DEF flatten
  <2> DEFINE Laid == {m \in Nat : m + 1 <= n =>
                         /\ flatten[m + 1] \in Seq(S)
                         /\ \E start : Lies(start, parts, m + 1, flatten[m + 1])}
  <2>8. \A i \in 1..n : flatten[i] = IF i = 1 THEN parts[i] ELSE flatten[i - 1] \o parts[i]
    BY <2>7
  <2> HIDE DEF Rule, P, Built
  <2>9. 0 \in Laid
    <3>1. flatten[1] = parts[1] /\ parts[1] \in Seq(S) /\ 1 \in 1..n
      BY <1>0, <1>2, <2>8
    <3>2. <<>> \o parts[1] = parts[1]
      BY <3>1, ConcatEmptySeq
    <3>3. PICK none : Lies(none, parts, 0, <<>>)
      BY LiesEmpty
    <3>4. <<>> \in Seq(S) /\ 0 + 1 = 1 /\ \A k \in 1..(0 + 1) : parts[k] \in Seq(S)
      BY <3>1
    <3>5. \E start : Lies(start, parts, 0 + 1, <<>> \o parts[0 + 1])
      BY <3>3, <3>4, LiesAppend
    <3>6. QED  BY <3>1, <3>2, <3>4, <3>5
  <2>10. ASSUME NEW m \in Nat, m \in Laid PROVE m + 1 \in Laid
    <3>1. SUFFICES ASSUME (m + 1) + 1 <= n
                   PROVE  /\ flatten[(m + 1) + 1] \in Seq(S)
                          /\ \E start : Lies(start, parts, (m + 1) + 1, flatten[(m + 1) + 1])
      OBVIOUS
    <3>2. PICK all, k : all = flatten[m + 1] /\ k = m + 1
      OBVIOUS
    <3>3. k \in Nat /\ k + 1 \in 1..n /\ k + 1 # 1 /\ (k + 1) - 1 = k
      BY <3>1, <3>2
    <3>4. all \in Seq(S) /\ \E start : Lies(start, parts, k, all)
      BY <2>10, <3>1, <3>2
    <3>5. flatten[k + 1] = all \o parts[k + 1]
      BY <2>8, <3>2, <3>3
    <3>6. parts[k + 1] \in Seq(S) /\ \A i \in 1..(k + 1) : parts[i] \in Seq(S)
      BY <1>0, <3>3
    <3>7. all \o parts[k + 1] \in Seq(S)
      BY <3>4, <3>6, ConcatProperties
    <3>8. \E start : Lies(start, parts, k + 1, all \o parts[k + 1])
      BY <3>3, <3>4, <3>6, LiesAppend
    <3>9. QED  BY <3>2, <3>5, <3>7, <3>8
  <2>11. Nat \subseteq Laid
    <3> HIDE DEF Laid
    <3>1. QED  BY <2>9, <2>10, NumbersFrom0
  <2>12. n - 1 \in Nat /\ (n - 1) + 1 = n
    BY <1>0, <1>2
  <2>13. flatten[n] \in Seq(S) /\ \E start : Lies(start, parts, n, flatten[n])
    <3>1. n - 1 \in Laid
      <4> HIDE DEF Laid
      <4>1. QED  BY <2>11, <2>12
    <3>2. (n - 1) + 1 <= n
      BY <2>12
    <3>3. QED  BY <2>12, <3>1, <3>2
  <2>14. QED  BY <1>0, <2>1, <2>13
<1>3. QED  BY <1>1, <1>2

-----------------------------------------------------------------------------
(* The scan of a table.                                                    *)

\* The two NULs that end a structure, or the end of the table.
EndsAt(table, p) ==
    \/ p + 2 >= Len(table)
    \/ ByteAt(table, p) = 0 /\ ByteAt(table, p + 1) = 0

\* The first of them from a place on.
FirstEnd(table, from, p) ==
    /\ p \in from..(from + Len(table))
    /\ EndsAt(table, p) /\ \A q \in from..(p - 1) : ~EndsAt(table, q)

\* SkipStrings, by the first end.
LEMMA SkipUnfolds ==
    ASSUME NEW table, NEW from
    PROVE  SkipStrings(table, from) = 2 + CHOOSE p : FirstEnd(table, from, p)
BY Zenon DEF SkipStrings, FirstEnd, EndsAt

\* There is one, and it is the only first one.
LEMMA SkipProperties ==
    ASSUME NEW S, NEW table \in Seq(S), NEW from \in Nat
    PROVE  /\ SkipStrings(table, from) \in Nat /\ SkipStrings(table, from) >= from + 2
           /\ \A p : FirstEnd(table, from, p) => SkipStrings(table, from) = p + 2
<1>1. Len(table) \in Nat
  BY LenProperties
<1>2. PICK first : first = CHOOSE p : FirstEnd(table, from, p)
  OBVIOUS
<1>3. \E p : FirstEnd(table, from, p)
  <2> DEFINE T == {p \in Nat : p >= from /\ EndsAt(table, p)}
  <2>1. from + Len(table) \in T
    BY <1>1 DEF EndsAt
  <2>2. PICK p \in T : \A q \in T : p <= q
    BY <2>1, LeastNumber
  <2>3. \A q \in from..(p - 1) : q \notin T
    <3> HIDE DEF T
    <3>1. p \in Nat
      BY <2>2 DEF T
    <3>2. QED  BY <2>2, <3>1
  <2>4. p \in from..(from + Len(table))
    <3>1. p <= from + Len(table) /\ p \in Nat /\ p >= from
      BY <2>1, <2>2
    <3>2. QED  BY <1>1, <3>1
  <2>5. FirstEnd(table, from, p)
    BY <2>2, <2>3, <2>4 DEF FirstEnd
  <2>6. QED  BY <2>5
<1>4. FirstEnd(table, from, first)
  BY <1>2, <1>3
<1>5. first \in Nat /\ first >= from
  BY <1>1, <1>4 DEF FirstEnd
<1>6. ASSUME NEW p, FirstEnd(table, from, p) PROVE p = first
  <2>1. p \in Nat /\ p >= from
    BY <1>1, <1>6 DEF FirstEnd
  <2>2. ~(p < first)
    BY <1>4, <1>5, <1>6, <2>1 DEF FirstEnd
  <2>3. ~(first < p)
    BY <1>4, <1>5, <1>6, <2>1 DEF FirstEnd
  <2>4. QED  BY <1>5, <2>1, <2>2, <2>3
<1>7. SkipStrings(table, from) = first + 2
  BY <1>2, <1>5, SkipUnfolds
<1>8. QED  BY <1>5, <1>6, <1>7

\* One step of the scan, with what comes after it in found.
ScanStep(found, table, offset) ==
    IF offset + 4 >= Len(table) THEN NoUuid
    ELSE IF ByteAt(table, offset + 1) < 4 THEN NoUuid
    ELSE IF ByteAt(table, offset) = SystemInformation /\ ByteAt(table, offset + 1) >= UuidEnd
    THEN UuidAt(table, offset)
    ELSE found[SkipStrings(table, offset + ByteAt(table, offset + 1))]

\* The scan as a function of where it begins.
Scans(scan, table) == scan = [offset \in Nat |-> ScanStep(scan, table, offset)]

\* ScanTable is that function behind the header.
LEMMA ScanUnfolds ==
    ASSUME NEW table
    PROVE  ScanTable(table) = (CHOOSE scan : Scans(scan, table))[HeaderSize]
BY Zenon DEF ScanTable, Scans, ScanStep

\* A structure that is passed has a length, and its strings have an end.
LEMMA ScanMovesOn ==
    ASSUME NEW table \in Seq(Nat), NEW offset \in Nat, ~(offset + 4 >= Len(table)),
           NEW skip, skip = SkipStrings(table, offset + ByteAt(table, offset + 1))
    PROVE  skip \in Nat /\ skip >= offset + 2
<1>1. Len(table) \in Nat /\ \A i \in 1..Len(table) : table[i] \in Nat
  BY LenProperties, ElementOfSeq
<1>2. ByteAt(table, offset + 1) \in Nat
  <2>1. offset + 2 \in 1..Len(table) /\ (offset + 1) + 1 = offset + 2
    BY <1>1
  <2>2. QED  BY <1>1, <2>1 DEF ByteAt
<1>3. PICK from \in Nat : from = offset + ByteAt(table, offset + 1)
  BY <1>2
<1>4. skip \in Nat /\ skip >= from + 2
  BY <1>3, SkipProperties
<1>5. QED  BY <1>2, <1>3, <1>4

\* The scan moves on, so that it ends.
LEMMA ScanEnds ==
    ASSUME NEW table \in Seq(Nat)
    PROVE  \E scan : Scans(scan, table)
<1> DEFINE P(n, g) == \A o \in Nat : o + n >= Len(table) => g[o] = ScanStep(g, table, o)
           T == {n \in Nat : \E g : P(n, g)}
<1>0. Len(table) \in Nat /\ \A i \in 1..Len(table) : table[i] \in Nat
  BY LenProperties, ElementOfSeq
<1>1. 0 \in T
  <2> DEFINE g == [o \in Nat |-> NoUuid]
  <2>1. ASSUME NEW o \in Nat, o + 0 >= Len(table) PROVE g[o] = ScanStep(g, table, o)
    <3>1. o + 4 >= Len(table)
      BY <1>0, <2>1
    <3>2. QED  BY <3>1 DEF ScanStep
  <2> HIDE DEF g
  <2>2. P(0, g)
    BY <2>1
  <2> HIDE DEF P
  <2>3. QED  BY <2>2
<1>2. ASSUME NEW n \in Nat, n \in T PROVE n + 1 \in T
  <2>1. PICK g : P(n, g)
    BY <1>2
  <2> DEFINE h == [o \in Nat |-> IF o + n >= Len(table) THEN g[o] ELSE ScanStep(g, table, o)]
  <2>2. ASSUME NEW o \in Nat, o + (n + 1) >= Len(table) PROVE h[o] = ScanStep(h, table, o)
    <3>1. h[o] = ScanStep(g, table, o)
      BY <2>1
    <3>2. CASE o + 4 >= Len(table)
      BY <3>1, <3>2 DEF ScanStep
    <3>3. CASE ~(o + 4 >= Len(table))
      <4>1. PICK skip : skip = SkipStrings(table, o + ByteAt(table, o + 1))
        OBVIOUS
      <4>2. skip \in Nat /\ skip >= o + 2
        BY <3>3, <4>1, ScanMovesOn
      <4>3. h[skip] = g[skip]
        BY <1>0, <2>2, <4>2
      <4>4. QED  BY <3>1, <4>1, <4>3 DEF ScanStep
    <3>4. QED  BY <3>2, <3>3
  <2> HIDE DEF h
  <2>3. P(n + 1, h)
    BY <2>2
  <2> HIDE DEF P
  <2>4. QED  BY <2>3
<1>3. Nat \subseteq T
  <2> HIDE DEF T
  <2>1. QED  BY <1>1, <1>2, NumbersFrom0
<1>4. PICK g : P(Len(table), g)
  <2> HIDE DEF P
  <2>1. Len(table) \in T
    BY <1>0, <1>3
  <2>2. QED  BY <2>1
<1> DEFINE scan == [o \in Nat |-> g[o]]
<1>5. ASSUME NEW o \in Nat PROVE ScanStep(scan, table, o) = g[o]
  <2>1. g[o] = ScanStep(g, table, o)
    BY <1>0, <1>4
  <2>2. CASE o + 4 >= Len(table)
    BY <2>1, <2>2 DEF ScanStep
  <2>3. CASE ~(o + 4 >= Len(table))
    <3>1. PICK skip : skip = SkipStrings(table, o + ByteAt(table, o + 1))
      OBVIOUS
    <3>2. skip \in Nat
      BY <2>3, <3>1, ScanMovesOn
    <3>3. scan[skip] = g[skip]
      BY <3>2
    <3>4. QED  BY <2>1, <3>1, <3>3 DEF ScanStep
  <2>4. QED  BY <2>2, <2>3
<1>6. Scans(scan, table)
  BY <1>5 DEF Scans
<1>7. QED  BY <1>6

\* So the function is there, and each of its values follows from a later one.
LEMMA ScanProperties ==
    ASSUME NEW table \in Seq(Nat)
    PROVE  \E scan : /\ ScanTable(table) = scan[HeaderSize]
                     /\ \A offset \in Nat : scan[offset] = ScanStep(scan, table, offset)
<1>1. PICK scan : scan = CHOOSE s : Scans(s, table)
  OBVIOUS
<1>2. Scans(scan, table)
  BY <1>1, ScanEnds
<1>3. \A offset \in Nat : scan[offset] = ScanStep(scan, table, offset)
  BY <1>2 DEF Scans
<1>4. QED  BY <1>1, <1>3, ScanUnfolds

-----------------------------------------------------------------------------
(* The table.                                                              *)

\* Ended by its only NUL.
IsTerminated(string) ==
    \E m \in Nat \ {0, 1} :
        /\ string \in Seq(0..255) /\ m = Len(string) /\ string[m] = 0
        /\ \A j \in 1..(m - 1) : string[j] # 0

\* A string with its NUL.
LEMMA Terminates ==
    ASSUME NEW string \in Seq(1..255), string # <<>>
    PROVE  IsTerminated(Append(string, 0))
<1>1. PICK m, longer : m = Len(string) + 1 /\ longer = Append(string, 0)
  OBVIOUS
<1>2. Len(string) \in Nat /\ Len(string) # 0
  BY LenProperties, EmptySeq
<1>3. m \in Nat \ {0, 1} /\ Len(string) = m - 1
  BY <1>1, <1>2
<1>4. ASSUME NEW j \in 1..(m - 1) PROVE string[j] # 0
  <2>1. j \in 1..Len(string)
    BY <1>3
  <2>2. PICK byte : byte = string[j]
    OBVIOUS
  <2>3. byte \in 1..255
    BY <2>1, <2>2, ElementOfSeq
  <2>4. byte # 0
    BY ONLY <2>3
  <2>5. QED  BY <2>2, <2>4
<1>5. string \in Seq(0..255) /\ 0 \in 0..255
  <2>1. 1..255 \subseteq 0..255
    OBVIOUS
  <2>2. QED  BY <2>1, SeqMonotonic
<1>6. /\ longer \in Seq(0..255) /\ Len(longer) = m
      /\ \A j \in 1..(m - 1) : longer[j] = string[j]
      /\ longer[m] = 0
  BY <1>1, <1>3, <1>5, AppendProperties
<1>7. \A j \in 1..(m - 1) : longer[j] # 0
  BY ONLY <1>4, <1>6
<1>8. IsTerminated(longer)
  BY ONLY <1>3, <1>6, <1>7 DEF IsTerminated
<1>9. QED  BY <1>1, <1>8

\* What ends in a NUL, with no two before it.
IsArea(area) ==
    \E m \in Nat \ {0} :
        /\ area \in Seq(0..255) /\ m = Len(area) /\ area[m] = 0
        /\ \A q \in 1..(m - 1) : area[q] = 0 => area[q + 1] # 0

\* After the NUL of one string comes the first character of the next.
LEMMA TerminatedMakeArea ==
    ASSUME NEW n \in Nat \ {0}, NEW parts, \A k \in 1..n : IsTerminated(parts[k]),
           NEW area \in Seq(0..255), NEW start, Lies(start, parts, n, area)
    PROVE  IsArea(area)
<1>1. PICK m \in Nat : m = Len(area)
  BY LenProperties
<1>2. ASSUME NEW k \in 1..n
      PROVE  \E length \in Nat \ {0, 1} :
                /\ length = Len(parts[k]) /\ start[k] \in Nat
                /\ start[k + 1] = start[k] + length /\ start[k + 1] <= m
                /\ area[start[k + 1]] = 0
                /\ area[start[k] + 1] # 0
                /\ \A j \in 1..(length - 1) : area[start[k] + j] # 0
  <2>1. PICK length \in Nat \ {0, 1} : /\ length = Len(parts[k]) /\ parts[k][length] = 0
                                       /\ \A j \in 1..(length - 1) : parts[k][j] # 0
    BY DEF IsTerminated
  <2>2. /\ start[k] \in Nat /\ start[k + 1] = start[k] + length /\ start[k + 1] <= m
        /\ \A j \in 1..length : area[start[k] + j] = parts[k][j]
    BY <1>1, <2>1 DEF Lies
  <2>0. length \in Nat /\ length >= 2
    OBVIOUS
  <2>3. length \in 1..length /\ 1 \in 1..(length - 1) /\ \A j \in 1..(length - 1) : j \in 1..length
    BY ONLY <2>0
  <2>4. area[start[k] + length] = 0
    BY ONLY <2>1, <2>2, <2>3
  <2>5. ASSUME NEW j \in 1..(length - 1) PROVE area[start[k] + j] # 0
    <3>1. j \in 1..length
      BY ONLY <2>0
    <3>2. area[start[k] + j] = parts[k][j]
      BY <2>2, <3>1
    <3>3. parts[k][j] # 0
      BY <2>1
    <3>4. QED  BY <3>2, <3>3
  <2>6. area[start[k + 1]] = 0
    BY <2>2, <2>4
  <2>7. area[start[k] + 1] # 0
    BY <2>3, <2>5
  <2>8. QED  BY <2>1, <2>2, <2>5, <2>6, <2>7
<1>3. start[n + 1] = m /\ start[1] = 0
  BY <1>1 DEF Lies
<1>4. m # 0 /\ area[m] = 0
  <2>1. n \in 1..n
    OBVIOUS
  <2>2. PICK length \in Nat \ {0, 1} :
            start[n] \in Nat /\ start[n + 1] = start[n] + length /\ area[start[n + 1]] = 0
    BY <1>2, <2>1
  <2>3. start[n + 1] # 0
    BY ONLY <2>2
  <2>4. QED  BY <1>3, <2>2, <2>3
<1>5. ASSUME NEW q \in 1..(m - 1), area[q] = 0 PROVE area[q + 1] # 0
  <2>1. q \in 1..m
    BY ONLY <1>1
  <2>2. PICK k \in 1..n : q - start[k] \in 1..Len(parts[k])
    BY <1>1, <2>1 DEF Lies
  <2>3. PICK length \in Nat \ {0, 1} :
            /\ length = Len(parts[k]) /\ start[k] \in Nat
            /\ start[k + 1] = start[k] + length
            /\ \A j \in 1..(length - 1) : area[start[k] + j] # 0
    BY <1>2
  <2>4. PICK from, j : from = start[k] /\ j = q - from
    OBVIOUS
  <2>5. from \in Nat /\ j \in 1..length /\ q = from + j
    BY <2>1, <2>2, <2>3, <2>4
  <2>6. ~(j \in 1..(length - 1))
    BY <1>5, <2>3, <2>4, <2>5
  <2>7. j = length
    BY ONLY <2>3, <2>5, <2>6
  <2>8. start[k + 1] = q
    BY <2>3, <2>4, <2>5, <2>7
  <2>9. k # n
    <3>1. q # m
      BY ONLY <1>1, <1>5
    <3>2. QED  BY <1>3, <2>8, <3>1
  <2>10. k + 1 \in 1..n
    BY ONLY <2>2, <2>9
  <2>11. area[start[k + 1] + 1] # 0
    BY <1>2, <2>10
  <2>12. QED  BY <2>8, <2>11
<1>6. QED  BY <1>1, <1>4, <1>5 DEF IsArea

\* The strings of a structure.
LEMMA StringsLie ==
    ASSUME NEW strings \in Seq(Seq(1..255)), \A i \in DOMAIN strings : strings[i] # <<>>
    PROVE  IsArea(IF strings = <<>> THEN << 0 >>
                  ELSE FlattenSeq([i \in DOMAIN strings |-> Append(strings[i], 0)]))
<1>1. IsArea(<< 0 >>)
  <2>1. PICK one : one = << 0 >>
    OBVIOUS
  <2>2. one \in Seq(0..255) /\ Len(one) = 1 /\ one[1] = 0
    <3>1. 0 \in 0..255
      OBVIOUS
    <3>2. QED  BY <2>1, <3>1
  <2>3. 1 \in Nat \ {0} /\ \A q \in 1..(1 - 1) : FALSE
    OBVIOUS
  <2>4. IsArea(one)
    BY ONLY <2>2, <2>3 DEF IsArea
  <2>5. QED  BY <2>1, <2>4
<1>2. ASSUME strings # <<>>
      PROVE  IsArea(FlattenSeq([i \in DOMAIN strings |-> Append(strings[i], 0)]))
  <2>1. PICK n \in Nat \ {0} : n = Len(strings) /\ DOMAIN strings = 1..n
    BY <1>2, LenProperties, EmptySeq
  <2>2. PICK parts : parts = [i \in DOMAIN strings |-> Append(strings[i], 0)]
    OBVIOUS
  <2>3. \A i \in 1..n : strings[i] \in Seq(1..255) /\ strings[i] # <<>>
    BY <2>1, ElementOfSeq
  <2>4. \A i \in 1..n : IsTerminated(parts[i])
    BY <2>1, <2>2, <2>3, Terminates
  <2>5. \A i \in 1..n : parts[i] \in Seq(0..255)
    BY <2>4 DEF IsTerminated
  <2>6. parts \in [1..n -> Seq(0..255)]
    BY <2>1, <2>2, <2>5
  <2>7. parts \in Seq(Seq(0..255))
    BY <2>6, SeqDef
  <2>8. Len(parts) = n
    BY <2>6, <2>7, LenProperties
  <2>9. PICK area : area = FlattenSeq(parts)
    OBVIOUS
  <2>10. PICK start : Lies(start, parts, n, area)
    BY <2>7, <2>8, <2>9, FlattenLies
  <2>11. area \in Seq(0..255)
    BY <2>7, <2>9, FlattenLies
  <2>12. IsArea(area)
    BY <2>4, <2>10, <2>11, TerminatedMakeArea
  <2>13. QED  BY <2>2, <2>9, <2>12
<1>3. QED  BY <1>1, <1>2

\* A structure in the table: e is its bytes, d the length of its data.
InTable(e, d, s) ==
    /\ d \in 2..253 /\ e \in Seq(0..255) /\ Len(e) \in Nat /\ Len(e) >= d + 4
    /\ e[1] = s.type /\ e[2] = d + 2 /\ \A j \in 1..d : e[j + 2] = s.data[j]
    /\ e[Len(e) - 1] = 0 /\ e[Len(e)] = 0
    /\ \A q \in (d + 3)..(Len(e) - 2) : ~(e[q] = 0 /\ e[q + 1] = 0)

\* What EncodeStructure makes of a structure.
LEMMA StructureLies ==
    ASSUME NEW s, IsStructure(s)
    PROVE  InTable(EncodeStructure(s), Len(s.data), s)
<1>1. PICK data, strings, type, d : data = s.data /\ strings = s.strings /\ type = s.type /\ d = Len(data)
  OBVIOUS
<1>2. d \in Nat /\ 2 <= d /\ d <= 253
  <2>1. d \in 2..253
    BY <1>1, Zenon DEF IsStructure
  <2>2. QED  BY ONLY <2>1
<1>3. data \in Seq(0..255)
  BY <1>1 DEF IsStructure
<1>4. type \in 0..255
  BY <1>1 DEF IsStructure
<1>5. PICK area : area = IF strings = <<>> THEN << 0 >>
                         ELSE FlattenSeq([i \in DOMAIN strings |-> Append(strings[i], 0)])
  OBVIOUS
<1>6. IsArea(area)
  BY <1>1, <1>5, StringsLie DEF IsStructure
<1>7. PICK m \in Nat \ {0} : /\ area \in Seq(0..255) /\ m = Len(area) /\ area[m] = 0
                             /\ \A q \in 1..(m - 1) : area[q] = 0 => area[q + 1] # 0
  BY <1>6 DEF IsArea
<1>8. PICK last, head, formatted, most, e :
          /\ last = << 0 >> /\ head = <<type, d + 2>> /\ formatted = head \o data
          /\ most = formatted \o area /\ e = most \o last
  OBVIOUS
<1>9. EncodeStructure(s) = e
  BY <1>1, <1>5, <1>8, Zenon DEF EncodeStructure
<1>10. /\ head \in Seq(0..255) /\ Len(head) = 2 /\ head[1] = type /\ head[2] = d + 2
       /\ last \in Seq(0..255) /\ Len(last) = 1 /\ last[1] = 0
  <2>1. d + 2 \in 0..255 /\ 0 \in 0..255
    BY ONLY <1>2
  <2>2. QED  BY ONLY <1>4, <1>8, <2>1
<1>11. /\ formatted \in Seq(0..255) /\ Len(formatted) = 2 + d
       /\ \A i \in 1..(2 + d) : formatted[i] = IF i <= 2 THEN head[i] ELSE data[i - 2]
  BY ONLY <1>1, <1>3, <1>8, <1>10, ConcatProperties
<1>12. /\ most \in Seq(0..255) /\ Len(most) = 2 + d + m
       /\ \A i \in 1..(2 + d + m) : most[i] = IF i <= 2 + d THEN formatted[i] ELSE area[i - (2 + d)]
  <2>1. 2 + d \in Nat
    BY ONLY <1>2
  <2>2. PICK k : k = 2 + d
    OBVIOUS
  <2>3. k \in Nat /\ formatted \in Seq(0..255) /\ Len(formatted) = k
    BY <1>11, <2>1, <2>2
  <2>4. /\ most \in Seq(0..255) /\ Len(most) = k + m
        /\ \A i \in 1..(k + m) : most[i] = IF i <= k THEN formatted[i] ELSE area[i - k]
    BY ONLY <1>7, <1>8, <2>3, ConcatProperties
  <2>5. QED  BY <2>2, <2>4
<1>13. /\ e \in Seq(0..255) /\ Len(e) = 2 + d + m + 1
       /\ \A i \in 1..(2 + d + m + 1) :
             e[i] = IF i <= 2 + d + m THEN most[i] ELSE last[i - (2 + d + m)]
  BY ONLY <1>8, <1>10, <1>12, ConcatProperties
<1>14. ASSUME NEW i \in 1..(2 + d) PROVE e[i] = IF i <= 2 THEN head[i] ELSE data[i - 2]
  <2>1. /\ i \in 1..(2 + d + m + 1) /\ i \in 1..(2 + d + m)
        /\ i <= 2 + d + m /\ i <= 2 + d
    BY ONLY <1>2, <1>7
  <2>2. e[i] = most[i]
    BY ONLY <1>13, <2>1
  <2>3. most[i] = formatted[i]
    BY ONLY <1>12, <2>1
  <2>4. QED  BY ONLY <1>11, <2>2, <2>3
<1>15. e[1] = type /\ e[2] = d + 2
  <2>1. 1 \in 1..(2 + d) /\ 2 \in 1..(2 + d) /\ 1 <= 2 /\ 2 <= 2
    BY ONLY <1>2
  <2>2. QED  BY ONLY <1>10, <1>14, <2>1
<1>16. ASSUME NEW j \in 1..d PROVE e[j + 2] = data[j]
  <2>1. j + 2 \in 1..(2 + d) /\ ~(j + 2 <= 2) /\ (j + 2) - 2 = j
    BY ONLY <1>2
  <2>2. QED  BY ONLY <1>14, <2>1
<1>17. ASSUME NEW i \in 1..m PROVE e[2 + d + i] = area[i]
  <2>1. PICK p : p = 2 + d + i
    OBVIOUS
  <2>2. /\ p \in 1..(2 + d + m + 1) /\ p \in 1..(2 + d + m)
        /\ p <= 2 + d + m /\ ~(p <= 2 + d) /\ p - (2 + d) = i
    BY ONLY <1>2, <1>7, <2>1
  <2>3. e[p] = most[p]
    BY ONLY <1>13, <2>2
  <2>4. most[p] = area[i]
    BY ONLY <1>12, <2>2
  <2>5. QED  BY ONLY <2>1, <2>3, <2>4
<1>18. PICK l : l = Len(e)
  OBVIOUS
<1>19. l \in Nat /\ l >= d + 4 /\ l = 2 + d + m + 1
  BY ONLY <1>2, <1>7, <1>13, <1>18
<1>20. e[l - 1] = 0
  <2>1. m \in 1..m /\ l - 1 = 2 + d + m
    BY ONLY <1>2, <1>7, <1>19
  <2>2. QED  BY ONLY <1>7, <1>17, <2>1
<1>21. e[l] = 0
  <2>1. l \in 1..(2 + d + m + 1) /\ ~(l <= 2 + d + m) /\ l - (2 + d + m) = 1
    BY ONLY <1>2, <1>7, <1>19
  <2>2. QED  BY ONLY <1>10, <1>13, <2>1
<1>22. ASSUME NEW q \in (d + 3)..(l - 2) PROVE ~(e[q] = 0 /\ e[q + 1] = 0)
  <2>1. PICK i : i = q - (2 + d)
    OBVIOUS
  <2>2. i \in 1..(m - 1) /\ i \in 1..m /\ i + 1 \in 1..m /\ q = 2 + d + i /\ q + 1 = 2 + d + (i + 1)
    BY ONLY <1>2, <1>7, <1>19, <2>1
  <2>3. e[q] = area[i] /\ e[q + 1] = area[i + 1]
    BY ONLY <1>17, <2>2
  <2>4. QED  BY ONLY <1>7, <2>2, <2>3
<1>23. d \in 2..253 /\ e \in Seq(0..255)
  BY <1>2, <1>13
<1>24. InTable(e, d, s)
  BY <1>1, <1>15, <1>16, <1>18, <1>19, <1>20, <1>21, <1>22, <1>23 DEF InTable
<1>25. QED  BY <1>1, <1>9, <1>24

-----------------------------------------------------------------------------
(* The scan finds the UUID that is meant.                                  *)

\* Sequences of a length are functions, and the other way round.
LEMMA SequenceIsFunction ==
    ASSUME NEW S, NEW n \in Nat, NEW s \in Seq(S), Len(s) = n
    PROVE  s \in [1..n -> S]
BY LenProperties

LEMMA FunctionIsSequence ==
    ASSUME NEW S, NEW n \in Nat, NEW f \in [1..n -> S]
    PROVE  f \in Seq(S) /\ Len(f) = n
BY SeqDef, LenProperties

\* The UUID of a structure that has one.
Meant(s) == SubSeq(s.data, UuidOffset - 1, UuidOffset + UuidSize - 2)

\* A part of the table from an offset on.
LiesAt(part, offset, all) ==
    offset + Len(part) <= Len(all) /\ \A j \in 1..Len(part) : all[offset + j] = part[j]

\* The scan takes the UUID of a structure that has one, and passes one that
\* has none as a whole.
LEMMA StructureIsScanned ==
    ASSUME NEW table \in Seq(0..255), NEW offset \in Nat,
           NEW s, IsStructure(s), NEW e, NEW d, d = Len(s.data), InTable(e, d, s),
           LiesAt(e, offset, table),
           NEW scan, scan[offset] = ScanStep(scan, table, offset)
    PROVE  scan[offset] = IF HasUuid(s) THEN Meant(s) ELSE scan[offset + Len(e)]
<1>1. PICK l, t : l = Len(e) /\ t = Len(table)
  OBVIOUS
<1>2. /\ d \in Nat /\ d >= 2 /\ l \in Nat /\ l >= d + 4 /\ e \in Seq(0..255)
      /\ e[1] = s.type /\ e[2] = d + 2 /\ e[l - 1] = 0 /\ e[l] = 0
      /\ \A q \in (d + 3)..(l - 2) : ~(e[q] = 0 /\ e[q + 1] = 0)
  <2>1. d \in 2..253
    BY Zenon DEF InTable
  <2>2. /\ l \in Nat /\ l >= d + 4 /\ e \in Seq(0..255)
        /\ e[1] = s.type /\ e[2] = d + 2 /\ e[l - 1] = 0 /\ e[l] = 0
        /\ \A q \in (d + 3)..(l - 2) : ~(e[q] = 0 /\ e[q + 1] = 0)
    BY <1>1, Zenon DEF InTable
  <2>3. d \in Nat /\ d >= 2
    BY ONLY <2>1
  <2>4. QED  BY <2>2, <2>3
<1>3. \A j \in 1..d : e[j + 2] = s.data[j]
  BY DEF InTable
<1>4. t \in Nat /\ offset + l <= t /\ \A j \in 1..l : table[offset + j] = e[j]
  BY <1>1, LenProperties DEF LiesAt
<1>5. ~(offset + 4 >= t)
  BY ONLY <1>2, <1>4, offset \in Nat
<1>6. ByteAt(table, offset) = s.type
  <2>1. 1 \in 1..l
    BY ONLY <1>2
  <2>2. QED  BY <1>2, <1>4, <2>1 DEF ByteAt
<1>7. ByteAt(table, offset + 1) = d + 2
  <2>1. 2 \in 1..l /\ (offset + 1) + 1 = offset + 2
    BY ONLY <1>2, offset \in Nat
  <2>2. QED  BY <1>2, <1>4, <2>1 DEF ByteAt
<1>8. ~(d + 2 < 4)
  BY ONLY <1>2
<1>9. HasUuid(s) <=> s.type = SystemInformation /\ d + 2 >= UuidEnd
  BY DEF HasUuid
<1>10. CASE HasUuid(s)
  <2>1. scan[offset] = UuidAt(table, offset)
    BY <1>1, <1>5, <1>6, <1>7, <1>8, <1>9, <1>10 DEF ScanStep
  <2>2. PICK taken : taken = SubSeq(table, offset + 9, offset + 24)
    OBVIOUS
  <2>3. UuidAt(table, offset) = taken
    <3>1. (offset + 8) + 1 = offset + 9 /\ (offset + 8) + 16 = offset + 24
      OBVIOUS
    <3>2. QED  BY <2>2, <3>1 DEF UuidAt, Slice, UuidOffset, UuidSize
  <2>4. PICK data, meant : data = s.data /\ meant = SubSeq(data, 7, 22)
    OBVIOUS
  <2>5. data \in Seq(0..255)
    BY <2>4 DEF IsStructure
  <2>6. d >= 23
    <3>1. d + 2 >= 25
      BY <1>9, <1>10 DEF UuidEnd
    <3>2. QED  BY ONLY <1>2, <3>1
  <2>7. ASSUME NEW i \in 1..16
        PROVE  /\ table[offset + 9 + i - 1] = data[7 + i - 1]
               /\ table[offset + 9 + i - 1] \in 0..255 /\ data[7 + i - 1] \in 0..255
    <3>1. PICK j : j = 6 + i
      OBVIOUS
    <3>2. /\ j \in 1..d /\ j + 2 \in 1..l /\ 7 + i - 1 = j /\ offset + 9 + i - 1 = offset + (j + 2)
          /\ offset + (j + 2) \in 1..t
      BY ONLY <1>2, <1>4, <2>6, <3>1, offset \in Nat
    <3>3. e[j + 2] = data[j] /\ table[offset + (j + 2)] = e[j + 2]
      BY <1>3, <1>4, <2>4, <3>2
    <3>4. table[offset + (j + 2)] \in 0..255
      BY <1>1, <3>2, ElementOfSeq
    <3>5. QED  BY <3>2, <3>3, <3>4
  <2>8. /\ taken \in Seq(0..255) /\ Len(taken) = 16
        /\ \A i \in 1..16 : taken[i] = table[offset + 9 + i - 1]
    <3>1. PICK from, to : from = offset + 9 /\ to = offset + 24
      OBVIOUS
    <3>2. from \in 1..(t + 1) /\ from \in Int /\ to \in Int /\ to - from + 1 = 16 /\ from <= to
      BY ONLY <1>2, <1>4, <2>6, <3>1, offset \in Nat
    <3>3. \A i \in from..to : table[i] \in 0..255
      <4>1. SUFFICES ASSUME NEW i \in from..to PROVE table[i] \in 0..255
        OBVIOUS
      <4>2. i \in 1..t
        BY ONLY <1>2, <1>4, <2>6, <3>1, offset \in Nat
      <4>3. QED  BY <1>1, <4>2, ElementOfSeq
    <3>4. taken = SubSeq(table, from, to)
      BY <2>2, <3>1
    <3>5. /\ taken \in Seq(0..255) /\ Len(taken) = IF from <= to THEN to - from + 1 ELSE 0
          /\ \A i \in 1..(to - from + 1) : taken[i] = table[from + i - 1]
      BY <3>2, <3>3, <3>4, SubSeqProperties
    <3>6. QED  BY <3>1, <3>2, <3>5
  <2>9. /\ meant \in Seq(0..255) /\ Len(meant) = 16
        /\ \A i \in 1..16 : meant[i] = data[7 + i - 1]
    <3>1. \A i \in 7..22 : data[i] \in 0..255
      <4>1. SUFFICES ASSUME NEW i \in 7..22 PROVE data[i] \in 0..255
        OBVIOUS
      <4>2. i \in 1..d
        BY ONLY <1>2, <2>6
      <4>3. QED  BY <2>4, <2>5, <4>2, ElementOfSeq
    <3>2. PICK from, to : from = 7 /\ to = 22
      OBVIOUS
    <3>3. from \in Int /\ to \in Int /\ to - from + 1 = 16 /\ from <= to
      BY ONLY <3>2
    <3>4. meant = SubSeq(data, from, to) /\ \A i \in from..to : data[i] \in 0..255
      BY <2>4, <3>1, <3>2
    <3>5. /\ meant \in Seq(0..255) /\ Len(meant) = IF from <= to THEN to - from + 1 ELSE 0
          /\ \A i \in 1..(to - from + 1) : meant[i] = data[from + i - 1]
      BY ONLY <3>3, <3>4, SubSeqProperties
    <3>6. QED  BY <3>2, <3>3, <3>5
  <2>10. \A i \in 1..16 : taken[i] = meant[i]
    BY <2>7, <2>8, <2>9
  <2>11. taken = meant
    <3>1. Len(taken) = Len(meant) /\ \A i \in 1..Len(taken) : taken[i] = meant[i]
      BY <2>8, <2>9, <2>10
    <3>2. QED  BY <2>8, <2>9, <3>1, SeqEqual
  <2>12. meant = Meant(s)
    <3>1. UuidOffset - 1 = 7 /\ UuidOffset + UuidSize - 2 = 22
      BY DEF UuidOffset, UuidSize
    <3>2. QED  BY <2>4, <3>1 DEF Meant
  <2>13. QED  BY <1>10, <2>1, <2>3, <2>11, <2>12
<1>11. CASE ~HasUuid(s)
  <2>1. scan[offset] = scan[SkipStrings(table, offset + (d + 2))]
    BY <1>1, <1>5, <1>6, <1>7, <1>8, <1>9, <1>11 DEF ScanStep
  <2>2. PICK from, p : from = offset + (d + 2) /\ p = offset + l - 2
    OBVIOUS
  <2>3. /\ from \in Nat /\ p \in from..(from + t) /\ p + 2 = offset + l
        /\ p + 1 = offset + (l - 1) /\ (p + 1) + 1 = offset + l /\ l - 1 \in 1..l /\ l \in 1..l
    BY ONLY <1>2, <1>4, <2>2, offset \in Nat
  <2>4. EndsAt(table, p)
    <3>1. table[p + 1] = 0 /\ table[(p + 1) + 1] = 0
      BY <1>2, <1>4, <2>3
    <3>2. QED  BY <3>1 DEF EndsAt, ByteAt
  <2>5. ASSUME NEW q \in from..(p - 1) PROVE ~EndsAt(table, q)
    <3>1. PICK r : r = q + 1 - offset
      OBVIOUS
    <3>2. /\ r \in (d + 3)..(l - 2) /\ r \in 1..l /\ r + 1 \in 1..l
          /\ q + 1 = offset + r /\ (q + 1) + 1 = offset + (r + 1) /\ ~(q + 2 >= t)
      BY ONLY <1>2, <1>4, <2>2, <3>1, offset \in Nat
    <3>3. /\ table[offset + r] = e[r] /\ table[offset + (r + 1)] = e[r + 1]
          /\ table[q + 1] = e[r] /\ table[(q + 1) + 1] = e[r + 1]
      <4>1. table[offset + r] = e[r] /\ table[offset + (r + 1)] = e[r + 1]
        BY ONLY <1>4, <3>2
      <4>2. QED  BY ONLY <3>2, <4>1
    <3>4. ~(e[r] = 0 /\ e[r + 1] = 0)
      BY <1>2, <3>2
    <3>5. QED  BY <1>1, <3>2, <3>3, <3>4 DEF EndsAt, ByteAt
  <2>6. FirstEnd(table, from, p)
    BY <1>1, <2>3, <2>4, <2>5 DEF FirstEnd
  <2>7. SkipStrings(table, from) = p + 2
    BY <2>3, <2>6, SkipProperties
  <2>8. QED  BY <1>1, <1>11, <2>1, <2>2, <2>3, <2>7
<1>12. QED  BY <1>10, <1>11

\* Every table of the firmware's standard: the scan finds the UUID of the first
\* structure that has one.
THEOREM ScanFindsUuid ==
    ASSUME NEW S, \A s \in S : IsStructure(s), NEW structures \in Seq(S)
    PROVE  ScanTable(Encode(structures)) = UuidOf(structures)
<1>1. PICK n \in Nat : n = Len(structures) /\ DOMAIN structures = 1..n
  BY LenProperties
<1>2. ASSUME NEW k \in 1..n
      PROVE  /\ IsStructure(structures[k])
             /\ InTable(EncodeStructure(structures[k]), Len(structures[k].data), structures[k])
  <2>1. structures[k] \in S
    BY <1>1, ElementOfSeq
  <2>2. QED  BY <2>1, StructureLies
<1>3. PICK parts : parts = [i \in DOMAIN structures |-> EncodeStructure(structures[i])]
  OBVIOUS
<1>4. \A k \in 1..n : parts[k] = EncodeStructure(structures[k])
  BY <1>1, <1>3
<1>5. parts \in Seq(Seq(0..255)) /\ Len(parts) = n
  <2>1. \A k \in 1..n : parts[k] \in Seq(0..255)
    BY <1>2, <1>4 DEF InTable
  <2>2. parts \in [1..n -> Seq(0..255)]
    BY <1>1, <1>3, <2>1
  <2>3. parts \in Seq(Seq(0..255))
    BY <2>2, SeqDef
  <2>4. QED  BY <2>2, <2>3, LenProperties
<1>6. PICK flat, header, table :
          /\ flat = FlattenSeq(parts) /\ header = [i \in 1..8 |-> 255]
          /\ table = header \o flat
  OBVIOUS
<1>7. Encode(structures) = table
  BY <1>3, <1>6, Zenon DEF Encode, HeaderSize
<1>8. PICK start : flat \in Seq(0..255) /\ Lies(start, parts, n, flat)
  BY <1>5, <1>6, FlattenLies
<1>9. header \in Seq(0..255) /\ Len(header) = 8
  <2>1. PICK h \in Nat : h = 8
    OBVIOUS
  <2>2. header \in [1..h -> 0..255]
    BY <1>6, <2>1
  <2>3. header \in Seq(0..255) /\ Len(header) = h
    BY ONLY <2>2, h \in Nat, FunctionIsSequence, Zenon
  <2>4. QED  BY <2>1, <2>3
<1>10. PICK m \in Nat : m = Len(flat)
  BY <1>8, LenProperties
<1>11. /\ table \in Seq(0..255) /\ Len(table) = 8 + m
       /\ \A j \in 1..m : table[8 + j] = flat[j]
  <2>1. /\ table \in Seq(0..255) /\ Len(table) = 8 + m
        /\ \A i \in 1..(8 + m) : table[i] = IF i <= 8 THEN header[i] ELSE flat[i - 8]
    BY <1>6, <1>8, <1>9, <1>10, ConcatProperties
  <2>2. ASSUME NEW j \in 1..m PROVE table[8 + j] = flat[j]
    <3>1. 8 + j \in 1..(8 + m) /\ ~(8 + j <= 8) /\ (8 + j) - 8 = j
      OBVIOUS
    <3>2. QED  BY <2>1, <3>1
  <2>3. QED  BY <2>1, <2>2
<1>12. PICK scan : /\ ScanTable(table) = scan[HeaderSize]
                   /\ \A offset \in Nat : scan[offset] = ScanStep(scan, table, offset)
  <2>1. 0..255 \subseteq Nat
    OBVIOUS
  <2>2. table \in Seq(Nat)
    BY <1>11, <2>1, SeqMonotonic
  <2>3. QED  BY <2>2, ScanProperties
<1>13. PICK uuid : uuid = [k \in 1..n |-> Meant(structures[k])]
  OBVIOUS
<1>14. ASSUME NEW k \in 1..n
       PROVE  scan[8 + start[k]] = IF HasUuid(structures[k]) THEN uuid[k] ELSE scan[8 + start[k + 1]]
  <2>1. PICK s, e, d, offset : /\ s = structures[k] /\ e = parts[k] /\ d = Len(s.data)
                               /\ offset = 8 + start[k]
    OBVIOUS
  <2>2. IsStructure(s) /\ InTable(e, d, s)
    BY <1>2, <1>4, <2>1
  <2>3. PICK l \in Nat : l = Len(e)
    BY <2>2 DEF InTable
  <2>4. /\ start[k] \in Nat /\ start[k + 1] = start[k] + l /\ start[k + 1] <= m
        /\ \A j \in 1..l : flat[start[k] + j] = e[j]
    BY <1>8, <1>10, <2>1, <2>3 DEF Lies
  <2> DEFINE from == start[k]
  <2> HIDE DEF from
  <2>0. PICK to : to = start[k + 1]
    OBVIOUS
  <2>5. offset \in Nat /\ offset + l <= 8 + m /\ 8 + start[k + 1] = offset + l
    <3>1. from \in Nat /\ to = from + l /\ to <= m /\ offset = 8 + from
      BY <2>0, <2>1, <2>4 DEF from
    <3>2. offset \in Nat /\ offset + l <= 8 + m /\ 8 + to = offset + l
      BY ONLY <1>10, <2>3, <3>1
    <3>3. QED  BY <2>0, <3>2
  <2>6. ASSUME NEW j \in 1..l PROVE table[offset + j] = e[j]
    <3>1. from \in Nat /\ from + l <= m /\ offset = 8 + from
      BY <2>1, <2>4 DEF from
    <3>2. from + j \in 1..m /\ offset + j = 8 + (from + j)
      BY ONLY <1>10, <2>3, <3>1, j \in 1..l
    <3>3. flat[from + j] = e[j]
      BY <2>4 DEF from
    <3>4. QED  BY <1>11, <3>2, <3>3
  <2>7. scan[offset] = IF HasUuid(s) THEN Meant(s) ELSE scan[offset + Len(e)]
    <3>2. LiesAt(e, offset, table) /\ table \in Seq(0..255)
      BY ONLY <1>11, <2>3, <2>5, <2>6 DEF LiesAt
    <3>3. scan[offset] = ScanStep(scan, table, offset)
      BY <1>12, <2>5
    <3>4. d = Len(s.data) /\ offset \in Nat
      BY <2>1, <2>5
    <3>5. QED  BY ONLY <2>2, <3>2, <3>3, <3>4, StructureIsScanned
  <2>8. QED  BY <1>13, <2>1, <2>3, <2>5, <2>7
<1>15. scan[8] = scan[8 + start[1]]
  BY <1>8 DEF Lies
<1>16. scan[8 + start[n + 1]] = NoUuid
  <2>1. start[n + 1] = m
    BY <1>8, <1>10 DEF Lies
  <2>2. PICK offset : offset = 8 + m
    OBVIOUS
  <2>3. offset \in Nat /\ offset + 4 >= 8 + m
    BY ONLY <1>10, <2>2
  <2>4. scan[offset] = NoUuid
    BY <1>11, <1>12, <2>3 DEF ScanStep
  <2>5. QED  BY <2>1, <2>2, <2>4
<1>17. ASSUME NEW last \in 0..n, \A k \in 1..last : ~HasUuid(structures[k])
       PROVE  scan[8 + start[last + 1]] = scan[8]
  <2> DEFINE T == {k \in Nat : k <= last => scan[8 + start[k + 1]] = scan[8]}
  <2>1. 0 \in T
    BY <1>15
  <2>2. ASSUME NEW k \in Nat, k \in T PROVE k + 1 \in T
    <3>1. SUFFICES ASSUME k + 1 <= last PROVE scan[8 + start[(k + 1) + 1]] = scan[8]
      OBVIOUS
    <3>2. k <= last /\ k + 1 \in 1..last /\ k + 1 \in 1..n
      BY ONLY <3>1, <1>1, k \in Nat, last \in 0..n
    <3>3. scan[8 + start[k + 1]] = scan[8]
      BY <2>2, <3>2
    <3>4. scan[8 + start[k + 1]] = scan[8 + start[(k + 1) + 1]]
      BY <1>14, <1>17, <3>2
    <3>5. QED  BY <3>3, <3>4
  <2>3. Nat \subseteq T
    <3> HIDE DEF T
    <3>1. QED  BY <2>1, <2>2, NumbersFrom0
  <2>4. last \in Nat /\ last <= last
    OBVIOUS
  <2>5. QED  BY <2>3, <2>4
<1>18. PICK with : with = {i \in DOMAIN structures : HasUuid(structures[i])}
  OBVIOUS
<1>19. UuidOf(structures) =
           IF with = {} THEN NoUuid
           ELSE Meant(structures[Min(with)])
  BY <1>18, Zenon DEF UuidOf, Meant
<1>20. CASE with = {}
  <2>1. \A k \in 1..n : ~HasUuid(structures[k])
    BY <1>1, <1>18, <1>20
  <2>2. n \in 0..n
    OBVIOUS
  <2>3. scan[8] = NoUuid
    BY <1>16, <1>17, <2>1, <2>2
  <2>4. QED  BY <1>7, <1>12, <1>19, <1>20, <2>3 DEF HeaderSize
<1>21. CASE with # {}
  <2>1. PICK first : first = Min(with)
    OBVIOUS
  <2>2. with \in SUBSET Nat /\ with \subseteq 1..n
    BY <1>1, <1>18
  <2>3. first \in with /\ \A y \in with : first <= y
    BY <1>21, <2>1, <2>2, MinProperties
  <2>4. first \in 1..n /\ HasUuid(structures[first])
    BY <1>18, <2>2, <2>3
  <2>5. PICK last : last = first - 1
    OBVIOUS
  <2>6. last \in 0..n /\ last + 1 = first
    BY ONLY <1>1, <2>4, <2>5
  <2>7. ASSUME NEW k \in 1..last PROVE ~HasUuid(structures[k])
    <3>1. k \in 1..n /\ ~(first <= k)
      BY ONLY <1>1, <2>4, <2>5
    <3>2. QED  BY <1>1, <1>18, <2>3, <3>1
  <2>8. scan[8] = scan[8 + start[first]]
    BY <1>17, <2>6, <2>7
  <2>9. scan[8] = uuid[first]
    BY <1>14, <2>4, <2>8
  <2>10. QED  BY <1>7, <1>12, <1>13, <1>19, <1>21, <2>1, <2>4, <2>9 DEF HeaderSize
<1>22. QED  BY <1>20, <1>21

-----------------------------------------------------------------------------
(* The device.                                                             *)

\* A structure that has a UUID has the whole of it.
LEMMA MeantIsUuid ==
    ASSUME NEW s, IsStructure(s), HasUuid(s)
    PROVE  Meant(s) \in Uuids
<1>1. PICK data, d : data = s.data /\ d = Len(data)
  OBVIOUS
<1>2. data \in Seq(0..255)
  BY <1>1 DEF IsStructure
<1>3. d \in 2..253
  BY <1>1, Zenon DEF IsStructure
<1>4. d + 2 >= 25
  BY <1>1 DEF HasUuid, UuidEnd
<1>5. \A i \in 7..22 : data[i] \in 0..255
  <2>1. SUFFICES ASSUME NEW i \in 7..22 PROVE data[i] \in 0..255
    OBVIOUS
  <2>2. i \in 1..d
    BY ONLY <1>3, <1>4
  <2>3. QED  BY <1>1, <1>2, <2>2, ElementOfSeq
<1>6. PICK from, to : from = 7 /\ to = 22
  OBVIOUS
<1>7. from \in Int /\ to \in Int /\ to - from + 1 = 16 /\ from <= to
  BY ONLY <1>6
<1>8. PICK meant : meant = SubSeq(data, from, to)
  OBVIOUS
<1>9. \A i \in from..to : data[i] \in 0..255
  BY <1>5, <1>6
<1>10. /\ meant \in Seq(0..255) /\ Len(meant) = IF from <= to THEN to - from + 1 ELSE 0
  BY ONLY <1>7, <1>8, <1>9, SubSeqProperties
<1>11. meant \in Seq(0..255) /\ Len(meant) = 16
  BY <1>7, <1>10
<1>12. meant \in [1..16 -> 0..255]
  <2>1. PICK bytes, size : bytes = 0..255 /\ size = 16
    OBVIOUS
  <2>2. meant \in Seq(bytes) /\ Len(meant) = size
    BY ONLY <1>11, <2>1
  <2>3. meant \in [1..size -> bytes]
    <3>1. size \in Nat
      BY ONLY <2>1
    <3>2. QED  BY ONLY <2>2, <3>1, SequenceIsFunction
  <2>4. QED  BY <2>1, <2>3
<1>13. Meant(s) = meant
  <2>1. UuidOffset - 1 = 7 /\ UuidOffset + UuidSize - 2 = 22
    BY DEF UuidOffset, UuidSize
  <2>2. QED  BY <1>1, <1>6, <1>8, <2>1 DEF Meant
<1>14. QED  BY <1>12, <1>13 DEF Uuids, UuidSize

\* What is meant is a UUID or none.
LEMMA UuidOfIsUuid ==
    ASSUME NEW S, \A s \in S : IsStructure(s), NEW structures \in Seq(S)
    PROVE  UuidOf(structures) \in Uuids
<1>1. PICK n \in Nat : n = Len(structures) /\ DOMAIN structures = 1..n
  BY LenProperties
<1>2. PICK with : with = {i \in DOMAIN structures : HasUuid(structures[i])}
  OBVIOUS
<1>3. UuidOf(structures) = IF with = {} THEN NoUuid ELSE Meant(structures[Min(with)])
  BY <1>2, Zenon DEF UuidOf, Meant
<1>4. CASE with = {}
  BY <1>3, <1>4 DEF Uuids
<1>5. CASE with # {}
  <2>1. PICK first : first = Min(with)
    OBVIOUS
  <2>2. with \in SUBSET Nat
    BY <1>1, <1>2
  <2>3. first \in with
    BY <1>5, <2>1, <2>2, MinProperties
  <2>4. first \in 1..n /\ HasUuid(structures[first])
    BY <1>1, <1>2, <2>3
  <2>5. structures[first] \in S
    BY <1>1, <2>4, ElementOfSeq
  <2>6. Meant(structures[first]) \in Uuids
    BY <2>4, <2>5, MeantIsUuid
  <2>7. QED  BY <1>3, <1>5, <2>1, <2>6
<1>6. QED  BY <1>4, <1>5

\* The firmware's table is one of the standard, and stays as it is.
FirmwareStays ==
    \E readable \in BOOLEAN : \E structures \in Seq(Structures) :
        firmware = [readable |-> readable, structures |-> structures]

\* No step touches it.
LEMMA FirmwareIsOfTheStandard == Spec => []FirmwareStays
<1>1. Init => FirmwareStays
  <2>1. SUFFICES ASSUME Init PROVE FirmwareStays
    OBVIOUS
  <2>2. PICK readable \in BOOLEAN, structures \in UNION {[1..n -> Structures] : n \in 0..MaxStructures} :
            firmware = [readable |-> readable, structures |-> structures]
    BY <2>1, Zenon DEF Init
  <2>3. PICK n \in 0..MaxStructures : structures \in [1..n -> Structures]
    OBVIOUS
  <2>4. n \in Nat
    BY InstancesAssumption
  <2>5. structures \in Seq(Structures)
    BY <2>3, <2>4, FunctionIsSequence
  <2>6. QED  BY <2>2, <2>5, Zenon DEF FirmwareStays
<1>2. FirmwareStays /\ [Next]_vars => FirmwareStays'
  <2>1. SUFFICES ASSUME FirmwareStays, [Next]_vars PROVE FirmwareStays'
    OBVIOUS
  <2>2. ASSUME NEW i \in Interfaces, Step(i) PROVE firmware' = firmware
    BY <2>2 DEF Step, Load, Startup, CheckMetrics, MakeClient, StoreClient, Initialize, Destroy,
       TakeClient, ShutdownClient, Unload, Move
  <2>3. firmware' = firmware
    BY <2>1, <2>2 DEF Next, Aborted, vars
  <2>4. QED  BY <2>1, <2>3, Zenon DEF FirmwareStays
<1>3. QED  BY <1>1, <1>2, PTL DEF Spec

\* What resolve_info finds is what the table says.
LEMMA DeviceIsMeant ==
    ASSUME FirmwareStays
    PROVE  /\ DeviceId = IF firmware.readable THEN UuidOf(firmware.structures) ELSE NoUuid
           /\ DeviceId \in Uuids
<1>1. PICK readable \in BOOLEAN, structures \in Seq(Structures) :
          firmware = [readable |-> readable, structures |-> structures]
  BY Zenon DEF FirmwareStays
<1>2. firmware.readable = readable /\ firmware.structures = structures
  BY <1>1, Zenon
<1>3. ScanTable(Encode(structures)) = UuidOf(structures)
  BY InstancesAssumption, ScanFindsUuid
<1>4. UuidOf(structures) \in Uuids
  BY InstancesAssumption, UuidOfIsUuid
<1>5. DeviceId = IF readable THEN UuidOf(structures) ELSE NoUuid
  BY <1>2, <1>3, Zenon DEF DeviceId, BiosUniqueId
<1>6. NoUuid \in Uuids
  BY DEF Uuids
<1>7. QED  BY <1>2, <1>4, <1>5, <1>6, Zenon

\* Whatever the firmware's table is made of, every client sends the UUID it
\* means.
THEOREM DeviceIsIdentified == Spec => []DeviceIdentified
<1>1. IInv /\ FirmwareStays => DeviceIdentified
  <2>1. SUFFICES ASSUME IInv, FirmwareStays PROVE DeviceIdentified
    OBVIOUS
  <2>2. PICK uuid : uuid = IF firmware.readable THEN UuidOf(firmware.structures) ELSE NoUuid
    OBVIOUS
  <2>3. DeviceId = uuid
    BY <2>1, <2>2, DeviceIsMeant, Zenon
  <2>4. /\ \A library \in Libraries : metrics[library] \subseteq {uuid}
        /\ \A i \in Interfaces : held[i] \subseteq {uuid}
    BY <2>1, <2>3 DEF IInv, Types
  <2>5. QED  BY <2>2, <2>4, Zenon DEF DeviceIdentified
<1>2. QED  BY <1>1, Invariance, FirmwareIsOfTheStandard, PTL

\* The types, the ids of devices included.
THEOREM InstancesTypeCorrect == Spec => []TypeOK
<1> DEFINE Flags == process \in {"up", "aborted"} /\ overlap \in BOOLEAN
<1>1. Init => Flags
  BY DEF Init
<1>2. Flags /\ [Next]_vars => Flags'
  <2>1. SUFFICES ASSUME Flags, [Next]_vars PROVE Flags'
    OBVIOUS
  <2>2. ASSUME NEW i \in Interfaces, Step(i) PROVE Flags'
    BY <2>1, <2>2 DEF Step, Load, Startup, CheckMetrics, MakeClient, StoreClient, Initialize, Destroy,
       TakeClient, ShutdownClient, Unload, Move
  <2>3. QED  BY <2>1, <2>2 DEF Next, Aborted, vars
<1>3. IInv /\ FirmwareStays /\ Flags => TypeOK
  <2>1. SUFFICES ASSUME IInv, FirmwareStays, Flags PROVE TypeOK
    OBVIOUS
  <2>2. SUBSET {DeviceId} \subseteq SUBSET Uuids
    BY <2>1, DeviceIsMeant
  <2>3. metrics \in [Libraries -> SUBSET Uuids] /\ held \in [Interfaces -> SUBSET Uuids]
    BY <2>1, <2>2 DEF IInv, Types
  <2>4. QED  BY <2>1, <2>3 DEF IInv, Types, TypeOK
<1> HIDE DEF Flags
<1>4. QED  BY <1>1, <1>2, <1>3, Invariance, FirmwareIsOfTheStandard, PTL DEF Spec
=============================================================================
