------------------------ MODULE UsermodeDriverProofs ------------------------
(***************************************************************************)
(* Proofs about UsermodeDriver.  Its steps are steps of the metrics client *)
(* or leave that alone, so that what is proved about the client for every  *)
(* user holds in the driver; what the driver adds is proved here.          *)
(***************************************************************************)
EXTENDS UsermodeDriver, MetricsSafetyProofs

\* Every step of the driver is a step of the client or leaves it alone.
LEMMA DriverStep == [DriverNext]_driverVars => [Next]_vars
<1> SUFFICES ASSUME [DriverNext]_driverVars
             PROVE  Next \/ UNCHANGED vars
  OBVIOUS
<1>1. CASE InterfaceStep
  <2>1. CASE CreateInstance \/ Initialize \/ TeardownNothing \/ TeardownEnds \/ Unload
    BY <2>1 DEF CreateInstance, Initialize, TeardownNothing, TeardownEnds, Unload
  <2>2. CASE StoreInstance
    BY <2>2 DEF StoreInstance, Next
  <2>3. CASE TeardownTakes
    BY <2>3 DEF TeardownTakes, Owner, Next
  <2>4. CASE TeardownRuns
    BY <2>4 DEF TeardownRuns, Owner, Next
  <2>5. QED  BY <1>1, <2>1, <2>2, <2>3, <2>4 DEF InterfaceStep
<1>2. CASE Command
  BY <1>2 DEF Command, Next
<1>3. CASE Destroy
  BY <1>3 DEF Destroy
<1>4. CASE Background
  BY <1>4 DEF Background, Next
<1>5. CASE UNCHANGED driverVars
  BY <1>5 DEF driverVars
<1>6. QED  BY <1>1, <1>2, <1>3, <1>4, <1>5 DEF DriverNext, DriverStopped

\* A driver is a client with some more state.
LEMMA DriverIsClient == DriverSpec => Spec
<1>1. DriverInit => Init
  BY DEF DriverInit
<1>2. QED  BY <1>1, DriverStep, PTL DEF DriverSpec, Spec

\* The interface and its library go through their places, and the client
\* through its own.
THEOREM DriverTypeCorrect == DriverSpec => []DriverTypeOK
<1> DEFINE PlacesOK ==
        /\ interface \in {"startup", "initialize", "ready", "drop", "unload", "gone"}
        /\ metrics \in {"none", "made", "stored", "taken"}
<1>1. DriverInit => PlacesOK
  BY DEF DriverInit
<1>2. PlacesOK /\ [DriverNext]_driverVars => PlacesOK'
  <2> SUFFICES ASSUME PlacesOK, [DriverNext]_driverVars PROVE PlacesOK'
    OBVIOUS
  <2> USE DEF MoveInterface
  <2>1. CASE InterfaceStep
    <3>1. CASE CreateInstance \/ StoreInstance \/ Initialize
      BY <3>1 DEF CreateInstance, StoreInstance, Initialize
    <3>2. CASE TeardownNothing \/ TeardownTakes \/ TeardownRuns \/ TeardownEnds \/ Unload
      BY <3>2 DEF TeardownNothing, TeardownTakes, TeardownRuns, TeardownEnds, Unload
    <3>3. QED  BY <2>1, <3>1, <3>2 DEF InterfaceStep
  <2>2. CASE Command \/ Destroy \/ Background
    BY <2>2 DEF Command, Destroy, Background
  <2>3. CASE UNCHANGED driverVars
    BY <2>3 DEF driverVars
  <2>4. QED  BY <2>1, <2>2, <2>3 DEF DriverNext, DriverStopped
<1>3. PlacesOK /\ TypeOK => DriverTypeOK
  BY DEF DriverTypeOK
<1>4. DriverSpec => []TypeOK
  BY DriverIsClient, TypeCorrect, PTL
<1>5. QED  BY <1>1, <1>2, <1>3, <1>4, PTL DEF DriverSpec

-----------------------------------------------------------------------------
(* The worker is asked to stop.                                            *)

\* A request in the channel stays there until the worker takes it off, and the
\* worker does not forget it.
LEMMA AskedStays ==
    ASSUME NEW actions \in Seq(Actions)
    PROVE  /\ \A a \in Actions : EndAsked(actions) => EndAsked(Append(actions, a))
           /\ EndAsked(Append(actions, "FlushShutdown"))
           /\ actions # <<>> /\ EndAsked(actions) =>
                 Head(actions) = "FlushShutdown" \/ EndAsked(Tail(actions))
<1>1. DOMAIN actions = 1..Len(actions) /\ Len(actions) \in Nat /\ "FlushShutdown" \in Actions
  BY LenProperties DEF Actions
<1>2. ASSUME NEW a \in Actions
      PROVE  /\ EndAsked(actions) => EndAsked(Append(actions, a))
             /\ a = "FlushShutdown" => EndAsked(Append(actions, a))
  <2> DEFINE longer == Append(actions, a)
  <2>1. /\ DOMAIN longer = 1..(Len(actions) + 1)
        /\ longer[Len(actions) + 1] = a
        /\ \A i \in 1..Len(actions) : longer[i] = actions[i]
    BY AppendProperties, LenProperties
  <2> HIDE DEF longer
  <2>2. Len(actions) + 1 \in DOMAIN longer /\ \A i \in DOMAIN actions : i \in DOMAIN longer
    BY <1>1, <2>1
  <2>3. QED  BY <1>1, <2>1, <2>2 DEF EndAsked, longer
<1>3. ASSUME actions # <<>>, EndAsked(actions), Head(actions) # "FlushShutdown"
      PROVE  EndAsked(Tail(actions))
  <2> DEFINE rest == Tail(actions)
  <2>1. /\ Head(actions) = actions[1] /\ DOMAIN rest = 1..(Len(actions) - 1)
        /\ \A i \in 1..(Len(actions) - 1) : rest[i] = actions[i + 1]
    BY <1>3, HeadTailProperties, LenProperties
  <2>2. PICK i \in DOMAIN actions : actions[i] = "FlushShutdown"
    BY <1>3 DEF EndAsked
  <2> HIDE DEF rest
  <2>3. i # 1
    BY <1>3, <2>1, <2>2
  <2>4. i - 1 \in DOMAIN rest /\ rest[i - 1] = actions[i]
    BY <1>1, <2>1, <2>2, <2>3
  <2>5. QED  BY <2>2, <2>4 DEF EndAsked, rest
<1>4. QED  BY <1>1, <1>2, <1>3

\* shutdown() that has sent its request has been heard or will be, and once it
\* has returned nobody receives acks any more.
RequestStands ==
    /\ owner \in {"wait", "done"} => StopAsked
    /\ owner = "done" => flush_rx = "dropped"

\* Every step of the client keeps that.
LEMMA RequestStandsStep ==
    ASSUME TypeOK, RequestStands, [Next]_vars
    PROVE  RequestStands'
<1> USE DEF MoveOwner, MoveWorker, queueVars, workerVars, timerVars, callVars
<1>1. worker_actions \in Seq(Actions) /\ "FlushQueue" \in Actions /\ "FlushShutdown" \in Actions
  BY DEF TypeOK, Actions
<1>2. /\ owner \in {"wait", "done"} => shutdown \/ EndAsked(worker_actions)
      /\ owner = "done" => flush_rx = "dropped"
  BY DEF RequestStands, StopAsked, EndAsked
<1>3. SUFFICES /\ owner' \in {"wait", "done"} => shutdown' \/ EndAsked(worker_actions')
               /\ owner' = "done" => flush_rx' = "dropped"
  BY DEF RequestStands, StopAsked, EndAsked
<1>4. ASSUME PushRecord
      PROVE  EndAsked(worker_actions) => EndAsked(worker_actions')
  BY <1>1, <1>4, AskedStays DEF PushRecord
<1>5. CASE ClientAddRecord
  BY <1>2, <1>4, <1>5 DEF ClientAddRecord
<1>6. ASSUME NEW f \in Flushers, Flush(f)
      PROVE  /\ UNCHANGED <<shutdown, owner, flush_rx>>
             /\ EndAsked(worker_actions) => EndAsked(worker_actions')
  <2>1. UNCHANGED <<workerVars, owner, flush_rx>>
    BY <1>6 DEF Flush, FlushStepOf
  <2>2. \/ worker_actions' = worker_actions
        \/ worker_actions' = Append(worker_actions, "FlushQueue")
    BY <1>6 DEF Flush, FlushStepOf, FlushCall, FlushLock, FlushDrainOne, FlushDrained,
                FlushRequest, FlushRecv
  <2>3. QED  BY <1>1, <2>1, <2>2, AskedStays
<1>7. CASE Owner
  <2>1. UNCHANGED shutdown
    BY <1>7 DEF Owner, OwnerStep, OwnerFrame
  <2>2. CASE ShutdownCall \/ ShutdownDrainOne \/ ShutdownDrained \/ ShutdownAdd
    BY <2>2 DEF ShutdownCall, ShutdownDrainOne, ShutdownDrained, ShutdownAdd
  <2>3. CASE ShutdownRequest
    BY <1>1, <2>3, AskedStays DEF ShutdownRequest
  <2>4. CASE ShutdownReturn
    BY <1>2, <2>1, <2>4 DEF ShutdownReturn
  <2>5. QED  BY <1>7, <2>2, <2>3, <2>4 DEF Owner, OwnerStep
<1>8. CASE Worker
  <2>1. UNCHANGED <<owner, flush_rx>>
    BY <1>8 DEF Worker
  <2>2. shutdown \/ EndAsked(worker_actions) => shutdown' \/ EndAsked(worker_actions')
    <3>1. CASE RecvFlushQueue
      BY <1>1, <3>1, AskedStays DEF RecvFlushQueue
    <3>2. CASE RecvFlushShutdown
      BY <3>2 DEF RecvFlushShutdown
    <3>3. CASE UNCHANGED <<worker_actions, shutdown>>
      BY <3>3
    <3>4. UNCHANGED <<worker_actions, shutdown>> \/ RecvFlushQueue \/ RecvFlushShutdown
      BY <1>8, WorkerCases DEF RecvTimeout, SubmitNothing, SubmitReport, SendSucceeds,
         SendFailsForGood, SendFails, RequeueEntry, RequeueDone, Ack, FinalAck, SendAck
    <3>5. QED  BY <3>1, <3>2, <3>3, <3>4
  <2>3. QED  BY <1>2, <2>1, <2>2
<1>9. CASE DeadlinePasses \/ Crash \/ UNCHANGED vars
  BY <1>2, <1>9 DEF DeadlinePasses, Crash, vars
<1>10. QED
  BY <1>2, <1>5, <1>6, <1>7, <1>8, <1>9 DEF Next, Stopped

\* From the end of teardown() on there is no client, or one that was shut down.
TeardownFirst ==
    interface \in {"unload", "gone"} => metrics = "none" \/ owner = "done"

\* Only teardown leads there, and nothing touches the client's owner afterwards.
LEMMA TeardownFirstStep ==
    ASSUME TeardownFirst, [DriverNext]_driverVars
    PROVE  TeardownFirst'
<1> USE DEF TeardownFirst, MoveInterface, vars, callVars
<1>1. CASE InterfaceStep
  <2>1. CASE CreateInstance \/ StoreInstance \/ Initialize
    BY <2>1 DEF CreateInstance, StoreInstance, Initialize
  <2>2. CASE TeardownNothing \/ TeardownTakes \/ TeardownRuns
    BY <2>2 DEF TeardownNothing, TeardownTakes, TeardownRuns
  <2>3. CASE TeardownEnds \/ Unload
    BY <2>3 DEF TeardownEnds, Unload
  <2>4. QED  BY <1>1, <2>1, <2>2, <2>3 DEF InterfaceStep
<1>2. CASE Command \/ Destroy
  BY <1>2 DEF Command, Destroy
<1>3. CASE Background
  <2>1. UNCHANGED <<owner, interface, metrics>>
    BY <1>3 DEF Background, Worker, DeadlinePasses, Crash
  <2>2. QED  BY <2>1
<1>4. CASE UNCHANGED driverVars
  BY <1>4 DEF driverVars
<1>5. QED  BY <1>1, <1>2, <1>3, <1>4 DEF DriverNext, DriverStopped

\* However the interface ended, its library goes only after the worker has been
\* asked to stop, by a shutdown() that has returned.
THEOREM NoWorkerIsForgotten == DriverSpec => []NoWorkerForgotten
<1>1. DriverInit => TeardownFirst /\ RequestStands
  BY DEF DriverInit, Init, TeardownFirst, RequestStands
<1>2. TypeOK /\ RequestStands /\ TeardownFirst /\ [DriverNext]_driverVars
         => RequestStands' /\ TeardownFirst'
  <2>1. ASSUME [DriverNext]_driverVars PROVE [Next]_vars
    BY <2>1, DriverStep
  <2>2. QED  BY <2>1, RequestStandsStep, TeardownFirstStep
<1>3. RequestStands /\ TeardownFirst => NoWorkerForgotten
  BY DEF RequestStands, TeardownFirst, NoWorkerForgotten
<1>4. DriverSpec => []TypeOK
  BY DriverIsClient, TypeCorrect, PTL
<1>5. QED  BY <1>1, <1>2, <1>3, <1>4, PTL DEF DriverSpec

-----------------------------------------------------------------------------
(* What holds of the client.                                               *)

\* The records that the application hands to the driver are not lost.
THEOREM DriverLosesNoRecord == DriverSpec => []NoRecordLost
BY DriverIsClient, NoRecordIsLost, PTL

\* The driver delivers what it is handed as its client promises: each record is
\* open until one final verdict.
THEOREM DriverDelivers == DriverSpec => ImplementsDelivery
BY DriverIsClient, ClientImplementsDelivery, PTL
=============================================================================
