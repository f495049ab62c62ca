-------------------------- MODULE AppControlProofs --------------------------
(***************************************************************************)
(* Proofs about the control owner of the application, module AppControl.   *)
(***************************************************************************)
EXTENDS AppControl, TLAPS

\* An event finds room in the queue or ends the run.
LEMMA EnqueueType ==
  ASSUME TypeOK, NEW entry \in WifiEntries \cup KeyEntries, Enqueue(entry)
  PROVE  /\ control_queue' \in Seq(WifiEntries \cup KeyEntries)
         /\ Len(control_queue') <= QueueCapacity
         /\ running' \in BOOLEAN /\ exit_published' \in BOOLEAN
<1> DEFINE E == WifiEntries \cup KeyEntries
<1>1. /\ control_queue \in Seq(E)
      /\ Len(control_queue) \in Nat /\ Len(control_queue) <= QueueCapacity
  BY DEF TypeOK, DataTypes
<1>2. /\ running \in BOOLEAN /\ exit_published \in BOOLEAN
  BY DEF TypeOK, FlagTypes
<1>3. CASE Len(control_queue) < QueueCapacity
  <2>1. control_queue' = Append(control_queue, entry) /\ UNCHANGED exitVars
    BY <1>3 DEF Enqueue
  <2>2. /\ Append(control_queue, entry) \in Seq(E)
        /\ Len(Append(control_queue, entry)) = Len(control_queue) + 1
    BY <1>1
  <2> QED BY <2>1, <2>2, <1>1, <1>2, <1>3, CapacityAssumption DEF exitVars
<1>4. CASE ~(Len(control_queue) < QueueCapacity)
  BY <1>1, <1>4 DEF Enqueue, PublishExit
<1> QED BY <1>3, <1>4

\* And so the flags of the run stay Boolean.
LEMMA EnqueueFlags ==
  ASSUME FlagTypes, NEW entry, Enqueue(entry)
  PROVE  running' \in BOOLEAN /\ exit_published' \in BOOLEAN
<1>1. CASE Len(control_queue) < QueueCapacity
  BY <1>1, ZenonT(60) DEF Enqueue, FlagTypes, exitVars
<1>2. CASE ~(Len(control_queue) < QueueCapacity)
  BY <1>2, ZenonT(60) DEF Enqueue, FlagTypes, PublishExit
<1> QED BY <1>1, <1>2

\* What the lifecycle is told of the network is a yes or a no.
LEMMA PublishFlags ==
  ASSUME FlagTypes, NEW available \in BOOLEAN, PublishNetwork(available)
  PROVE  /\ network_available' \in BOOLEAN /\ network_loss_pending' \in BOOLEAN
         /\ call_current' \in BOOLEAN /\ conversation_current' \in BOOLEAN
<1>1. SetNetworkAvailable(available) /\ conversation_current' \in BOOLEAN
  BY Zenon DEF PublishNetwork
<1> QED BY <1>1, Zenon DEF SetNetworkAvailable, FlagTypes

\* And late or not.
LEMMA PublishLateFlags ==
  ASSUME FlagTypes, PublishLate
  PROVE  /\ network_available' \in BOOLEAN /\ network_loss_pending' \in BOOLEAN
         /\ call_current' \in BOOLEAN /\ conversation_current' \in BOOLEAN
<1>1. CASE lifecycle_initialized /\ ~Event.published
  <2>1. PublishNetwork(Event.event = "STA_CONNECTED")
    BY <1>1, Zenon DEF PublishLate
  <2> QED BY <2>1, PublishFlags
<1>2. CASE ~(lifecycle_initialized /\ ~Event.published)
  BY <1>2, Zenon DEF PublishLate, networkVars, FlagTypes
<1> QED BY <1>1, <1>2

\* And so is what it tells the state model.
LEMMA SetModelNetworkFlags ==
  ASSUME FlagTypes, NEW is_online \in BOOLEAN, SetModelNetwork(is_online)
  PROVE  online' \in BOOLEAN
<1>1. CASE phase = "RUNNING"
  BY <1>1, Zenon DEF SetModelNetwork
<1>2. CASE phase # "RUNNING"
  BY <1>2, Zenon DEF SetModelNetwork, snapshotVars, FlagTypes
<1> QED BY <1>1, <1>2

\* A step of the lifecycle shows what it does, and moves the control worker only
\* inside the lifecycle.
LEMMA LifecycleMoves ==
  ASSUME Ticks \/ Calls \/ Answers
  PROVE  /\ Shows
         /\ UNCHANGED <<lifecycle_initialized, network_available>>
         /\ \/ UNCHANGED control
            \/ /\ control \in {"idle"} \cup InLifecycle
               /\ control' \in {"idle"} \cup InLifecycle
<1> USE DEF networkVars, requestVars, lifecycleVars, InLifecycle, Leaving
<1>1. Shows
  BY Zenon DEF Ticks, Calls, Answers
<1>2. CASE Ticks
  BY <1>1, <1>2 DEF Ticks, Offline, Pair, Start, Stop, Online, Ready
<1>3. CASE Calls
  BY <1>1, <1>3 DEF Calls, StartCall, StartAccepted, StartAbandoned, Left
<1>4. CASE Answers
  BY <1>1, <1>4 DEF Answers, Bound, PairAgain, Unbound, Fail, ConversationEnded, Ready
<1> QED BY <1>2, <1>3, <1>4

\* And keeps its flags Boolean, and the device in one of its states.
LEMMA LifecycleTypes ==
  ASSUME FlagTypes, device_state \in DeviceStates, Ticks \/ Calls \/ Answers
  PROVE  /\ network_loss_pending' \in BOOLEAN /\ call_current' \in BOOLEAN
         /\ pairing_requested' \in BOOLEAN /\ conversation_requested' \in BOOLEAN
         /\ stop_requested' \in BOOLEAN /\ conversation_current' \in BOOLEAN
         /\ device_state' \in DeviceStates
<1> USE DEF networkVars, requestVars, lifecycleVars, DeviceStates, FlagTypes
<1>1. conversation_current' \in BOOLEAN
  BY LifecycleMoves, Zenon DEF Shows
<1>2. CASE Ticks
  BY <1>1, <1>2, ZenonT(60) DEF Ticks, Offline, Pair, Start, Stop, Online, Ready
<1>3. CASE Calls
  BY <1>1, <1>3, ZenonT(60) DEF Calls, StartCall, StartAccepted, StartAbandoned, Left
<1>4. CASE Answers
  BY <1>1, <1>4, ZenonT(60) DEF Answers, Bound, PairAgain, Unbound, Fail, ConversationEnded,
     Ready
<1> QED BY <1>2, <1>3, <1>4

\* Every action keeps the flags Boolean.
LEMMA FlagStep == TypeOK /\ [Next]_vars => FlagTypes'
<1> SUFFICES ASSUME TypeOK, FlagTypes, [Next]_vars PROVE FlagTypes'
  BY DEF TypeOK
<1> USE DEF snapshotVars, exitVars, runVars, keyVars, wifiVars, networkVars,
        requestVars, lifecycleVars, deviceVars
<1>1. CASE MybotStart
  BY <1>1, ZenonT(60) DEF FlagTypes, MybotStart
<1>2. CASE MybotStartRefused
  BY <1>2, ZenonT(60) DEF FlagTypes, MybotStartRefused, PublishExit
<1>3. CASE MybotStop
  BY <1>3, ZenonT(60) DEF FlagTypes, MybotStop, PublishExit
<1>4. CASE StopFails
  BY <1>4, SMT DEF FlagTypes, StopFails
<1>5. CASE Stopped
  <2>1. service_mpq' = FALSE \/ service_mpq' = service_mpq
    BY <1>5, Zenon DEF Stopped
  <2>2. service_mpq' \in BOOLEAN
    BY <2>1, Zenon DEF FlagTypes
  <2> QED
    BY <1>5, <2>2 DEF FlagTypes, Stopped, Released
<1>6. CASE ControlStart
  BY <1>6, ZenonT(60) DEF FlagTypes, ControlStart, ToPhase
<1>7. CASE ControlStartWifi
  BY <1>7, SMT DEF FlagTypes, ControlStartWifi
<1>8. CASE ControlStartFails
  BY <1>8, ZenonT(60) DEF FlagTypes, ControlStartFails, ToPhase, PublishExit
<1>9. CASE ControlStarted
  BY <1>9, SMT DEF FlagTypes, ControlStarted
<1>10. CASE FiniBegin
  BY <1>10, ZenonT(60) DEF FlagTypes, FiniBegin, ToPhase, PublishExit
<1>11. CASE FiniKey
  <2>1. key_active' \in BOOLEAN
    BY <1>11, Zenon DEF FiniKey
  <2>2. UNCHANGED <<online, running, exit_published, aosl_ref_held, service_mpq,
                    wifi_active, lifecycle_initialized, network_available,
                    network_loss_pending, call_current, conversation_current,
                    pairing_requested, conversation_requested, stop_requested>>
    BY <1>11 DEF FiniKey
  <2> QED
    BY <2>1, <2>2, SMT DEF FlagTypes
<1>12. CASE FiniServices
  <2>1. service_mpq' = FALSE \/ service_mpq' = service_mpq
    BY <1>12, Zenon DEF FiniServices
  <2>2. service_mpq' \in BOOLEAN
    BY <2>1, Zenon DEF FlagTypes
  <2>3. /\ lifecycle_initialized' \in BOOLEAN
        /\ network_available' \in BOOLEAN /\ network_loss_pending' \in BOOLEAN
        /\ call_current' \in BOOLEAN /\ pairing_requested' \in BOOLEAN
        /\ conversation_requested' \in BOOLEAN /\ stop_requested' \in BOOLEAN
    BY <1>12, Zenon DEF FiniServices, LifecycleShutdown
  <2>4. UNCHANGED <<online, running, exit_published, aosl_ref_held, key_active, wifi_active,
                    conversation_current>>
    BY <1>12 DEF FiniServices
  <2> QED
    BY <2>2, <2>3, <2>4, SMT DEF FlagTypes
<1>13. CASE FiniWifi
  BY <1>13, ZenonT(60) DEF FlagTypes, FiniWifi, ResetModel, ToPhase
<1>14. ASSUME NEW event \in WifiEvents, WifiEvent(event) PROVE FlagTypes'
  BY <1>14, SMT DEF FlagTypes, WifiEvent
<1>15. CASE WifiPublish
  BY <1>15, SMT DEF FlagTypes, WifiPublish, PublishNetwork, SetNetworkAvailable
<1>16. CASE WifiQueue
  BY <1>16, EnqueueFlags, SMT DEF FlagTypes, WifiQueue
<1>17. ASSUME NEW event \in Keys, KeyEvent(event) PROVE FlagTypes'
  BY <1>17, SMT DEF FlagTypes, KeyEvent
<1>18. CASE KeyQueue
  BY <1>18, EnqueueFlags, SMT DEF FlagTypes, KeyQueue
<1>19. CASE KeyExit
  BY <1>19, ZenonT(60) DEF FlagTypes, KeyExit, PublishExit
<1>20. CASE DropEvent
  BY <1>20, SMT DEF FlagTypes, DropEvent, Take
<1>21. CASE WifiFailedAtStart
  BY <1>21, ZenonT(60) DEF FlagTypes, WifiFailedAtStart, Take, TakeWifi, ToPhase,
       PublishExit
<1>22. CASE WifiLost
  <2>1. PublishLate
    BY <1>22 DEF WifiLost
  <2>2. SetModelNetwork(FALSE) \/ online' = online
    BY <1>22 DEF WifiLost
  <2>3. online' \in BOOLEAN
    BY <2>2, SetModelNetworkFlags DEF FlagTypes
  <2> QED
    BY <1>22, <2>1, <2>3, PublishLateFlags DEF FlagTypes, WifiLost, TakeWifi
<1>23. CASE WifiRestored
  <2>1. PublishLate /\ SetModelNetwork(TRUE)
    BY <1>23 DEF WifiRestored
  <2>2. online' \in BOOLEAN
    BY <2>1, SetModelNetworkFlags, Zenon
  <2> QED
    BY <1>23, <2>1, <2>2, PublishLateFlags DEF FlagTypes, WifiRestored, TakeWifi
<1>24. CASE WifiFirst
  <2>1. PublishLate
    BY <1>24 DEF WifiFirst
  <2>2. online' \in BOOLEAN
    <3>1. CASE phase = "WIFI_PROVISIONING"
      BY <1>24, <3>1, Zenon DEF WifiFirst, ToPhase
    <3>2. CASE phase # "WIFI_PROVISIONING"
      BY <1>24, <3>2, Zenon DEF WifiFirst, FlagTypes
    <3> QED BY <3>1, <3>2
  <2> QED
    BY <1>24, <2>1, <2>2, PublishLateFlags DEF FlagTypes, WifiFirst, TakeWifi
<1>25. CASE HandleKey
  <2>1. /\ pairing_requested' \in BOOLEAN /\ conversation_requested' \in BOOLEAN
        /\ stop_requested' \in BOOLEAN
    <3>1. CASE KeyPasses(Event.event)
      <4>1. Request(Event.event)
        BY <1>25, <3>1, Zenon DEF HandleKey
      <4> QED BY <4>1, Zenon DEF Request
    <3>2. CASE ~KeyPasses(Event.event)
      <4>1. UNCHANGED requestVars
        BY <1>25, <3>2, Zenon DEF HandleKey
      <4> QED BY <4>1, Zenon DEF FlagTypes
    <3> QED BY <3>1, <3>2
  <2>2. UNCHANGED <<online, running, exit_published, aosl_ref_held, service_mpq, key_active,
                    wifi_active, lifecycle_initialized, network_available,
                    network_loss_pending, call_current, conversation_current>>
    BY <1>25 DEF HandleKey
  <2> QED
    BY <2>1, <2>2, SMT DEF FlagTypes
<1>26. CASE ServicesInit
  <2>1. /\ lifecycle_initialized' \in BOOLEAN
        /\ network_available' \in BOOLEAN /\ network_loss_pending' \in BOOLEAN
        /\ call_current' \in BOOLEAN /\ pairing_requested' \in BOOLEAN
        /\ conversation_requested' \in BOOLEAN /\ stop_requested' \in BOOLEAN
        /\ service_mpq' \in BOOLEAN /\ key_active' \in BOOLEAN
    BY <1>26, Zenon DEF ServicesInit, LifecycleInit
  <2>2. UNCHANGED <<online, running, exit_published, aosl_ref_held, wifi_active,
                    conversation_current>>
    BY <1>26 DEF ServicesInit
  <2> QED
    BY <2>1, <2>2, SMT DEF FlagTypes
<1>27. CASE ServicesFail
  BY <1>27, ZenonT(60) DEF FlagTypes, ServicesFail, ToPhase, PublishExit
<1>28. CASE ServicesReady
  BY <1>28, SMT DEF FlagTypes, ServicesReady, ToPhase
<1>29. CASE Ticks \/ Calls \/ Answers
  <2>1. /\ network_loss_pending' \in BOOLEAN /\ call_current' \in BOOLEAN
        /\ pairing_requested' \in BOOLEAN /\ conversation_requested' \in BOOLEAN
        /\ stop_requested' \in BOOLEAN /\ conversation_current' \in BOOLEAN
    BY <1>29, LifecycleTypes DEF TypeOK, DataTypes
  <2>2. UNCHANGED <<online, running, exit_published, aosl_ref_held, service_mpq,
                    key_active, wifi_active, lifecycle_initialized, network_available>>
    BY <1>29, LifecycleMoves DEF Shows
  <2> QED
    BY <2>1, <2>2, SMT DEF FlagTypes
<1>30. CASE UNCHANGED vars
  BY <1>30, SMT DEF vars, FlagTypes
<1> QED
  BY <1>1, <1>2, <1>3, <1>4, <1>5, <1>6, <1>7, <1>8, <1>9, <1>10, <1>11, <1>12, <1>13,
       <1>14, <1>15, <1>16, <1>17, <1>18, <1>19, <1>20, <1>21, <1>22, <1>23, <1>24,
       <1>25, <1>26, <1>27, <1>28, <1>29, <1>30
  DEF Next, Product, Starting, Fini, WifiThread, KeyThread, Handling, Services

\* Every action keeps the types of everything else.
LEMMA DataStep == TypeOK /\ [Next]_vars => DataTypes'
<1> SUFFICES ASSUME TypeOK, [Next]_vars PROVE DataTypes'
  OBVIOUS
<1> USE DEF snapshotVars, exitVars, runVars, keyVars, wifiVars, networkVars,
        requestVars, lifecycleVars, deviceVars
<1> USE DEF Phases, DeviceStates, WifiEvents, Keys, WifiEntries, KeyEntries, Leaving,
        InLifecycle, Finalizing, Controls, NoWifi
<1>1. CASE MybotStart
  BY <1>1, CapacityAssumption DEF TypeOK, DataTypes, MybotStart
<1>2. CASE MybotStartRefused
  BY <1>2, CapacityAssumption DEF TypeOK, DataTypes, MybotStartRefused, PublishExit
<1>3. CASE MybotStop
  BY <1>3, CapacityAssumption DEF TypeOK, DataTypes, MybotStop, PublishExit
<1>4. CASE StopFails
  BY <1>4, CapacityAssumption DEF TypeOK, DataTypes, StopFails
<1>5. CASE Stopped
  BY <1>5, CapacityAssumption DEF TypeOK, DataTypes, Stopped, Released
<1>6. CASE ControlStart
  BY <1>6, CapacityAssumption DEF TypeOK, DataTypes, ControlStart, ToPhase
<1>7. CASE ControlStartWifi
  BY <1>7, CapacityAssumption DEF TypeOK, DataTypes, ControlStartWifi
<1>8. CASE ControlStartFails
  BY <1>8, CapacityAssumption DEF TypeOK, DataTypes, ControlStartFails, ToPhase,
       PublishExit
<1>9. CASE ControlStarted
  BY <1>9, CapacityAssumption DEF TypeOK, DataTypes, ControlStarted
<1>10. CASE FiniBegin
  BY <1>10, CapacityAssumption DEF TypeOK, DataTypes, FiniBegin, ToPhase, PublishExit
<1>11. CASE FiniKey
  BY <1>11, CapacityAssumption DEF TypeOK, DataTypes, FiniKey
<1>12. CASE FiniServices
  BY <1>12, CapacityAssumption DEF TypeOK, DataTypes, FiniServices, LifecycleShutdown
<1>13. CASE FiniWifi
  BY <1>13, CapacityAssumption DEF TypeOK, DataTypes, FiniWifi, ResetModel, ToPhase
<1>14. ASSUME NEW event \in WifiEvents, WifiEvent(event) PROVE DataTypes'
  <2>1. Publishes \in BOOLEAN
    <3>1. Publishes = TRUE \/ Publishes = FALSE
      BY DEF Publishes
    <3> QED BY <3>1
  <2>2. link' \in {"unknown", "up", "down"} /\ wifi_events' \in Nat
    BY <1>14 DEF TypeOK, DataTypes, WifiEvent
  <2>3. wifi' \in [pc : {"idle", "publish", "queue"}, event : WifiEvents,
                   published : BOOLEAN]
    BY <1>14, <2>1 DEF TypeOK, DataTypes, WifiEvent
  <2> QED
    BY <1>14, <2>2, <2>3 DEF TypeOK, DataTypes, WifiEvent
<1>15. CASE WifiPublish
  BY <1>15, CapacityAssumption DEF TypeOK, DataTypes, WifiPublish, PublishNetwork,
     SetNetworkAvailable
<1>16. CASE WifiQueue
  BY <1>16, EnqueueType DEF TypeOK, DataTypes, WifiQueue
<1>17. ASSUME NEW event \in Keys, KeyEvent(event) PROVE DataTypes'
  BY <1>17, CapacityAssumption DEF TypeOK, DataTypes, KeyEvent
<1>18. CASE KeyQueue
  BY <1>18, EnqueueType DEF TypeOK, DataTypes, KeyQueue
<1>19. CASE KeyExit
  BY <1>19, CapacityAssumption DEF TypeOK, DataTypes, KeyExit, PublishExit
<1>20. CASE DropEvent
  BY <1>20, CapacityAssumption DEF TypeOK, DataTypes, DropEvent, Take
<1>21. CASE WifiFailedAtStart
  BY <1>21, CapacityAssumption DEF TypeOK, DataTypes, WifiFailedAtStart, Take,
       TakeWifi, ToPhase, PublishExit
<1>22. CASE WifiLost
  BY <1>22, CapacityAssumption DEF TypeOK, DataTypes, WifiLost, Take, TakeWifi,
       PublishLate, PublishNetwork, SetNetworkAvailable, SetModelNetwork
<1>23. CASE WifiRestored
  BY <1>23, CapacityAssumption DEF TypeOK, DataTypes, WifiRestored, Take, TakeWifi,
       PublishLate, PublishNetwork, SetNetworkAvailable, SetModelNetwork
<1>24. CASE WifiFirst
  BY <1>24, CapacityAssumption DEF TypeOK, DataTypes, WifiFirst, Take, TakeWifi,
       PublishLate, PublishNetwork, SetNetworkAvailable, ToPhase
<1>25. CASE HandleKey
  BY <1>25, CapacityAssumption DEF TypeOK, DataTypes, HandleKey, Take
<1>26. CASE ServicesInit
  BY <1>26, CapacityAssumption DEF TypeOK, DataTypes, ServicesInit, LifecycleInit
<1>27. CASE ServicesFail
  BY <1>27, CapacityAssumption DEF TypeOK, DataTypes, ServicesFail, ToPhase,
       PublishExit
<1>28. CASE ServicesReady
  BY <1>28, CapacityAssumption DEF TypeOK, DataTypes, ServicesReady, ToPhase
<1>29. CASE Ticks \/ Calls \/ Answers
  <2>1. device_state' \in DeviceStates
    BY <1>29, LifecycleTypes DEF TypeOK, DataTypes
  <2>2. /\ shown' \in {shown, device_state'} /\ control' \in Controls
        /\ UNCHANGED <<phase, main, control_queue, key, wifi, link, wifi_events, keys, runs>>
    BY <1>29, LifecycleMoves DEF Shows, InLifecycle, TypeOK, DataTypes
  <2> QED BY <2>1, <2>2, CapacityAssumption DEF TypeOK, DataTypes
<1>30. CASE UNCHANGED vars
  BY <1>30 DEF vars, TypeOK, DataTypes
<1> QED
  BY <1>1, <1>2, <1>3, <1>4, <1>5, <1>6, <1>7, <1>8, <1>9, <1>10, <1>11, <1>12, <1>13,
       <1>14, <1>15, <1>16, <1>17, <1>18, <1>19, <1>20, <1>21, <1>22, <1>23, <1>24,
       <1>25, <1>26, <1>27, <1>28, <1>29, <1>30
  DEF Next, Product, Starting, Fini, WifiThread, KeyThread, Handling, Services

\* Every variable keeps its type, and the control queue its capacity.
THEOREM TypeCorrect == Spec => []TypeOK
<1>1. Init => TypeOK
  <2> SUFFICES ASSUME Init PROVE TypeOK
    OBVIOUS
  <2>1. FlagTypes
    BY ZenonT(60) DEF Init, NoMemory, FlagTypes
  <2>2. DataTypes
    BY CapacityAssumption DEF Init, NoMemory, DataTypes, Phases, DeviceStates,
       WifiEvents, Keys,
         Controls,
       Leaving, Finalizing, NoWifi
  <2> QED
    BY <2>1, <2>2 DEF TypeOK
<1>2. TypeOK /\ [Next]_vars => TypeOK'
  BY FlagStep, DataStep DEF TypeOK
<1> QED
  BY <1>1, <1>2, PTL DEF Spec

----------------------------------------------------------------------------
(* A released runtime owns nothing.  StoppedOwnsNothing is not inductive:   *)
(* that nothing is owned once the control worker is gone follows from what  *)
(* each step of its finalizer has left behind, and that it may be gone only *)
(* after them from what the product thread is doing meanwhile.             *)

StartingUp == {"start_begin", "start_wifi", "start_check"}

\* Who owns what: the product thread and the control worker agree on the stage
\* of the run, and each stage has given up what comes before it.
StopInv ==
  /\ ~aosl_ref_held => control = "none" /\ ~service_mpq /\ main = "idle"
  /\ main = "starting" <=> control \in StartingUp
  /\ main = "stopping" => ~running
  /\ control \in Finalizing => main = "stopping"
  /\ control \in {"none", "ended"} => phase = "STOPPED" /\ ~running
  /\ control \in {"none", "ended", "fini_services", "fini_wifi"} \cup StartingUp =>
       ~key_active /\ key = "idle"
  /\ control \in {"none", "ended", "fini_wifi"} \cup StartingUp => ~lifecycle_initialized
  /\ control \in {"none", "ended", "start_begin", "start_wifi"} =>
       ~wifi_active /\ wifi.pc = "idle"

\* An event refused by the queue ends the run, and no event starts it again.
LEMMA EnqueueExits ==
  ASSUME NEW entry, Enqueue(entry)
  PROVE  ~running => ~running'
<1>1. CASE Len(control_queue) < QueueCapacity
  BY <1>1, ZenonT(60) DEF Enqueue, exitVars
<1>2. CASE ~(Len(control_queue) < QueueCapacity)
  BY <1>2, ZenonT(60) DEF Enqueue, PublishExit
<1> QED BY <1>1, <1>2

\* Every action keeps the stages of the run in order.
LEMMA StopStep == StopInv /\ [Next]_vars => StopInv'
<1> SUFFICES ASSUME StopInv, [Next]_vars PROVE StopInv'
  OBVIOUS
<1> USE DEF StopInv, StartingUp, Leaving, Finalizing, NoWifi,
        vars, snapshotVars, exitVars, runVars, keyVars, wifiVars, networkVars, requestVars,
        lifecycleVars, deviceVars
<1>1. CASE MybotStart
  BY <1>1 DEF MybotStart
<1>2. CASE MybotStartRefused
  BY <1>2 DEF MybotStartRefused, PublishExit
<1>3. CASE MybotStop
  BY <1>3 DEF MybotStop, PublishExit
<1>4. CASE StopFails
  BY <1>4 DEF StopFails
<1>5. CASE Stopped
  BY <1>5 DEF Stopped, Released
<1>6. CASE ControlStart
  BY <1>6 DEF ControlStart, ToPhase
<1>7. CASE ControlStartWifi
  BY <1>7 DEF ControlStartWifi
<1>8. CASE ControlStartFails
  BY <1>8 DEF ControlStartFails, ToPhase, PublishExit
<1>9. CASE ControlStarted
  BY <1>9 DEF ControlStarted
<1>10. CASE FiniBegin
  BY <1>10 DEF FiniBegin, ToPhase, PublishExit
<1>11. CASE FiniKey
  BY <1>11 DEF FiniKey
<1>12. CASE FiniServices
  BY <1>12 DEF FiniServices, LifecycleShutdown
<1>13. CASE FiniWifi
  BY <1>13 DEF FiniWifi, ResetModel, ToPhase
<1>14. ASSUME NEW event \in WifiEvents, WifiEvent(event) PROVE StopInv'
  BY <1>14 DEF WifiEvent
<1>15. CASE WifiPublish
  BY <1>15 DEF WifiPublish
<1>16. CASE WifiQueue
  BY <1>16, EnqueueExits DEF WifiQueue
<1>17. ASSUME NEW event \in Keys, KeyEvent(event) PROVE StopInv'
  BY <1>17 DEF KeyEvent
<1>18. CASE KeyQueue
  BY <1>18, EnqueueExits DEF KeyQueue
<1>19. CASE KeyExit
  BY <1>19 DEF KeyExit, PublishExit
<1>20. CASE DropEvent
  BY <1>20 DEF DropEvent, Take
<1>21. CASE WifiFailedAtStart
  BY <1>21 DEF WifiFailedAtStart, Take, TakeWifi, ToPhase, PublishExit
<1>22. CASE WifiLost
  BY <1>22 DEF WifiLost, Take, TakeWifi, SetModelNetwork
<1>23. CASE WifiRestored
  BY <1>23 DEF WifiRestored, Take, TakeWifi, SetModelNetwork
<1>24. CASE WifiFirst
  BY <1>24 DEF WifiFirst, Take, TakeWifi, ToPhase
<1>25. CASE HandleKey
  BY <1>25 DEF HandleKey, Take
<1>26. CASE ServicesInit
  BY <1>26 DEF ServicesInit
<1>27. CASE ServicesFail
  BY <1>27 DEF ServicesFail, ToPhase, PublishExit
<1>28. CASE ServicesReady
  BY <1>28 DEF ServicesReady, ToPhase
<1>29. CASE Ticks \/ Calls \/ Answers
  BY <1>29, LifecycleMoves DEF Shows, InLifecycle
<1>30. CASE UNCHANGED vars
  BY <1>30
<1> QED
  BY <1>1, <1>2, <1>3, <1>4, <1>5, <1>6, <1>7, <1>8, <1>9, <1>10, <1>11, <1>12, <1>13,
       <1>14, <1>15, <1>16, <1>17, <1>18, <1>19, <1>20, <1>21, <1>22, <1>23, <1>24,
       <1>25, <1>26, <1>27, <1>28, <1>29, <1>30
  DEF Next, Product, Starting, Fini, WifiThread, KeyThread, Handling, Services

\* StoppedOwnsNothing: a released runtime owns no worker, no listener and no call
\* in progress, and shows STOPPED, however the start failed or the stop was retried.
THEOREM ReleasedOwnsNothing == Spec => []StoppedOwnsNothing
<1>1. Init => StopInv
  BY DEF Init, NoMemory, StopInv, StartingUp, Finalizing, NoWifi
<1>2. StopInv => StoppedOwnsNothing
  BY DEF StopInv, StoppedOwnsNothing, IsRunning
<1> QED
  BY <1>1, <1>2, StopStep, PTL DEF Spec

----------------------------------------------------------------------------
(* The published state follows the network.  What the network has reported *)
(* and the control worker has not yet heard is one sequence: the queue, and *)
(* at its end the event that the Wi-Fi thread still has in its hands.       *)

Reported ==
  IF wifi.pc = "idle" THEN control_queue
  ELSE Append(control_queue,
              [kind |-> "wifi", event |-> wifi.event, published |-> wifi.published])

IsUp(entry) == entry.kind = "wifi" /\ entry.event = "STA_CONNECTED"

IsDown(entry) == entry.kind = "wifi" /\ entry.event # "STA_CONNECTED"

Silent(s) == \A i \in DOMAIN s : s[i].kind # "wifi"

\* The last event of s, if any, is a connection, or is a loss.
EndsUp(s) ==
  \A i \in DOMAIN s : IsDown(s[i]) => \E j \in DOMAIN s : j > i /\ IsUp(s[j])

EndsDown(s) ==
  \A i \in DOMAIN s : IsUp(s[i]) => \E j \in DOMAIN s : j > i /\ IsDown(s[j])

\* The first event of s, if any, is a loss.
StartsDown(s) ==
  \A i \in DOMAIN s : IsUp(s[i]) => \E j \in DOMAIN s : j < i /\ IsDown(s[j])

\* Two connections have a loss between them.
Alternates(s) ==
  \A i \in DOMAIN s : \A k \in DOMAIN s :
    i < k /\ IsUp(s[i]) /\ IsUp(s[k]) =>
      \E j \in DOMAIN s : i < j /\ j < k /\ IsDown(s[j])

\* Taking the first entry: what is left still alternates and ends as before, and
\* begins with a loss unless the entry taken was one.
LEMMA FirstTaken ==
  ASSUME NEW E, NEW s \in Seq(E), NEW t \in Seq(E),
         Len(s) = Len(t) + 1, \A i \in 1 .. Len(t) : t[i] = s[i + 1]
  PROVE  /\ Alternates(s) => Alternates(t)
         /\ EndsUp(s) => EndsUp(t)
         /\ EndsDown(s) => EndsDown(t)
         /\ StartsDown(s) /\ ~IsDown(s[1]) => StartsDown(t)
         /\ Alternates(s) /\ IsUp(s[1]) => StartsDown(t)
         /\ EndsDown(s) /\ IsUp(s[1]) => ~Silent(t)
         /\ EndsUp(s) /\ IsDown(s[1]) => ~Silent(t)
         /\ s[1].kind # "wifi" => (Silent(s) <=> Silent(t))
         /\ StartsDown(s) => ~IsUp(s[1])
<1>1. /\ DOMAIN s = 1 .. Len(s) /\ DOMAIN t = 1 .. Len(t)
      /\ Len(t) \in Nat /\ 1 \in DOMAIN s
  OBVIOUS
<1>2. \A i \in DOMAIN t : i + 1 \in DOMAIN s /\ s[i + 1] = t[i]
  BY <1>1
<1>3. \A j \in DOMAIN s : j = 1 \/ (j - 1 \in DOMAIN t /\ t[j - 1] = s[j])
  <2> TAKE j \in DOMAIN s
  <2>1. CASE j = 1
    BY <2>1
  <2>2. CASE j # 1
    <3>1. j - 1 \in DOMAIN t /\ (j - 1) + 1 = j
      BY <1>1, <2>2
    <3> QED BY <1>2, <3>1
  <2> QED BY <2>1, <2>2
<1>4. Alternates(s) => Alternates(t)
  <2> SUFFICES ASSUME Alternates(s), NEW i \in DOMAIN t, NEW k \in DOMAIN t,
                      i < k, IsUp(t[i]), IsUp(t[k])
               PROVE  \E j \in DOMAIN t : i < j /\ j < k /\ IsDown(t[j])
    BY DEF Alternates
  <2>1. PICK j \in DOMAIN s : i + 1 < j /\ j < k + 1 /\ IsDown(s[j])
    BY <1>1, <1>2 DEF Alternates
  <2>2. j - 1 \in DOMAIN t /\ i < j - 1 /\ j - 1 < k /\ IsDown(t[j - 1])
    BY <1>1, <1>3, <2>1
  <2> QED BY <2>2
<1>5. EndsUp(s) => EndsUp(t)
  <2> SUFFICES ASSUME EndsUp(s), NEW i \in DOMAIN t, IsDown(t[i])
               PROVE  \E j \in DOMAIN t : j > i /\ IsUp(t[j])
    BY DEF EndsUp
  <2>1. PICK j \in DOMAIN s : j > i + 1 /\ IsUp(s[j])
    BY <1>1, <1>2 DEF EndsUp
  <2>2. j - 1 \in DOMAIN t /\ j - 1 > i /\ IsUp(t[j - 1])
    BY <1>1, <1>3, <2>1
  <2> QED BY <2>2
<1>6. EndsDown(s) => EndsDown(t)
  <2> SUFFICES ASSUME EndsDown(s), NEW i \in DOMAIN t, IsUp(t[i])
               PROVE  \E j \in DOMAIN t : j > i /\ IsDown(t[j])
    BY DEF EndsDown
  <2>1. PICK j \in DOMAIN s : j > i + 1 /\ IsDown(s[j])
    BY <1>1, <1>2 DEF EndsDown
  <2>2. j - 1 \in DOMAIN t /\ j - 1 > i /\ IsDown(t[j - 1])
    BY <1>1, <1>3, <2>1
  <2> QED BY <2>2
<1>7. StartsDown(s) /\ ~IsDown(s[1]) => StartsDown(t)
  <2> SUFFICES ASSUME StartsDown(s), ~IsDown(s[1]), NEW i \in DOMAIN t, IsUp(t[i])
               PROVE  \E j \in DOMAIN t : j < i /\ IsDown(t[j])
    BY DEF StartsDown
  <2>1. PICK j \in DOMAIN s : j < i + 1 /\ IsDown(s[j])
    BY <1>1, <1>2 DEF StartsDown
  <2>2. j - 1 \in DOMAIN t /\ j - 1 < i /\ IsDown(t[j - 1])
    BY <1>1, <1>3, <2>1
  <2> QED BY <2>2
<1>8. Alternates(s) /\ IsUp(s[1]) => StartsDown(t)
  <2> SUFFICES ASSUME Alternates(s), IsUp(s[1]), NEW i \in DOMAIN t, IsUp(t[i])
               PROVE  \E j \in DOMAIN t : j < i /\ IsDown(t[j])
    BY DEF StartsDown
  <2>1. 1 < i + 1 /\ i + 1 \in DOMAIN s /\ IsUp(s[i + 1])
    BY <1>1, <1>2
  <2>2. PICK j \in DOMAIN s : 1 < j /\ j < i + 1 /\ IsDown(s[j])
    BY <1>1, <2>1 DEF Alternates
  <2>3. j - 1 \in DOMAIN t /\ j - 1 < i /\ IsDown(t[j - 1])
    BY <1>1, <1>3, <2>2
  <2> QED BY <2>3
<1>9. EndsDown(s) /\ IsUp(s[1]) => ~Silent(t)
  <2> SUFFICES ASSUME EndsDown(s), IsUp(s[1]) PROVE ~Silent(t)
    OBVIOUS
  <2>1. PICK j \in DOMAIN s : j > 1 /\ IsDown(s[j])
    BY <1>1 DEF EndsDown
  <2> QED BY <1>1, <1>3, <2>1 DEF Silent, IsDown
<1>10. EndsUp(s) /\ IsDown(s[1]) => ~Silent(t)
  <2> SUFFICES ASSUME EndsUp(s), IsDown(s[1]) PROVE ~Silent(t)
    OBVIOUS
  <2>1. PICK j \in DOMAIN s : j > 1 /\ IsUp(s[j])
    BY <1>1 DEF EndsUp
  <2> QED BY <1>1, <1>3, <2>1 DEF Silent, IsUp
<1>11. s[1].kind # "wifi" => (Silent(s) <=> Silent(t))
  BY <1>1, <1>2, <1>3 DEF Silent
<1>12. StartsDown(s) => ~IsUp(s[1])
  BY <1>1 DEF StartsDown
<1> QED
  BY <1>4, <1>5, <1>6, <1>7, <1>8, <1>9, <1>10, <1>11, <1>12

\* One more event at the end: a loss may always follow, a connection only a loss.
LEMMA EventAdded ==
  ASSUME NEW E, NEW s \in Seq(E), NEW e \in E, e.kind = "wifi", Alternates(s)
  PROVE  /\ ~Silent(Append(s, e))
         /\ IsDown(e) => /\ Alternates(Append(s, e)) /\ EndsDown(Append(s, e))
                         /\ StartsDown(s) => StartsDown(Append(s, e))
         /\ IsUp(e) /\ EndsDown(s) =>
              /\ Alternates(Append(s, e)) /\ EndsUp(Append(s, e))
              /\ ~Silent(s) => (StartsDown(s) => StartsDown(Append(s, e)))
<1> DEFINE t == Append(s, e)
           n == Len(s) + 1
<1>1. /\ DOMAIN s = 1 .. Len(s) /\ DOMAIN t = 1 .. n
      /\ Len(s) \in Nat /\ n \in DOMAIN t /\ t[n] = e
      /\ \A i \in DOMAIN s : i \in DOMAIN t /\ t[i] = s[i] /\ i < n
      /\ \A j \in DOMAIN t : j = n \/ j \in DOMAIN s
  OBVIOUS
<1> HIDE DEF t, n
<1>2. ~Silent(t)
  BY <1>1 DEF Silent
<1>3. ASSUME IsDown(e)
      PROVE  Alternates(t) /\ EndsDown(t) /\ (StartsDown(s) => StartsDown(t))
  <2>1. ~IsUp(e)
    BY <1>3 DEF IsUp, IsDown
  <2>2. Alternates(t)
    <3> SUFFICES ASSUME NEW i \in DOMAIN t, NEW k \in DOMAIN t,
                        i < k, IsUp(t[i]), IsUp(t[k])
                 PROVE  \E j \in DOMAIN t : i < j /\ j < k /\ IsDown(t[j])
      BY DEF Alternates
    <3>1. i \in DOMAIN s /\ k \in DOMAIN s /\ IsUp(s[i]) /\ IsUp(s[k])
      BY <1>1, <2>1
    <3>2. PICK j \in DOMAIN s : i < j /\ j < k /\ IsDown(s[j])
      BY <3>1 DEF Alternates
    <3> QED BY <1>1, <3>2
  <2>3. EndsDown(t)
    BY <1>1, <1>3, <2>1 DEF EndsDown
  <2>4. ASSUME StartsDown(s) PROVE StartsDown(t)
    BY <1>1, <2>1, <2>4 DEF StartsDown
  <2> QED BY <2>2, <2>3, <2>4
<1>4. ASSUME IsUp(e), EndsDown(s)
      PROVE  /\ Alternates(t) /\ EndsUp(t)
             /\ ~Silent(s) => (StartsDown(s) => StartsDown(t))
  <2>1. ~IsDown(e)
    BY <1>4 DEF IsUp, IsDown
  <2>2. Alternates(t)
    <3> SUFFICES ASSUME NEW i \in DOMAIN t, NEW k \in DOMAIN t,
                        i < k, IsUp(t[i]), IsUp(t[k])
                 PROVE  \E j \in DOMAIN t : i < j /\ j < k /\ IsDown(t[j])
      BY DEF Alternates
    <3>1. i \in DOMAIN s /\ IsUp(s[i])
      BY <1>1
    <3>2. CASE k \in DOMAIN s
      <4>1. PICK j \in DOMAIN s : i < j /\ j < k /\ IsDown(s[j])
        BY <1>1, <3>1, <3>2 DEF Alternates
      <4> QED BY <1>1, <4>1
    <3>3. CASE k = n
      <4>1. PICK j \in DOMAIN s : j > i /\ IsDown(s[j])
        BY <1>4, <3>1 DEF EndsDown
      <4> QED BY <1>1, <3>3, <4>1
    <3> QED BY <1>1, <3>2, <3>3
  <2>3. EndsUp(t)
    BY <1>1, <1>4, <2>1 DEF EndsUp
  <2>4. ASSUME ~Silent(s), StartsDown(s) PROVE StartsDown(t)
    <3>1. PICK i \in DOMAIN s : IsUp(s[i]) \/ IsDown(s[i])
      BY <2>4 DEF Silent, IsUp, IsDown
    <3>2. PICK j \in DOMAIN s : IsDown(s[j])
      BY <1>4, <3>1 DEF EndsDown
    <3> QED BY <1>1, <2>4, <3>2 DEF StartsDown
  <2> QED BY <2>2, <2>3, <2>4
<1> QED
  BY <1>2, <1>3, <1>4 DEF t

\* A key among the events changes nothing of this: s is t without it.
LEMMA KeyAmongThem ==
  ASSUME NEW E, NEW s \in Seq(E), NEW t \in Seq(E), NEW p \in 1 .. Len(t),
         Len(t) = Len(s) + 1, t[p].kind # "wifi",
         \A i \in 1 .. Len(s) : s[i] = t[IF i < p THEN i ELSE i + 1]
  PROVE  /\ Alternates(s) => Alternates(t)
         /\ EndsUp(s) => EndsUp(t)
         /\ EndsDown(s) => EndsDown(t)
         /\ StartsDown(s) => StartsDown(t)
         /\ Silent(s) <=> Silent(t)
<1> DEFINE f(i) == IF i < p THEN i ELSE i + 1
           g(k) == IF k < p THEN k ELSE k - 1
<1>1. /\ DOMAIN s = 1 .. Len(s) /\ DOMAIN t = 1 .. Len(t)
      /\ Len(s) \in Nat /\ Len(t) \in Nat /\ p \in Nat
  OBVIOUS
<1>2. \A i \in DOMAIN s : f(i) \in DOMAIN t /\ t[f(i)] = s[i]
  BY <1>1
<1>3. \A i, j \in DOMAIN s : i < j => f(i) < f(j)
  BY <1>1
<1>4. \A k \in DOMAIN t : k # p => g(k) \in DOMAIN s /\ f(g(k)) = k
  BY <1>1
<1>5. \A i, j \in DOMAIN t : i < j /\ i # p /\ j # p => g(i) < g(j)
  BY <1>1
<1>6. \A k \in DOMAIN t : IsUp(t[k]) \/ IsDown(t[k]) => k # p
  BY DEF IsUp, IsDown
<1> HIDE DEF f, g
<1>7. \A k \in DOMAIN t : k # p => t[k] = s[g(k)]
  BY <1>2, <1>4
<1>8. ASSUME Alternates(s) PROVE Alternates(t)
  <2> SUFFICES ASSUME NEW i \in DOMAIN t, NEW k \in DOMAIN t,
                      i < k, IsUp(t[i]), IsUp(t[k])
               PROVE  \E j \in DOMAIN t : i < j /\ j < k /\ IsDown(t[j])
    BY DEF Alternates
  <2>1. /\ g(i) \in DOMAIN s /\ g(k) \in DOMAIN s /\ g(i) < g(k)
        /\ IsUp(s[g(i)]) /\ IsUp(s[g(k)])
    BY <1>4, <1>5, <1>6, <1>7
  <2>2. PICK j \in DOMAIN s : g(i) < j /\ j < g(k) /\ IsDown(s[j])
    BY <1>8, <2>1 DEF Alternates
  <2>3. f(g(i)) < f(j) /\ f(j) < f(g(k)) /\ f(j) \in DOMAIN t /\ IsDown(t[f(j)])
    BY <1>2, <1>3, <2>1, <2>2
  <2> QED BY <1>4, <1>6, <2>3
<1>9. ASSUME EndsUp(s) PROVE EndsUp(t)
  <2> SUFFICES ASSUME NEW i \in DOMAIN t, IsDown(t[i])
               PROVE  \E j \in DOMAIN t : j > i /\ IsUp(t[j])
    BY DEF EndsUp
  <2>1. g(i) \in DOMAIN s /\ IsDown(s[g(i)]) /\ f(g(i)) = i
    BY <1>4, <1>6, <1>7
  <2>2. PICK j \in DOMAIN s : j > g(i) /\ IsUp(s[j])
    BY <1>9, <2>1 DEF EndsUp
  <2>3. g(i) < j
    BY <1>1, <2>1, <2>2
  <2>4. f(g(i)) < f(j) /\ f(j) \in DOMAIN t /\ t[f(j)] = s[j]
    BY <1>2, <1>3, <2>1, <2>3
  <2> QED BY <1>1, <2>1, <2>2, <2>4
<1>10. ASSUME EndsDown(s) PROVE EndsDown(t)
  <2> SUFFICES ASSUME NEW i \in DOMAIN t, IsUp(t[i])
               PROVE  \E j \in DOMAIN t : j > i /\ IsDown(t[j])
    BY DEF EndsDown
  <2>1. g(i) \in DOMAIN s /\ IsUp(s[g(i)]) /\ f(g(i)) = i
    BY <1>4, <1>6, <1>7
  <2>2. PICK j \in DOMAIN s : j > g(i) /\ IsDown(s[j])
    BY <1>10, <2>1 DEF EndsDown
  <2>3. g(i) < j
    BY <1>1, <2>1, <2>2
  <2>4. f(g(i)) < f(j) /\ f(j) \in DOMAIN t /\ t[f(j)] = s[j]
    BY <1>2, <1>3, <2>1, <2>3
  <2> QED BY <1>1, <2>1, <2>2, <2>4
<1>11. ASSUME StartsDown(s) PROVE StartsDown(t)
  <2> SUFFICES ASSUME NEW i \in DOMAIN t, IsUp(t[i])
               PROVE  \E j \in DOMAIN t : j < i /\ IsDown(t[j])
    BY DEF StartsDown
  <2>1. g(i) \in DOMAIN s /\ IsUp(s[g(i)]) /\ f(g(i)) = i
    BY <1>4, <1>6, <1>7
  <2>2. PICK j \in DOMAIN s : j < g(i) /\ IsDown(s[j])
    BY <1>11, <2>1 DEF StartsDown
  <2>3. f(j) < f(g(i)) /\ f(j) \in DOMAIN t /\ t[f(j)] = s[j]
    BY <1>2, <1>3, <2>1, <2>2
  <2> QED BY <2>1, <2>2, <2>3
<1>12. Silent(s) <=> Silent(t)
  BY <1>2, <1>4, <1>7 DEF Silent
<1> QED
  BY <1>8, <1>9, <1>10, <1>11, <1>12

----------------------------------------------------------------------------
(* What the actions do to it.                                              *)

Entries == WifiEntries \cup KeyEntries

\* What is reported is a sequence of entries: the queue, or one longer than it.
LEMMA ReportedEntries ==
  ASSUME TypeOK
  PROVE  /\ Reported \in Seq(Entries) /\ control_queue \in Seq(Entries)
         /\ Len(control_queue) \in Nat
         /\ \A i \in 1 .. Len(control_queue) : Reported[i] = control_queue[i]
         /\ Len(Reported) = IF wifi.pc = "idle" THEN Len(control_queue)
                                                ELSE Len(control_queue) + 1
         /\ wifi.pc # "idle" =>
              /\ Reported[Len(Reported)].kind = "wifi"
              /\ Reported[Len(Reported)].event = wifi.event
              /\ Reported[Len(Reported)].published = wifi.published
<1> DEFINE w == [kind |-> "wifi", event |-> wifi.event, published |-> wifi.published]
<1>1. control_queue \in Seq(Entries) /\ Len(control_queue) \in Nat
  BY DEF TypeOK, DataTypes, Entries
<1>2. w \in Entries
  BY DEF TypeOK, DataTypes, Entries, WifiEntries
<1>3. w.kind = "wifi" /\ w.event = wifi.event /\ w.published = wifi.published
  OBVIOUS
<1> HIDE DEF w
<1>4. CASE wifi.pc = "idle"
  BY <1>1, <1>4 DEF Reported
<1>5. CASE wifi.pc # "idle"
  <2>1. Reported = Append(control_queue, w)
    BY <1>5 DEF Reported, w
  <2>2. /\ Reported \in Seq(Entries) /\ Len(Reported) = Len(control_queue) + 1
        /\ \A i \in 1 .. Len(control_queue) : Reported[i] = control_queue[i]
        /\ Reported[Len(Reported)] = w
    BY <1>1, <1>2, <2>1
  <2> QED BY <1>1, <1>3, <1>5, <2>2
<1> QED BY <1>4, <1>5

\* The control worker takes the first of it.
LEMMA TakeReported ==
  ASSUME TypeOK, TypeOK', Take, UNCHANGED wifi
  PROVE  /\ Reported \in Seq(Entries) /\ Reported' \in Seq(Entries)
         /\ Len(Reported) = Len(Reported') + 1
         /\ \A i \in 1 .. Len(Reported') : Reported'[i] = Reported[i + 1]
         /\ Reported[1] = Event
<1>1. /\ control_queue \in Seq(Entries) /\ control_queue # <<>>
      /\ control_queue' = Tail(control_queue)
  BY ReportedEntries DEF Take
<1>2. /\ Len(control_queue) \in Nat /\ Len(control_queue') = Len(control_queue) - 1
      /\ Len(control_queue) > 0
      /\ \A i \in 1 .. Len(control_queue') : control_queue'[i] = control_queue[i + 1]
      /\ Event = control_queue[1]
  BY <1>1 DEF Event
<1> DEFINE w == [kind |-> "wifi", event |-> wifi.event, published |-> wifi.published]
<1>3. w \in Entries
  BY DEF TypeOK, DataTypes, Entries, WifiEntries
<1>4. /\ Reported \in Seq(Entries) /\ Reported' \in Seq(Entries)
      /\ control_queue' \in Seq(Entries)
      /\ Len(Reported') = IF wifi.pc = "idle" THEN Len(control_queue')
                                              ELSE Len(control_queue') + 1
  BY ReportedEntries, <1>1, <1>3 DEF Reported
<1> HIDE DEF w
<1>5. CASE wifi.pc = "idle"
  BY <1>1, <1>2, <1>4, <1>5 DEF Reported
<1>6. CASE wifi.pc # "idle"
  <2>1. Reported = Append(control_queue, w) /\ Reported' = Append(control_queue', w)
    BY <1>6 DEF Reported, w
  <2>2. /\ Len(Reported) = Len(control_queue) + 1
        /\ Reported[Len(control_queue) + 1] = w
        /\ \A i \in 1 .. Len(control_queue) : Reported[i] = control_queue[i]
    BY <1>1, <1>3, <2>1
  <2>3. /\ Len(Reported') = Len(control_queue') + 1
        /\ Reported'[Len(control_queue') + 1] = w
        /\ \A i \in 1 .. Len(control_queue') : Reported'[i] = control_queue'[i]
    BY <1>4, <1>3, <2>1
  <2>4. Len(Reported) = Len(Reported') + 1
    BY <1>2, <2>2, <2>3
  <2>5. ASSUME NEW i \in 1 .. Len(Reported') PROVE Reported'[i] = Reported[i + 1]
    <3>1. CASE i = Len(control_queue') + 1
      BY <1>2, <2>2, <2>3, <3>1
    <3>2. CASE i \in 1 .. Len(control_queue')
      <4>1. Reported'[i] = control_queue'[i] /\ control_queue'[i] = control_queue[i + 1]
        BY <1>2, <2>3, <3>2
      <4>2. i + 1 \in 1 .. Len(control_queue)
        BY <1>2, <3>2
      <4> QED BY <2>2, <4>1, <4>2
    <3>3. i = Len(control_queue') + 1 \/ i \in 1 .. Len(control_queue')
      BY <1>2, <2>3
    <3> QED BY <3>1, <3>2, <3>3
  <2>6. Reported[1] = Event
    BY <1>2, <2>2
  <2> QED BY <1>4, <2>4, <2>5, <2>6
<1> QED BY <1>5, <1>6

\* The Wi-Fi thread of a live run adds its event at the end.
LEMMA EventReported ==
  ASSUME TypeOK, NEW event \in WifiEvents, WifiEvent(event), IsRunning,
         AppState \notin {"STOPPING", "FAILED", "STOPPED"}
  PROVE  \E e \in Entries :
           /\ e.kind = "wifi" /\ e.event = event /\ e.published = Publishes
           /\ Reported \in Seq(Entries)
           /\ Reported' = Append(Reported, e)
           /\ Reported = control_queue
<1> DEFINE e == [kind |-> "wifi", event |-> event, published |-> Publishes]
<1>1. Publishes \in BOOLEAN
  <2>1. Publishes = TRUE \/ Publishes = FALSE
    BY DEF Publishes
  <2> QED BY <2>1
<1>2. e \in Entries /\ e.kind = "wifi" /\ e.event = event /\ e.published = Publishes
  BY <1>1 DEF Entries, WifiEntries
<1>3. /\ wifi' = [pc |-> IF Publishes THEN "publish" ELSE "queue",
                  event |-> event, published |-> Publishes]
      /\ wifi.pc = "idle" /\ control_queue' = control_queue
  BY DEF WifiEvent
<1>4. Reported = control_queue /\ Reported' = Append(control_queue, e)
  BY <1>3 DEF Reported
<1>5. Reported \in Seq(Entries)
  BY ReportedEntries
<1> QED BY <1>2, <1>4, <1>5

\* When it queues the event, nothing is reported or forgotten.
LEMMA QueueReported ==
  ASSUME TypeOK, WifiQueue, IsRunning'
  PROVE  Reported' = Reported
<1>1. control_queue' = Append(control_queue, [kind |-> "wifi", event |-> wifi.event,
                                              published |-> wifi.published])
  BY DEF WifiQueue, Enqueue, PublishExit, IsRunning
<1>2. wifi.pc # "idle" /\ wifi'.pc = "idle"
  BY DEF WifiQueue, NoWifi
<1> QED BY <1>1, <1>2 DEF Reported

\* A key goes to the end of the queue, before the event in hand.
LEMMA KeyReported ==
  ASSUME TypeOK, TypeOK', KeyQueue, IsRunning'
  PROVE  /\ Reported \in Seq(Entries) /\ Reported' \in Seq(Entries)
         /\ \E p \in 1 .. Len(Reported') :
              /\ Reported'[p].kind # "wifi"
              /\ Len(Reported') = Len(Reported) + 1
              /\ \A i \in 1 .. Len(Reported) :
                   Reported[i] = Reported'[IF i < p THEN i ELSE i + 1]
<1> DEFINE k == [kind |-> "key", event |-> key]
           p == Len(control_queue) + 1
           w == [kind |-> "wifi", event |-> wifi.event, published |-> wifi.published]
<1>1. /\ control_queue' = Append(control_queue, k) /\ UNCHANGED wifi
  BY DEF KeyQueue, Enqueue, PublishExit, IsRunning, wifiVars
<1>2. k \in Entries /\ k.kind # "wifi"
  BY DEF KeyQueue, TypeOK, DataTypes, Entries, KeyEntries
<1>3. w \in Entries
  BY DEF TypeOK, DataTypes, Entries, WifiEntries
<1>4. /\ Reported \in Seq(Entries) /\ control_queue \in Seq(Entries)
      /\ control_queue' \in Seq(Entries)
      /\ Len(control_queue) \in Nat
  BY <1>1, <1>2, ReportedEntries
<1>5. Reported' \in Seq(Entries)
  BY <1>3, <1>4, <1>1 DEF Reported
<1>6. CASE wifi.pc = "idle"
  <2>1. Reported = control_queue /\ Reported' = Append(control_queue, k)
    BY <1>1, <1>6 DEF Reported
  <2> HIDE DEF k
  <2>2. /\ p \in 1 .. Len(Reported') /\ Len(Reported') = Len(Reported) + 1
        /\ Reported'[p] = k
        /\ \A i \in 1 .. Len(Reported) : i < p /\ Reported[i] = Reported'[i]
    BY <1>2, <1>4, <2>1
  <2> QED BY <1>2, <1>4, <1>5, <2>2
<1>7. CASE wifi.pc # "idle"
  <2>1. Reported = Append(control_queue, w) /\ Reported' = Append(control_queue', w)
    BY <1>1, <1>7 DEF Reported
  <2> HIDE DEF k, w
  <2>2. /\ Len(control_queue') = p
        /\ control_queue'[p] = k
        /\ \A i \in 1 .. Len(control_queue) : control_queue'[i] = control_queue[i]
    BY <1>1, <1>2, <1>4
  <2>3. /\ Len(Reported) = p /\ Reported[p] = w
        /\ \A i \in 1 .. Len(control_queue) : Reported[i] = control_queue[i]
    BY <1>3, <1>4, <2>1
  <2>4. /\ Len(Reported') = p + 1 /\ Reported'[p + 1] = w
        /\ \A i \in 1 .. p : Reported'[i] = control_queue'[i]
    BY <1>3, <1>4, <2>1, <2>2
  <2>5. \A i \in 1 .. Len(Reported) : i < p => Reported[i] = Reported'[i]
    BY <1>4, <2>2, <2>3, <2>4
  <2>6. \A i \in 1 .. Len(Reported) : ~(i < p) => i = p
    BY <1>4, <2>3
  <2>7. \A i \in 1 .. Len(Reported) : Reported[i] = Reported'[IF i < p THEN i ELSE i + 1]
    BY <2>3, <2>4, <2>5, <2>6
  <2>8. p \in 1 .. Len(Reported') /\ Len(Reported') = Len(Reported) + 1
        /\ Reported'[p] = k
    BY <1>4, <2>2, <2>3, <2>4
  <2> QED BY <1>2, <1>4, <1>5, <2>7, <2>8
<1> QED BY <1>6, <1>7

----------------------------------------------------------------------------
(* The stages of a run, as the application state shows them.               *)

\* A run that is going on is being provisioned, starting its services, or
\* running; it is starting them exactly while the control worker does so, and
\* between two events is never seen in between.
StageInv ==
  /\ control \in {"start_begin", "start_wifi"} => control_queue = <<>>
  /\ control = "start_wifi" => phase = "WIFI_PROVISIONING"
  /\ control = "services_ready" => device_state # "IN_CONVERSATION"
  /\ IsRunning =>
       /\ phase \in {"WIFI_PROVISIONING", "STARTING_SERVICES", "RUNNING"}
       /\ phase = "STARTING_SERVICES" <=> control \in {"services", "services_ready"}
       /\ phase = "WIFI_PROVISIONING" => ~online
       /\ phase = "STARTING_SERVICES" => online

\* A refused event ends the run; otherwise it is as it was.
LEMMA EnqueueRuns ==
  ASSUME NEW entry, Enqueue(entry)
  PROVE  running' /\ ~exit_published' => running /\ ~exit_published
<1>1. CASE Len(control_queue) < QueueCapacity
  BY <1>1, ZenonT(60) DEF Enqueue, exitVars
<1>2. CASE ~(Len(control_queue) < QueueCapacity)
  BY <1>2, ZenonT(60) DEF Enqueue, PublishExit
<1> QED BY <1>1, <1>2

\* Every action keeps the stages.
LEMMA StageStep == TypeOK /\ StopInv /\ StageInv /\ [Next]_vars => StageInv'
<1> SUFFICES ASSUME TypeOK, StopInv, StageInv, [Next]_vars PROVE StageInv'
  OBVIOUS
<1> USE DEF snapshotVars, exitVars, runVars, keyVars, wifiVars, networkVars,
            requestVars, lifecycleVars, deviceVars
<1>1. CASE MybotStart
  BY <1>1 DEF MybotStart, StopInv, StartingUp, Leaving, Finalizing, StageInv, IsRunning
<1>2. CASE MybotStartRefused
  BY <1>2 DEF MybotStartRefused, PublishExit, StopInv, StartingUp, Leaving, Finalizing,
     StageInv, IsRunning
<1>3. CASE MybotStop
  BY <1>3 DEF MybotStop, PublishExit, StopInv, StartingUp, Leaving, Finalizing,
     StageInv, IsRunning
<1>4. CASE StopFails
  BY <1>4 DEF StopFails, StopInv, StartingUp, Leaving, Finalizing, StageInv, IsRunning
<1>5. CASE Stopped
  BY <1>5 DEF Stopped, Released, StopInv, StartingUp, Leaving, Finalizing, StageInv,
     IsRunning
<1>6. CASE ControlStart
  BY <1>6 DEF ControlStart, ToPhase, StopInv, StartingUp, Leaving, Finalizing,
     StageInv, IsRunning
<1>7. CASE ControlStartWifi
  BY <1>7 DEF ControlStartWifi, StopInv, StartingUp, Leaving, Finalizing, StageInv,
     IsRunning
<1>8. CASE ControlStartFails
  BY <1>8 DEF ControlStartFails, ToPhase, PublishExit, StopInv, StartingUp, Leaving,
     Finalizing, StageInv, IsRunning
<1>9. CASE ControlStarted
  BY <1>9 DEF ControlStarted, StopInv, StartingUp, Leaving, Finalizing, StageInv,
     IsRunning
<1>10. CASE FiniBegin
  BY <1>10 DEF FiniBegin, ToPhase, PublishExit, StopInv, StartingUp, Leaving,
     Finalizing, StageInv, IsRunning
<1>11. CASE FiniKey
  BY <1>11 DEF FiniKey, StopInv, StartingUp, Leaving, Finalizing, StageInv, IsRunning
<1>12. CASE FiniServices
  BY <1>12 DEF FiniServices, StopInv, StartingUp, Leaving, Finalizing, StageInv,
     IsRunning
<1>13. CASE FiniWifi
  BY <1>13 DEF FiniWifi, ResetModel, ToPhase, StopInv, StartingUp, Leaving, Finalizing,
     StageInv, IsRunning
<1>14. CASE (\E event \in WifiEvents : WifiEvent(event))
  BY <1>14 DEF WifiEvent, IsRunning, Publishes, ServicesRunStates, StopInv, StartingUp,
     Leaving, Finalizing, StageInv, IsRunning
<1>15. CASE WifiPublish
  BY <1>15 DEF WifiPublish, PublishNetwork, SetNetworkAvailable, StopInv, StartingUp,
     Leaving,
     Finalizing, StageInv, IsRunning
<1>16. CASE WifiQueue
  BY <1>16, EnqueueRuns DEF WifiQueue, StopInv, StartingUp, StageInv, IsRunning
<1>17. CASE (\E event \in Keys : KeyEvent(event))
  BY <1>17 DEF KeyEvent, IsRunning, KeyPasses, StopInv, StartingUp, Leaving,
     Finalizing, StageInv, IsRunning
<1>18. CASE KeyQueue
  BY <1>18, EnqueueRuns DEF KeyQueue, StopInv, StartingUp, StageInv, IsRunning
<1>19. CASE KeyExit
  BY <1>19 DEF KeyExit, PublishExit, StopInv, StartingUp, Leaving, Finalizing,
     StageInv, IsRunning
<1>20. CASE DropEvent
  BY <1>20 DEF DropEvent, Take, IsRunning, StopInv, StartingUp, Leaving, Finalizing,
     StageInv, IsRunning
<1>21. CASE WifiFailedAtStart
  BY <1>21 DEF WifiFailedAtStart, TakeWifi, ToPhase, PublishExit, Take, IsRunning,
     Event, AppState, StageInv, IsRunning
<1>22. CASE WifiLost
  BY <1>22 DEF WifiLost, TakeWifi, Event, PublishLate, SetModelNetwork, Take,
     IsRunning, PublishNetwork, SetNetworkAvailable, AppState, StageInv, IsRunning
<1>23. CASE WifiRestored
  BY <1>23 DEF WifiRestored, TakeWifi, PublishLate, SetModelNetwork, Take, IsRunning,
     Event, PublishNetwork, SetNetworkAvailable, AppState, StageInv, IsRunning
<1>24. CASE WifiFirst
  BY <1>24 DEF WifiFirst, TakeWifi, PublishLate, ToPhase, Take, IsRunning, Event,
     PublishNetwork, SetNetworkAvailable, AppState, StageInv, IsRunning
<1>25. CASE HandleKey
  BY <1>25 DEF HandleKey, Take, IsRunning, Event, StopInv, StartingUp, Leaving,
     Finalizing, StageInv, IsRunning
<1>26. CASE ServicesInit
  BY <1>26 DEF ServicesInit, LifecycleInit, IsRunning, StopInv, StartingUp, Leaving,
     Finalizing,
     StageInv, IsRunning
<1>27. CASE ServicesFail
  BY <1>27 DEF ServicesFail, ToPhase, PublishExit, StopInv, StartingUp, Leaving,
     Finalizing, StageInv, IsRunning
<1>28. CASE ServicesReady
  BY <1>28 DEF ServicesReady, ToPhase, StopInv, StartingUp, Leaving, Finalizing,
     StageInv, IsRunning
<1>29. CASE Ticks \/ Calls \/ Answers
  <2>1. /\ UNCHANGED <<phase, online, running, exit_published, control_queue>>
        /\ \/ UNCHANGED control
           \/ /\ control \in {"idle"} \cup InLifecycle
              /\ control' \in {"idle"} \cup InLifecycle
    BY <1>29, LifecycleMoves DEF Shows
  <2>2. control' = "services_ready" => device_state' = device_state
    BY <1>29, <2>1 DEF Ticks, Calls, Answers, Offline, Pair, Start, Stop, Online, Ready,
       StartCall, StartAccepted, StartAbandoned, Left, Bound, PairAgain, Unbound, Fail,
       ConversationEnded, InLifecycle, Leaving
  <2> QED BY <2>1, <2>2 DEF StageInv, IsRunning, InLifecycle, Leaving
<1>30. CASE UNCHANGED vars
  BY <1>30 DEF vars, StageInv, IsRunning
<1> QED
  BY <1>1, <1>2, <1>3, <1>4, <1>5, <1>6, <1>7, <1>8, <1>9, <1>10, <1>11, <1>12, <1>13,
     <1>14, <1>15, <1>16, <1>17, <1>18, <1>19, <1>20, <1>21, <1>22, <1>23, <1>24,
     <1>25, <1>26, <1>27, <1>28, <1>29, <1>30
  DEF Next, Product, Starting, Fini, WifiThread, KeyThread, Handling, Services

----------------------------------------------------------------------------
(* ModelFollowsLink.                                                       *)

\* What is reported in a run alternates; it ends as the link is, begins with a
\* loss while the application state shows a network, and when there is nothing of
\* it that state is right.
LinkInv ==
  IsRunning =>
    /\ Alternates(Reported)
    /\ IF link = "up" THEN EndsUp(Reported) ELSE EndsDown(Reported)
    /\ online => StartsDown(Reported)
    /\ Silent(Reported) => (phase = "WIFI_PROVISIONING" \/ (online <=> link = "up"))

\* A sequence without entries has every property of a quiet network.
LEMMA NothingReported ==
  /\ Alternates(<<>>) /\ EndsUp(<<>>) /\ EndsDown(<<>>) /\ StartsDown(<<>>)
  /\ Silent(<<>>)
<1>1. DOMAIN <<>> = {}
  OBVIOUS
<1> QED
  BY <1>1, Zenon DEF Alternates, EndsUp, EndsDown, StartsDown, Silent

\* Every action keeps what is reported in step with the link.
LEMMA LinkStep ==
  TypeOK /\ TypeOK' /\ StopInv /\ StageInv /\ LinkInv /\ [Next]_vars => LinkInv'
<1> SUFFICES ASSUME TypeOK, TypeOK', StopInv, StageInv, LinkInv, [Next]_vars
             PROVE  LinkInv'
  OBVIOUS
<1> USE DEF snapshotVars, exitVars, runVars, keyVars, wifiVars, networkVars,
            requestVars, lifecycleVars, deviceVars
<1>1. CASE \/ MybotStart \/ Stopped \/ FiniWifi \/ DropEvent
  <2>1. CASE MybotStart
    BY <2>1 DEF MybotStart, LinkInv, IsRunning
  <2>2. CASE Stopped
    BY <2>2 DEF Stopped, LinkInv, IsRunning, StopInv
  <2>3. CASE FiniWifi
    BY <2>3 DEF FiniWifi, LinkInv, IsRunning, StopInv, Finalizing
  <2>4. CASE DropEvent
    BY <2>4 DEF DropEvent, LinkInv, IsRunning
  <2> QED BY <1>1, <2>1, <2>2, <2>3, <2>4
<1>2. CASE \/ MybotStartRefused \/ MybotStop \/ ControlStartFails \/ FiniBegin
           \/ KeyExit \/ WifiFailedAtStart \/ ServicesFail
  <2>1. exit_published' = TRUE
    BY <1>2 DEF MybotStartRefused, MybotStop, ControlStartFails, FiniBegin, KeyExit,
       WifiFailedAtStart, ServicesFail, PublishExit, ToPhase, TakeWifi, Take,
       IsRunning, Event
  <2> QED BY <2>1 DEF LinkInv, IsRunning
<1>3. CASE \/ StopFails \/ ControlStarted \/ FiniKey \/ FiniServices
           \/ (\E event \in Keys : KeyEvent(event)) \/ ServicesInit
           \/ Ticks \/ Calls \/ Answers
  <2>1. UNCHANGED <<control_queue, wifi, link, phase, online>>
    <3>1. CASE Ticks \/ Calls \/ Answers
      BY <3>1, LifecycleMoves DEF Shows
    <3>2. CASE ~(Ticks \/ Calls \/ Answers)
      BY <1>3, <3>2 DEF StopFails, ControlStarted, FiniKey, FiniServices, KeyEvent,
         ServicesInit, IsRunning, KeyPasses
    <3> QED BY <3>1, <3>2
  <2>2. exit_published' = exit_published /\ (running' => running)
    <3>1. CASE ControlStarted
      BY <3>1, Zenon DEF ControlStarted
    <3>2. CASE Ticks \/ Calls \/ Answers
      BY <3>2, LifecycleMoves DEF Shows
    <3>3. CASE ~(ControlStarted \/ Ticks \/ Calls \/ Answers)
      <4>1. UNCHANGED <<running, exit_published>>
        BY <1>3, <3>3 DEF StopFails, FiniKey, FiniServices, KeyEvent, ServicesInit
      <4> QED BY <4>1
    <3> QED BY <3>1, <3>2, <3>3
  <2>3. Reported' = Reported
    BY <2>1 DEF Reported
  <2> QED BY <2>1, <2>2, <2>3 DEF LinkInv, IsRunning
<1>4. CASE ControlStart
  <2>1. control_queue' = <<>> /\ wifi'.pc = "idle" /\ phase' = "WIFI_PROVISIONING"
        /\ online' = FALSE
    BY <1>4 DEF ControlStart, ToPhase, StageInv, StopInv, StartingUp
  <2>2. Reported' = <<>>
    BY <2>1 DEF Reported
  <2> QED BY <2>1, <2>2, NothingReported DEF LinkInv
<1>5. CASE ControlStartWifi
  <2>1. /\ control_queue' = <<>> /\ wifi'.pc = "idle" /\ phase' = "WIFI_PROVISIONING"
        /\ link' = "unknown"
    BY <1>5 DEF ControlStartWifi, StageInv, StopInv
  <2>2. Reported' = <<>>
    BY <2>1 DEF Reported
  <2> QED BY <2>1, <2>2, NothingReported DEF LinkInv
<1>6. CASE (\E event \in WifiEvents : WifiEvent(event))
  <2> SUFFICES ASSUME NEW event \in WifiEvents, WifiEvent(event), IsRunning'
               PROVE  LinkInv'
    BY <1>6 DEF LinkInv
  <2>1. /\ IsRunning /\ UNCHANGED <<phase, online>>
        /\ link' = IF event = "STA_CONNECTED" THEN "up" ELSE "down"
        /\ event = "STA_CONNECTED" => link # "up"
    BY DEF WifiEvent, IsRunning, Follows
  <2>2. AppState \notin {"STOPPING", "FAILED", "STOPPED"}
    BY <2>1 DEF StageInv, AppState, TypeOK, DataTypes, DeviceStates
  <2>3. PICK e \in Entries :
          /\ e.kind = "wifi" /\ e.event = event
          /\ Reported \in Seq(Entries) /\ Reported' = Append(Reported, e)
    BY <2>1, <2>2, EventReported
  <2>4. /\ Alternates(Reported)
        /\ IF link = "up" THEN EndsUp(Reported) ELSE EndsDown(Reported)
        /\ online => StartsDown(Reported)
        /\ Silent(Reported) => (phase = "WIFI_PROVISIONING" \/ (online <=> link = "up"))
    BY <2>1 DEF LinkInv
  <2>5. CASE event = "STA_CONNECTED"
    <3>1. IsUp(e) /\ link # "up" /\ link' = "up"
      BY <2>1, <2>3, <2>5 DEF IsUp
    <3>2. /\ ~Silent(Reported') /\ Alternates(Reported') /\ EndsUp(Reported')
          /\ ~Silent(Reported) => (StartsDown(Reported) => StartsDown(Reported'))
      BY <2>3, <2>4, <3>1, EventAdded
    <3>3. online => ~Silent(Reported)
      BY <2>1, <2>4, <3>1 DEF StageInv
    <3> QED BY <2>1, <2>4, <3>1, <3>2, <3>3 DEF LinkInv
  <2>6. CASE event # "STA_CONNECTED"
    <3>1. IsDown(e) /\ link' # "up"
      BY <2>1, <2>3, <2>6 DEF IsDown
    <3>2. /\ ~Silent(Reported') /\ Alternates(Reported') /\ EndsDown(Reported')
          /\ StartsDown(Reported) => StartsDown(Reported')
      BY <2>3, <2>4, <3>1, EventAdded
    <3> QED BY <2>1, <2>4, <3>1, <3>2 DEF LinkInv
  <2> QED BY <2>5, <2>6
<1>7. CASE WifiPublish
  <2>1. /\ UNCHANGED <<control_queue, link, phase, online>> /\ IsRunning' = IsRunning
        /\ wifi.pc = "publish" /\ wifi'.pc = "queue"
        /\ wifi'.event = wifi.event /\ wifi'.published = wifi.published
    BY <1>7 DEF WifiPublish, IsRunning, TypeOK, DataTypes
  <2>2. Reported' = Reported
    BY <2>1 DEF Reported
  <2> QED BY <2>1, <2>2 DEF LinkInv
<1>8. CASE WifiQueue
  <2> SUFFICES ASSUME IsRunning' PROVE LinkInv'
    BY DEF LinkInv
  <2>1. UNCHANGED <<link, phase, online>>
    BY <1>8 DEF WifiQueue
  <2>2. IsRunning
    BY <1>8, EnqueueRuns DEF WifiQueue, IsRunning
  <2>3. Reported' = Reported
    BY <1>8, QueueReported
  <2> QED BY <2>1, <2>2, <2>3 DEF LinkInv
<1>9. CASE KeyQueue
  <2> SUFFICES ASSUME IsRunning' PROVE LinkInv'
    BY DEF LinkInv
  <2>1. UNCHANGED <<link, phase, online>>
    BY <1>9 DEF KeyQueue
  <2>2. IsRunning
    BY <1>9, EnqueueRuns DEF KeyQueue, IsRunning
  <2>3. PICK p \in 1 .. Len(Reported') :
          /\ Reported'[p].kind # "wifi"
          /\ Len(Reported') = Len(Reported) + 1
          /\ \A i \in 1 .. Len(Reported) :
               Reported[i] = Reported'[IF i < p THEN i ELSE i + 1]
    BY <1>9, KeyReported
  <2>4. Reported \in Seq(Entries) /\ Reported' \in Seq(Entries)
    BY <1>9, KeyReported
  <2>5. /\ Alternates(Reported) => Alternates(Reported')
        /\ EndsUp(Reported) => EndsUp(Reported')
        /\ EndsDown(Reported) => EndsDown(Reported')
        /\ StartsDown(Reported) => StartsDown(Reported')
        /\ Silent(Reported) <=> Silent(Reported')
    BY <2>3, <2>4, KeyAmongThem
  <2> QED BY <2>1, <2>2, <2>5 DEF LinkInv
<1>10. CASE WifiLost
  <2>1. /\ Take /\ UNCHANGED <<wifi, link, phase>> /\ IsRunning /\ IsRunning'
        /\ IsDown(Event)
        /\ AppState # "WIFI_DISCONNECTED" => SetModelNetwork(FALSE)
        /\ AppState = "WIFI_DISCONNECTED" => online' = online
    BY <1>10 DEF WifiLost, TakeWifi, IsRunning, IsDown, SetModelNetwork
  <2>2. /\ Alternates(Reported) => Alternates(Reported')
        /\ EndsUp(Reported) => EndsUp(Reported')
        /\ EndsDown(Reported) => EndsDown(Reported')
        /\ StartsDown(Reported) /\ ~IsDown(Event) => StartsDown(Reported')
        /\ Alternates(Reported) /\ IsUp(Event) => StartsDown(Reported')
        /\ EndsDown(Reported) /\ IsUp(Event) => ~Silent(Reported')
        /\ EndsUp(Reported) /\ IsDown(Event) => ~Silent(Reported')
        /\ Event.kind # "wifi" => (Silent(Reported) <=> Silent(Reported'))
        /\ StartsDown(Reported) => ~IsUp(Event)
    BY <2>1, TakeReported, FirstTaken
  <2>3. /\ Alternates(Reported)
        /\ IF link = "up" THEN EndsUp(Reported) ELSE EndsDown(Reported)
        /\ online => StartsDown(Reported)
    BY <2>1 DEF LinkInv
  <2>4. phase = "RUNNING" \/ phase = "WIFI_PROVISIONING"
    BY <2>1 DEF StageInv, Take
  <2>5. online' = FALSE
    <3>1. CASE AppState = "WIFI_DISCONNECTED"
      BY <2>1, <2>4, <3>1 DEF StageInv, AppState, TypeOK, FlagTypes, DataTypes, DeviceStates
    <3>2. CASE AppState # "WIFI_DISCONNECTED"
      BY <2>1, <2>4, <3>2 DEF StageInv, SetModelNetwork, TypeOK, FlagTypes
    <3> QED BY <3>1, <3>2
  <2> QED BY <2>1, <2>2, <2>3, <2>4, <2>5 DEF LinkInv
<1>11. CASE WifiRestored
  <2>1. /\ Take /\ UNCHANGED <<wifi, link, phase>> /\ IsRunning /\ IsRunning'
        /\ IsUp(Event) /\ online' = TRUE
    BY <1>11 DEF WifiRestored, TakeWifi, IsRunning, IsUp, SetModelNetwork, AppState, TypeOK,
         DataTypes, Phases
  <2>2. /\ Alternates(Reported) => Alternates(Reported')
        /\ EndsUp(Reported) => EndsUp(Reported')
        /\ EndsDown(Reported) => EndsDown(Reported')
        /\ StartsDown(Reported) /\ ~IsDown(Event) => StartsDown(Reported')
        /\ Alternates(Reported) /\ IsUp(Event) => StartsDown(Reported')
        /\ EndsDown(Reported) /\ IsUp(Event) => ~Silent(Reported')
        /\ EndsUp(Reported) /\ IsDown(Event) => ~Silent(Reported')
        /\ Event.kind # "wifi" => (Silent(Reported) <=> Silent(Reported'))
        /\ StartsDown(Reported) => ~IsUp(Event)
    BY <2>1, TakeReported, FirstTaken
  <2>3. /\ Alternates(Reported)
        /\ IF link = "up" THEN EndsUp(Reported) ELSE EndsDown(Reported)
        /\ online => StartsDown(Reported)
    BY <2>1 DEF LinkInv
  <2> QED BY <2>1, <2>2, <2>3 DEF LinkInv
<1>12. CASE WifiFirst
  <2>1. /\ Take /\ UNCHANGED <<wifi, link>> /\ IsRunning /\ IsRunning'
        /\ IsUp(Event)
        /\ phase = "WIFI_PROVISIONING" => phase' = "STARTING_SERVICES" /\ online' = TRUE
        /\ phase # "WIFI_PROVISIONING" => phase' = phase /\ online' = online
        /\ phase = "RUNNING" => online
    BY <1>12 DEF WifiFirst, TakeWifi, IsRunning, IsUp, ToPhase, AppState
  <2>2. /\ Alternates(Reported) => Alternates(Reported')
        /\ EndsUp(Reported) => EndsUp(Reported')
        /\ EndsDown(Reported) => EndsDown(Reported')
        /\ StartsDown(Reported) /\ ~IsDown(Event) => StartsDown(Reported')
        /\ Alternates(Reported) /\ IsUp(Event) => StartsDown(Reported')
        /\ EndsDown(Reported) /\ IsUp(Event) => ~Silent(Reported')
        /\ EndsUp(Reported) /\ IsDown(Event) => ~Silent(Reported')
        /\ Event.kind # "wifi" => (Silent(Reported) <=> Silent(Reported'))
        /\ StartsDown(Reported) => ~IsUp(Event)
    BY <2>1, TakeReported, FirstTaken
  <2>3. /\ Alternates(Reported)
        /\ IF link = "up" THEN EndsUp(Reported) ELSE EndsDown(Reported)
        /\ online => StartsDown(Reported)
    BY <2>1 DEF LinkInv
  <2>4. ~online
    BY <2>2, <2>3, <2>1
  <2>5. phase = "WIFI_PROVISIONING"
    BY <2>1, <2>4 DEF StageInv, Take
  <2> QED BY <2>1, <2>2, <2>3, <2>5 DEF LinkInv
<1>13. CASE HandleKey
  <2>1. /\ Take /\ UNCHANGED <<wifi, link, phase, online>> /\ IsRunning /\ IsRunning'
        /\ Event.kind # "wifi"
    BY <1>13 DEF HandleKey, IsRunning
  <2>2. /\ Alternates(Reported) => Alternates(Reported')
        /\ EndsUp(Reported) => EndsUp(Reported')
        /\ EndsDown(Reported) => EndsDown(Reported')
        /\ StartsDown(Reported) /\ ~IsDown(Event) => StartsDown(Reported')
        /\ Alternates(Reported) /\ IsUp(Event) => StartsDown(Reported')
        /\ EndsDown(Reported) /\ IsUp(Event) => ~Silent(Reported')
        /\ EndsUp(Reported) /\ IsDown(Event) => ~Silent(Reported')
        /\ Event.kind # "wifi" => (Silent(Reported) <=> Silent(Reported'))
        /\ StartsDown(Reported) => ~IsUp(Event)
    BY <2>1, TakeReported, FirstTaken
  <2>3. ~IsDown(Event)
    BY <2>1 DEF IsDown
  <2> QED BY <2>1, <2>2, <2>3 DEF LinkInv
<1>14. CASE ServicesReady
  <2>1. /\ UNCHANGED <<control_queue, wifi, link>> /\ IsRunning' = IsRunning
        /\ phase' = "RUNNING" /\ online' = TRUE /\ control = "services_ready"
    BY <1>14 DEF ServicesReady, ToPhase, IsRunning
  <2>2. IsRunning => phase = "STARTING_SERVICES" /\ online = TRUE
    BY <2>1 DEF StageInv, TypeOK, FlagTypes
  <2>3. Reported' = Reported
    BY <2>1 DEF Reported
  <2> QED BY <2>1, <2>2, <2>3 DEF LinkInv
<1>15. CASE UNCHANGED vars
  BY <1>15 DEF vars, LinkInv, IsRunning, Reported
<1> QED
  BY <1>1, <1>2, <1>3, <1>4, <1>5, <1>6, <1>7, <1>8, <1>9, <1>10, <1>11, <1>12, <1>13,
     <1>14, <1>15
  DEF Next, Product, Starting, Fini, WifiThread, KeyThread, Handling, Services

\* ModelFollowsLink: once every event is handled, the application state tells
\* whether the network is usable, whatever was reported while the services were
\* starting and in whatever order keys and events reached the queue.
THEOREM StateFollowsLink == Spec => []ModelFollowsLink
<1>1. Init => StopInv /\ StageInv /\ LinkInv
  BY DEF Init, NoMemory, StopInv, StageInv, LinkInv, IsRunning, StartingUp, Finalizing,
     NoWifi
<1>2. LinkInv => ModelFollowsLink
  BY DEF LinkInv, ModelFollowsLink, WifiSettled, Reported, Silent
<1> QED
  BY <1>1, <1>2, TypeCorrect, StopStep, StageStep, LinkStep, PTL DEF Spec

----------------------------------------------------------------------------
(* ShownConversationIsLive.                                                *)

\* A conversation that a live run shows is one the lifecycle is in, and if its
\* network was lost, the loss has not been heard yet: a loss that the lifecycle has
\* already consumed is still in the queue or in the hands of the Wi-Fi thread.
ShownInv ==
  IsRunning /\ shown = "IN_CONVERSATION" =>
    /\ device_state = "IN_CONVERSATION"
    /\ phase = "RUNNING" /\ online /\ ~conversation_current => ~Silent(Reported)

\* Every action keeps what is shown live.
LEMMA ShownStep ==
  TypeOK /\ TypeOK' /\ StopInv /\ StageInv /\ LinkInv /\ ShownInv /\ [Next]_vars
    => ShownInv'
<1> SUFFICES ASSUME TypeOK, TypeOK', StopInv, StageInv, LinkInv, ShownInv, [Next]_vars
             PROVE  ShownInv'
  OBVIOUS
<1> USE DEF snapshotVars, exitVars, runVars, keyVars, wifiVars, networkVars,
            requestVars, lifecycleVars, deviceVars
<1>1. CASE \/ MybotStart \/ Stopped \/ FiniWifi \/ DropEvent \/ FiniServices
  <2>1. CASE MybotStart
    BY <2>1 DEF MybotStart, ShownInv, IsRunning
  <2>2. CASE Stopped
    BY <2>2 DEF Stopped, ShownInv, IsRunning, StopInv
  <2>3. CASE FiniWifi
    BY <2>3 DEF FiniWifi, ShownInv, IsRunning, StopInv, Finalizing
  <2>4. CASE DropEvent
    BY <2>4 DEF DropEvent, ShownInv, IsRunning
  <2>5. CASE FiniServices
    BY <2>5 DEF FiniServices, ShownInv, IsRunning, StopInv, Finalizing
  <2> QED BY <1>1, <2>1, <2>2, <2>3, <2>4, <2>5
<1>2. CASE \/ MybotStartRefused \/ MybotStop \/ ControlStartFails \/ FiniBegin
           \/ KeyExit \/ WifiFailedAtStart \/ ServicesFail
  <2>1. exit_published' = TRUE
    BY <1>2 DEF MybotStartRefused, MybotStop, ControlStartFails, FiniBegin, KeyExit,
       WifiFailedAtStart, ServicesFail, PublishExit, ToPhase, TakeWifi, Take,
       IsRunning, Event
  <2> QED BY <2>1 DEF ShownInv, IsRunning
<1>3. CASE \/ StopFails \/ ControlStartWifi \/ FiniKey
           \/ (\E event \in Keys : KeyEvent(event))
  <2>1. UNCHANGED <<control_queue, wifi, phase, online, shown, device_state,
                    conversation_current>>
    BY <1>3 DEF StopFails, ControlStartWifi, FiniKey, KeyEvent
  <2>2. UNCHANGED <<running, exit_published>>
    BY <1>3 DEF StopFails, ControlStartWifi, FiniKey, KeyEvent
  <2>3. Reported' = Reported
    BY <2>1 DEF Reported
  <2> QED BY <2>1, <2>2, <2>3 DEF ShownInv, IsRunning
<1>4. CASE ControlStarted
  <2>1. UNCHANGED <<control_queue, wifi, phase, online, shown, device_state,
                    conversation_current>>
    BY <1>4 DEF ControlStarted
  <2>2. exit_published' = exit_published /\ (running' => running)
    BY <1>4, Zenon DEF ControlStarted
  <2>3. Reported' = Reported
    BY <2>1 DEF Reported
  <2> QED BY <2>1, <2>2, <2>3 DEF ShownInv, IsRunning
<1>5. CASE ControlStart
  <2>1. shown' = "PAIRING"
    BY <1>5 DEF ControlStart
  <2> QED BY <2>1 DEF ShownInv
<1>6. CASE (\E event \in WifiEvents : WifiEvent(event))
  <2> SUFFICES ASSUME NEW event \in WifiEvents, WifiEvent(event), IsRunning'
               PROVE  ShownInv'
    BY <1>6 DEF ShownInv
  <2>1. IsRunning /\ UNCHANGED <<phase, online, shown, device_state, conversation_current>>
    BY DEF WifiEvent, IsRunning
  <2>2. AppState \notin {"STOPPING", "FAILED", "STOPPED"}
    BY <2>1 DEF StageInv, AppState, TypeOK, DataTypes, DeviceStates
  <2>3. PICK e \in Entries :
          /\ e.kind = "wifi" /\ e.event = event
          /\ Reported \in Seq(Entries) /\ Reported' = Append(Reported, e)
    BY <2>1, <2>2, EventReported
  <2>4. Alternates(Reported)
    BY <2>1 DEF LinkInv
  <2>5. ~Silent(Reported')
    BY <2>3, <2>4, EventAdded
  <2> QED BY <2>1, <2>5 DEF ShownInv
<1>7. CASE WifiPublish
  <2>1. /\ UNCHANGED <<control_queue, phase, online, shown, device_state>>
        /\ IsRunning' = IsRunning
        /\ wifi.pc = "publish" /\ wifi'.pc = "queue"
        /\ wifi'.event = wifi.event /\ wifi'.published = wifi.published
    BY <1>7 DEF WifiPublish, IsRunning, TypeOK, DataTypes
  <2>2. Reported' = Reported
    BY <2>1 DEF Reported
  <2>3. Len(Reported) \in DOMAIN Reported /\ Reported[Len(Reported)].kind = "wifi"
    BY <2>1, ReportedEntries
  <2>4. ~Silent(Reported')
    BY <2>2, <2>3 DEF Silent
  <2> QED BY <2>1, <2>4 DEF ShownInv
<1>8. CASE WifiQueue
  <2> SUFFICES ASSUME IsRunning' PROVE ShownInv'
    BY DEF ShownInv
  <2>1. UNCHANGED <<phase, online, shown, device_state, conversation_current>>
    BY <1>8 DEF WifiQueue
  <2>2. IsRunning
    BY <1>8, EnqueueRuns DEF WifiQueue, IsRunning
  <2>3. Reported' = Reported
    BY <1>8, QueueReported
  <2> QED BY <2>1, <2>2, <2>3 DEF ShownInv
<1>9. CASE KeyQueue
  <2> SUFFICES ASSUME IsRunning' PROVE ShownInv'
    BY DEF ShownInv
  <2>1. UNCHANGED <<phase, online, shown, device_state, conversation_current>>
    BY <1>9 DEF KeyQueue
  <2>2. IsRunning
    BY <1>9, EnqueueRuns DEF KeyQueue, IsRunning
  <2>3. PICK p \in 1 .. Len(Reported') :
          /\ Reported'[p].kind # "wifi"
          /\ Len(Reported') = Len(Reported) + 1
          /\ \A i \in 1 .. Len(Reported) :
               Reported[i] = Reported'[IF i < p THEN i ELSE i + 1]
    BY <1>9, KeyReported
  <2>4. Reported \in Seq(Entries) /\ Reported' \in Seq(Entries)
    BY <1>9, KeyReported
  <2>5. Silent(Reported) <=> Silent(Reported')
    BY <2>3, <2>4, KeyAmongThem
  <2> QED BY <2>1, <2>2, <2>5 DEF ShownInv
<1>10. CASE WifiLost
  <2>1. /\ UNCHANGED <<phase, device_state>> /\ IsRunning
        /\ AppState # "WIFI_DISCONNECTED" => SetModelNetwork(FALSE)
        /\ AppState = "WIFI_DISCONNECTED" => UNCHANGED <<online, shown>>
    BY <1>10 DEF WifiLost, TakeWifi, IsRunning, SetModelNetwork
  <2>2. CASE AppState = "WIFI_DISCONNECTED"
    <3>1. online' = FALSE
      BY <2>1, <2>2 DEF StageInv, AppState, TypeOK, FlagTypes, DataTypes, DeviceStates
    <3> QED BY <2>1, <2>2, <3>1 DEF ShownInv
  <2>3. CASE AppState # "WIFI_DISCONNECTED"
    <3>1. shown' = "IN_CONVERSATION" => shown = "IN_CONVERSATION" /\ phase' # "RUNNING"
      BY <2>1, <2>3 DEF SetModelNetwork
    <3> QED BY <2>1, <3>1 DEF ShownInv
  <2> QED BY <2>2, <2>3
<1>11. CASE WifiRestored
  <2>1. SetModelNetwork(TRUE) /\ phase = "RUNNING"
    BY <1>11 DEF WifiRestored, AppState, TypeOK, DataTypes, Phases
  <2>2. shown' # "IN_CONVERSATION"
    BY <2>1 DEF SetModelNetwork
  <2> QED BY <2>2 DEF ShownInv
<1>12. CASE WifiFirst
  <2>1. /\ Take /\ UNCHANGED <<wifi, shown, device_state>> /\ IsRunning
        /\ IsUp(Event)
        /\ phase = "WIFI_PROVISIONING" => phase' = "STARTING_SERVICES"
        /\ phase # "WIFI_PROVISIONING" => phase' = phase
        /\ phase = "RUNNING" => online
    BY <1>12 DEF WifiFirst, TakeWifi, IsRunning, IsUp, ToPhase, AppState
  <2>2. StartsDown(Reported) => ~IsUp(Event)
    BY <2>1, TakeReported, FirstTaken
  <2>3. phase' # "RUNNING"
    BY <2>1, <2>2 DEF LinkInv
  <2> QED BY <2>1, <2>3 DEF ShownInv
<1>13. CASE HandleKey
  <2>1. /\ Take
        /\ UNCHANGED <<wifi, phase, online, shown, device_state, conversation_current>>
        /\ IsRunning /\ Event.kind # "wifi"
    BY <1>13 DEF HandleKey, IsRunning
  <2>2. Silent(Reported) <=> Silent(Reported')
    BY <2>1, TakeReported, FirstTaken
  <2> QED BY <2>1, <2>2 DEF ShownInv
<1>14. CASE ServicesInit
  <2>1. /\ device_state' \in {"PAIRING", "RUNTIME"} /\ UNCHANGED exitVars
        /\ shown' = IF IsRunning THEN device_state' ELSE shown
    BY <1>14 DEF ServicesInit, LifecycleInit
  <2> QED BY <2>1 DEF ShownInv, IsRunning
<1>15. CASE ServicesReady
  <2>1. UNCHANGED <<shown, exitVars>> /\ control = "services_ready"
    BY <1>15 DEF ServicesReady
  <2> QED BY <2>1 DEF ShownInv, StageInv, IsRunning
<1>16. CASE Ticks \/ Calls \/ Answers
  <2>1. Shows
    BY <1>16, LifecycleMoves
  <2>2. Reported' = Reported /\ UNCHANGED <<running, exit_published, phase, online>>
    BY <2>1 DEF Shows, Reported
  <2>3. CASE device_state' = device_state
    <3>1. UNCHANGED shown /\ (conversation_current => conversation_current')
      BY <2>1, <2>3, Zenon DEF Shows
    <3> QED BY <2>2, <2>3, <3>1 DEF ShownInv, IsRunning
  <2>4. CASE device_state' # device_state
    <3>1. /\ IsRunning => shown' = device_state'
          /\ device_state' = "IN_CONVERSATION" => conversation_current'
      BY <2>1, <2>4, Zenon DEF Shows
    <3> QED BY <2>2, <3>1 DEF ShownInv, IsRunning
  <2> QED BY <2>3, <2>4
<1>17. CASE UNCHANGED vars
  BY <1>17 DEF vars, ShownInv, IsRunning, Reported
<1> QED
  BY <1>1, <1>2, <1>3, <1>4, <1>5, <1>6, <1>7, <1>8, <1>9, <1>10, <1>11, <1>12, <1>13,
     <1>14, <1>15, <1>16, <1>17
  DEF Next, Product, Starting, Fini, WifiThread, KeyThread, Handling, Services

\* ShownConversationIsLive: a conversation on display is one the lifecycle is in,
\* over a network that has not been lost since it was asked for, unless the loss
\* is still to be handled.
THEOREM ShownIsLive == Spec => []ShownConversationIsLive
<1>1. Init => StopInv /\ StageInv /\ LinkInv /\ ShownInv
  BY DEF Init, NoMemory, StopInv, StageInv, LinkInv, ShownInv, IsRunning, StartingUp,
     Finalizing,
     NoWifi
<1>2. TypeOK /\ ShownInv => ShownConversationIsLive
  <2> SUFFICES ASSUME TypeOK, ShownInv, IsRunning, AppState = "IN_CONVERSATION"
               PROVE  device_state = "IN_CONVERSATION" /\ (conversation_current \/ LossOnItsWay)
    BY DEF ShownConversationIsLive
  <2>1. shown = "IN_CONVERSATION" /\ phase = "RUNNING" /\ online
    BY DEF AppState, TypeOK, DataTypes, Phases
  <2>2. CASE wifi.pc = "idle"
    BY <2>1, <2>2 DEF ShownInv, LossOnItsWay, Reported, Silent
  <2>3. CASE wifi.pc # "idle"
    BY <2>1, <2>3 DEF ShownInv, LossOnItsWay
  <2> QED BY <2>2, <2>3
<1> QED
  BY <1>1, <1>2, TypeCorrect, StopStep, StageStep, LinkStep, ShownStep, PTL DEF Spec

----------------------------------------------------------------------------
(* NetworkFollowsQuietLink: the link does not change before the services   *)
(* run.                                                                    *)

AtMostOneEvent(s) ==
  \A i \in DOMAIN s : \A k \in DOMAIN s :
    s[i].kind = "wifi" /\ s[k].kind = "wifi" => i = k

AllPublished(s) == \A i \in DOMAIN s : s[i].kind = "wifi" => s[i].published

\* The first connection is the only event that the Wi-Fi thread leaves to the control
\* worker, and it is heard before the services start; from then on every event has
\* been published, and what the lifecycle knows is what was published last.
NetInv ==
  IsRunning =>
    /\ phase = "WIFI_PROVISIONING" =>
         /\ wifi.pc # "publish"
         /\ link = "unknown" => Silent(Reported)
         /\ AtMostOneEvent(Reported)
    /\ phase = "STARTING_SERVICES" => Silent(Reported)
    /\ control = "services_ready" => network_available
    /\ phase = "RUNNING" =>
         /\ AllPublished(Reported)
         /\ wifi.pc # "publish" => (network_available <=> link = "up")

\* Taking the first entry.
LEMMA OneTaken ==
  ASSUME NEW E, NEW s \in Seq(E), NEW t \in Seq(E),
         Len(s) = Len(t) + 1, \A i \in 1 .. Len(t) : t[i] = s[i + 1]
  PROVE  /\ AtMostOneEvent(s) => AtMostOneEvent(t)
         /\ AtMostOneEvent(s) /\ s[1].kind = "wifi" => Silent(t)
         /\ AllPublished(s) => AllPublished(t)
         /\ AllPublished(s) /\ s[1].kind = "wifi" => s[1].published
         /\ Silent(s) => s[1].kind # "wifi" /\ Silent(t)
<1>1. /\ DOMAIN s = 1 .. Len(s) /\ DOMAIN t = 1 .. Len(t)
      /\ Len(t) \in Nat /\ 1 \in DOMAIN s
  OBVIOUS
<1>2. \A i \in DOMAIN t : i + 1 \in DOMAIN s /\ s[i + 1] = t[i] /\ i + 1 # 1
  BY <1>1
<1>3. \A i, k \in DOMAIN t : i + 1 = k + 1 => i = k
  BY <1>1
<1>4. AtMostOneEvent(s) => AtMostOneEvent(t)
  BY <1>2, <1>3 DEF AtMostOneEvent
<1>5. AtMostOneEvent(s) /\ s[1].kind = "wifi" => Silent(t)
  BY <1>1, <1>2 DEF AtMostOneEvent, Silent
<1>6. AllPublished(s) => AllPublished(t)
  BY <1>2, Zenon DEF AllPublished
<1>7. AllPublished(s) /\ s[1].kind = "wifi" => s[1].published
  BY <1>1, Zenon DEF AllPublished
<1>8. Silent(s) => s[1].kind # "wifi" /\ Silent(t)
  BY <1>1, <1>2 DEF Silent
<1> QED BY <1>4, <1>5, <1>6, <1>7, <1>8

\* Adding an event.
LEMMA OneAdded ==
  ASSUME NEW E, NEW s \in Seq(E), NEW e \in E
  PROVE  /\ Silent(s) => AtMostOneEvent(Append(s, e))
         /\ AllPublished(s) /\ e.published => AllPublished(Append(s, e))
<1> DEFINE t == Append(s, e)
           n == Len(s) + 1
<1>1. /\ DOMAIN s = 1 .. Len(s) /\ DOMAIN t = 1 .. n
      /\ Len(s) \in Nat /\ n \in DOMAIN t /\ t[n] = e
      /\ \A j \in DOMAIN t : j = n \/ (j \in DOMAIN s /\ t[j] = s[j])
  OBVIOUS
<1> HIDE DEF t, n
<1>2. Silent(s) => AtMostOneEvent(t)
  BY <1>1 DEF Silent, AtMostOneEvent
<1>3. AllPublished(s) /\ e.published => AllPublished(t)
  BY <1>1, Zenon DEF AllPublished
<1> QED BY <1>2, <1>3 DEF t

\* A key among the events.
LEMMA KeyAmongOne ==
  ASSUME NEW E, NEW s \in Seq(E), NEW t \in Seq(E), NEW p \in 1 .. Len(t),
         Len(t) = Len(s) + 1, t[p].kind # "wifi",
         \A i \in 1 .. Len(s) : s[i] = t[IF i < p THEN i ELSE i + 1]
  PROVE  /\ AtMostOneEvent(s) => AtMostOneEvent(t)
         /\ AllPublished(s) => AllPublished(t)
<1> DEFINE g(k) == IF k < p THEN k ELSE k - 1
<1>1. /\ DOMAIN s = 1 .. Len(s) /\ DOMAIN t = 1 .. Len(t)
      /\ Len(s) \in Nat /\ Len(t) \in Nat /\ p \in Nat
  OBVIOUS
<1>2. \A k \in DOMAIN t : k # p => g(k) \in DOMAIN s /\ s[g(k)] = t[k]
  BY <1>1
<1>3. \A i, k \in DOMAIN t : i # p /\ k # p /\ g(i) = g(k) => i = k
  BY <1>1
<1> HIDE DEF g
<1>4. AtMostOneEvent(s) => AtMostOneEvent(t)
  BY <1>2, <1>3 DEF AtMostOneEvent
<1>5. AllPublished(s) => AllPublished(t)
  BY <1>2, Zenon DEF AllPublished
<1> QED BY <1>4, <1>5

\* Every action keeps the lifecycle in step with what was published.
LEMMA NetStep ==
  ASSUME runs \in QuietStarts
  PROVE  TypeOK /\ TypeOK' /\ StopInv /\ StageInv /\ LinkInv /\ NetInv /\ [Next]_vars
           => NetInv'
<1> SUFFICES ASSUME TypeOK, TypeOK', StopInv, StageInv, LinkInv, NetInv, [Next]_vars
             PROVE  NetInv'
  OBVIOUS
<1> USE DEF snapshotVars, exitVars, runVars, keyVars, wifiVars, networkVars,
            requestVars, lifecycleVars, deviceVars
<1>1. CASE \/ MybotStart \/ Stopped \/ FiniWifi \/ DropEvent
  <2>1. CASE MybotStart
    BY <2>1 DEF MybotStart, NetInv, IsRunning
  <2>2. CASE Stopped
    BY <2>2 DEF Stopped, NetInv, IsRunning, StopInv
  <2>3. CASE FiniWifi
    BY <2>3 DEF FiniWifi, NetInv, IsRunning, StopInv, Finalizing
  <2>4. CASE DropEvent
    BY <2>4 DEF DropEvent, NetInv, IsRunning
  <2> QED BY <1>1, <2>1, <2>2, <2>3, <2>4
<1>2. CASE \/ MybotStartRefused \/ MybotStop \/ ControlStartFails \/ FiniBegin
           \/ KeyExit \/ WifiFailedAtStart \/ ServicesFail
  <2>1. exit_published' = TRUE
    BY <1>2 DEF MybotStartRefused, MybotStop, ControlStartFails, FiniBegin, KeyExit,
       WifiFailedAtStart, ServicesFail, PublishExit, ToPhase, TakeWifi, Take,
       IsRunning, Event
  <2> QED BY <2>1 DEF NetInv, IsRunning
<1>3. CASE Ticks \/ Calls \/ Answers
  <2>1. UNCHANGED <<control_queue, wifi, link, phase, network_available, running,
                    exit_published>>
    BY <1>3, LifecycleMoves DEF Shows
  <2>2. control' = "services_ready" => control = "services_ready"
    BY <1>3, LifecycleMoves DEF InLifecycle, Leaving
  <2>3. Reported' = Reported
    BY <2>1 DEF Reported
  <2> QED BY <2>1, <2>2, <2>3 DEF NetInv, IsRunning
<1>18. CASE StopFails \/ FiniKey \/ (\E event \in Keys : KeyEvent(event))
  <2>1. UNCHANGED <<control_queue, wifi, link, phase, network_available>>
    BY <1>18 DEF StopFails, FiniKey, KeyEvent
  <2>2. UNCHANGED <<running, exit_published>>
    BY <1>18 DEF StopFails, FiniKey, KeyEvent
  <2>3. control' = "services_ready" => control = "services_ready"
    BY <1>18 DEF StopFails, FiniKey, KeyEvent
  <2>4. Reported' = Reported
    BY <2>1 DEF Reported
  <2> QED BY <2>1, <2>2, <2>3, <2>4 DEF NetInv, IsRunning
<1>19. CASE FiniServices
  <2>1. ~IsRunning'
    BY <1>19 DEF FiniServices, IsRunning, StopInv, Finalizing
  <2> QED BY <2>1 DEF NetInv
<1>4. CASE ControlStarted
  <2>1. /\ UNCHANGED <<control_queue, wifi, link, phase, network_available>>
        /\ control' = "idle"
    BY <1>4 DEF ControlStarted
  <2>2. exit_published' = exit_published /\ (running' => running)
    BY <1>4, Zenon DEF ControlStarted
  <2>3. Reported' = Reported
    BY <2>1 DEF Reported
  <2> QED BY <2>1, <2>2, <2>3 DEF NetInv, IsRunning
<1>5. CASE ControlStart
  <2>1. /\ control_queue' = <<>> /\ wifi'.pc = "idle" /\ phase' = "WIFI_PROVISIONING"
        /\ control' = "start_wifi"
    BY <1>5 DEF ControlStart, ToPhase, StageInv, StopInv, StartingUp
  <2>2. Reported' = <<>>
    BY <2>1 DEF Reported
  <2>3. Silent(Reported') /\ AtMostOneEvent(Reported')
    <3>1. DOMAIN <<>> = {}
      OBVIOUS
    <3> QED BY <2>2, <3>1, Zenon DEF Silent, AtMostOneEvent
  <2> QED BY <2>1, <2>3 DEF NetInv
<1>6. CASE ControlStartWifi
  <2>1. /\ control_queue' = <<>> /\ wifi'.pc = "idle" /\ phase' = "WIFI_PROVISIONING"
        /\ control' = "start_check"
    BY <1>6 DEF ControlStartWifi, StageInv, StopInv
  <2>2. Reported' = <<>>
    BY <2>1 DEF Reported
  <2>3. Silent(Reported') /\ AtMostOneEvent(Reported')
    <3>1. DOMAIN <<>> = {}
      OBVIOUS
    <3> QED BY <2>2, <3>1, Zenon DEF Silent, AtMostOneEvent
  <2> QED BY <2>1, <2>3 DEF NetInv
<1>7. CASE (\E event \in WifiEvents : WifiEvent(event))
  <2> SUFFICES ASSUME NEW event \in WifiEvents, WifiEvent(event), IsRunning'
               PROVE  NetInv'
    BY <1>7 DEF NetInv
  <2>1. /\ IsRunning /\ UNCHANGED <<phase, online, network_available, control>>
        /\ link' # "unknown"
        /\ link = "unknown" \/ phase \notin {"WIFI_PROVISIONING", "STARTING_SERVICES"}
    BY DEF WifiEvent, IsRunning
  <2>2. AppState \notin {"STOPPING", "FAILED", "STOPPED"}
    BY <2>1 DEF StageInv, AppState, TypeOK, DataTypes, DeviceStates
  <2>3. PICK e \in Entries :
          /\ e.kind = "wifi" /\ e.event = event /\ e.published = Publishes
          /\ Reported \in Seq(Entries) /\ Reported' = Append(Reported, e)
    BY <2>1, <2>2, EventReported
  <2>4. wifi'.pc = IF Publishes THEN "publish" ELSE "queue"
    BY <2>1, <2>2 DEF WifiEvent
  <2>5. CASE phase = "WIFI_PROVISIONING"
    <3>1. ~Publishes
      BY <2>5 DEF Publishes, AppState, ServicesRunStates
    <3>2. Silent(Reported)
      BY <2>1, <2>5 DEF NetInv
    <3>3. AtMostOneEvent(Reported')
      BY <2>3, <3>2, OneAdded
    <3>4. control # "services_ready"
      BY <2>1, <2>5 DEF StageInv
    <3> QED BY <2>1, <2>4, <2>5, <3>1, <3>3, <3>4 DEF NetInv
  <2>6. CASE phase = "RUNNING"
    <3>1. Publishes
      BY <2>6 DEF Publishes, AppState, ServicesRunStates, TypeOK, DataTypes, DeviceStates
    <3>2. AllPublished(Reported)
      BY <2>1, <2>6 DEF NetInv
    <3>3. AllPublished(Reported')
      BY <2>3, <3>1, <3>2, OneAdded
    <3>4. control # "services_ready"
      BY <2>1, <2>6 DEF StageInv
    <3> QED BY <2>1, <2>4, <2>6, <3>1, <3>3, <3>4 DEF NetInv
  <2>7. CASE phase = "STARTING_SERVICES"
    <3>1. Silent(Reported) /\ online
      BY <2>1, <2>7 DEF NetInv, StageInv
    <3>2. link = "up"
      BY <2>1, <2>7, <3>1 DEF LinkInv
    <3> QED BY <2>1, <2>7, <3>2
  <2> QED BY <2>1, <2>5, <2>6, <2>7 DEF StageInv
<1>8. CASE WifiPublish
  <2> SUFFICES ASSUME IsRunning' PROVE NetInv'
    BY DEF NetInv
  <2>1. /\ UNCHANGED <<control_queue, link, phase, control>>
        /\ IsRunning
        /\ wifi.pc = "publish" /\ wifi'.pc = "queue"
        /\ wifi'.event = wifi.event /\ wifi'.published = wifi.published
    BY <1>8 DEF WifiPublish, IsRunning, TypeOK, DataTypes
  <2>2. network_available' = (wifi.event = "STA_CONNECTED")
    BY <1>8 DEF WifiPublish, PublishNetwork, SetNetworkAvailable
  <2>3. Reported' = Reported
    BY <2>1 DEF Reported
  <2>4. /\ Len(Reported) \in DOMAIN Reported /\ Reported[Len(Reported)].kind = "wifi"
        /\ Reported[Len(Reported)].event = wifi.event
        /\ \A j \in DOMAIN Reported : ~(j > Len(Reported))
    BY <2>1, ReportedEntries
  <2>5. phase = "RUNNING" /\ control # "services_ready"
    <3>1. ~Silent(Reported)
      BY <2>4 DEF Silent
    <3> QED BY <2>1, <3>1 DEF NetInv, StageInv
  <2>6. wifi.event = "STA_CONNECTED" <=> link = "up"
    BY <2>1, <2>4 DEF LinkInv, EndsUp, EndsDown, IsUp, IsDown
  <2>7. AllPublished(Reported)
    BY <2>1, <2>5 DEF NetInv
  <2>8. network_available' <=> link' = "up"
    BY <2>1, <2>2, <2>6
  <2> QED BY <2>1, <2>3, <2>5, <2>7, <2>8 DEF NetInv
<1>9. CASE WifiQueue
  <2> SUFFICES ASSUME IsRunning' PROVE NetInv'
    BY DEF NetInv
  <2>1. /\ UNCHANGED <<link, phase, control, network_available>>
        /\ wifi.pc = "queue" /\ wifi'.pc = "idle"
    BY <1>9 DEF WifiQueue, NoWifi
  <2>2. IsRunning
    BY <1>9, EnqueueRuns DEF WifiQueue, IsRunning
  <2>3. Reported' = Reported
    BY <1>9, QueueReported
  <2> QED BY <2>1, <2>2, <2>3 DEF NetInv
<1>10. CASE KeyQueue
  <2> SUFFICES ASSUME IsRunning' PROVE NetInv'
    BY DEF NetInv
  <2>1. UNCHANGED <<link, wifi, phase, control, network_available>>
    BY <1>10 DEF KeyQueue
  <2>2. IsRunning
    BY <1>10, EnqueueRuns DEF KeyQueue, IsRunning
  <2>3. PICK p \in 1 .. Len(Reported') :
          /\ Reported'[p].kind # "wifi"
          /\ Len(Reported') = Len(Reported) + 1
          /\ \A i \in 1 .. Len(Reported) :
               Reported[i] = Reported'[IF i < p THEN i ELSE i + 1]
    BY <1>10, KeyReported
  <2>4. Reported \in Seq(Entries) /\ Reported' \in Seq(Entries)
    BY <1>10, KeyReported
  <2>5. Silent(Reported) <=> Silent(Reported')
    BY <2>3, <2>4, KeyAmongThem
  <2>6. /\ AtMostOneEvent(Reported) => AtMostOneEvent(Reported')
        /\ AllPublished(Reported) => AllPublished(Reported')
    BY <2>3, <2>4, KeyAmongOne
  <2> QED BY <2>1, <2>2, <2>5, <2>6 DEF NetInv
<1>11. CASE WifiLost
  <2>1. /\ Take /\ UNCHANGED <<wifi, link, phase, control>> /\ IsRunning
        /\ Event.kind = "wifi" /\ control = "idle"
    BY <1>11 DEF WifiLost, TakeWifi, Take, IsRunning, SetModelNetwork
  <2>2. /\ AtMostOneEvent(Reported) => AtMostOneEvent(Reported')
        /\ AtMostOneEvent(Reported) /\ Event.kind = "wifi" => Silent(Reported')
        /\ AllPublished(Reported) => AllPublished(Reported')
        /\ AllPublished(Reported) /\ Event.kind = "wifi" => Event.published
        /\ Silent(Reported) => Event.kind # "wifi" /\ Silent(Reported')
    BY <2>1, TakeReported, OneTaken
  <2>3. phase = "RUNNING" => network_available' = network_available
    <3>1. phase = "RUNNING" => Event.published
      BY <2>1, <2>2 DEF NetInv
    <3> QED BY <1>11, <3>1 DEF WifiLost, PublishLate, networkVars
  <2>4. phase # "STARTING_SERVICES"
    BY <2>1 DEF StageInv
  <2> QED BY <2>1, <2>2, <2>3, <2>4 DEF NetInv
<1>12. CASE WifiRestored
  <2>1. /\ Take /\ UNCHANGED <<wifi, link, phase, control>> /\ IsRunning
        /\ Event.kind = "wifi" /\ control = "idle"
    BY <1>12 DEF WifiRestored, TakeWifi, Take, IsRunning, SetModelNetwork
  <2>2. /\ AtMostOneEvent(Reported) => AtMostOneEvent(Reported')
        /\ AtMostOneEvent(Reported) /\ Event.kind = "wifi" => Silent(Reported')
        /\ AllPublished(Reported) => AllPublished(Reported')
        /\ AllPublished(Reported) /\ Event.kind = "wifi" => Event.published
        /\ Silent(Reported) => Event.kind # "wifi" /\ Silent(Reported')
    BY <2>1, TakeReported, OneTaken
  <2>3. phase = "RUNNING" => network_available' = network_available
    <3>1. phase = "RUNNING" => Event.published
      BY <2>1, <2>2 DEF NetInv
    <3> QED BY <1>12, <3>1 DEF WifiRestored, PublishLate, networkVars
  <2>4. phase # "STARTING_SERVICES"
    BY <2>1 DEF StageInv
  <2> QED BY <2>1, <2>2, <2>3, <2>4 DEF NetInv
<1>13. CASE WifiFirst
  <2>1. /\ Take /\ UNCHANGED <<wifi, link>> /\ IsRunning
        /\ Event.kind = "wifi" /\ control = "idle" /\ control' # "services_ready"
        /\ phase = "WIFI_PROVISIONING" => phase' = "STARTING_SERVICES"
        /\ phase # "WIFI_PROVISIONING" => phase' = phase
    BY <1>13 DEF WifiFirst, TakeWifi, Take, IsRunning, ToPhase
  <2>2. /\ AtMostOneEvent(Reported) => AtMostOneEvent(Reported')
        /\ AtMostOneEvent(Reported) /\ Event.kind = "wifi" => Silent(Reported')
        /\ AllPublished(Reported) => AllPublished(Reported')
        /\ AllPublished(Reported) /\ Event.kind = "wifi" => Event.published
        /\ Silent(Reported) => Event.kind # "wifi" /\ Silent(Reported')
    BY <2>1, TakeReported, OneTaken
  <2>3. phase = "RUNNING" => network_available' = network_available
    <3>1. phase = "RUNNING" => Event.published
      BY <2>1, <2>2 DEF NetInv
    <3> QED BY <1>13, <3>1 DEF WifiFirst, PublishLate, networkVars
  <2>4. phase # "STARTING_SERVICES"
    BY <2>1 DEF StageInv
  <2> QED BY <2>1, <2>2, <2>3, <2>4 DEF NetInv
<1>14. CASE HandleKey
  <2>1. /\ Take /\ UNCHANGED <<wifi, link, phase, control, network_available>>
        /\ IsRunning /\ Event.kind # "wifi"
    BY <1>14 DEF HandleKey, IsRunning
  <2>2. /\ AtMostOneEvent(Reported) => AtMostOneEvent(Reported')
        /\ AtMostOneEvent(Reported) /\ Event.kind = "wifi" => Silent(Reported')
        /\ AllPublished(Reported) => AllPublished(Reported')
        /\ AllPublished(Reported) /\ Event.kind = "wifi" => Event.published
        /\ Silent(Reported) => Event.kind # "wifi" /\ Silent(Reported')
    BY <2>1, TakeReported, OneTaken
  <2> QED BY <2>1, <2>2 DEF NetInv
<1>15. CASE ServicesInit
  <2>1. /\ UNCHANGED <<control_queue, wifi, link, phase, running, exit_published>>
        /\ control = "services" /\ network_available' = TRUE
    BY <1>15 DEF ServicesInit, LifecycleInit
  <2>2. Reported' = Reported
    BY <2>1 DEF Reported
  <2>3. IsRunning => phase = "STARTING_SERVICES"
    BY <2>1 DEF StageInv
  <2> QED BY <2>1, <2>2, <2>3 DEF NetInv, IsRunning
<1>16. CASE ServicesReady
  <2>1. /\ UNCHANGED <<control_queue, wifi, link, network_available, running,
                       exit_published>>
        /\ phase' = "RUNNING" /\ control = "services_ready" /\ control' = "idle"
    BY <1>16 DEF ServicesReady, ToPhase
  <2>2. Reported' = Reported
    BY <2>1 DEF Reported
  <2>3. IsRunning => Silent(Reported) /\ online /\ network_available
    BY <2>1 DEF StageInv, NetInv
  <2>4. IsRunning => link = "up"
    BY <2>1, <2>3 DEF LinkInv, StageInv
  <2>5. IsRunning => AllPublished(Reported)
    BY <2>3 DEF AllPublished, Silent
  <2> QED BY <2>1, <2>2, <2>3, <2>4, <2>5 DEF NetInv, IsRunning
<1>17. CASE UNCHANGED vars
  BY <1>17 DEF vars, NetInv, IsRunning, Reported
<1> QED
  BY <1>1, <1>2, <1>3, <1>4, <1>5, <1>6, <1>7, <1>8, <1>9, <1>10, <1>11, <1>12, <1>13,
     <1>14, <1>15, <1>16, <1>17, <1>18, <1>19
  DEF Next, Product, Starting, Fini, WifiThread, KeyThread, Handling, Services

\* A new run begins before anything runs in it.
LEMMA RunsMove ==
  [Next]_vars => runs' = runs \/ ~IsRunning'
<1> SUFFICES ASSUME [Next]_vars PROVE runs' = runs \/ ~IsRunning'
  OBVIOUS
<1> USE DEF snapshotVars, exitVars, runVars, keyVars, wifiVars, deviceVars
<1>1. CASE MybotStart \/ MybotStartRefused
  BY <1>1 DEF MybotStart, MybotStartRefused, PublishExit, IsRunning
<1>2. CASE Starting \/ Fini \/ MybotStop \/ Stopped \/ StopFails
  BY <1>2 DEF Starting, Fini, MybotStop, Stopped, StopFails, ControlStart,
     ControlStartWifi, ControlStartFails, ControlStarted, FiniBegin, FiniKey,
     FiniServices, FiniWifi
<1>3. CASE WifiThread \/ KeyThread
  BY <1>3 DEF WifiThread, KeyThread, WifiEvent, WifiPublish, WifiQueue, KeyEvent,
     KeyQueue, KeyExit
<1>4. CASE Handling \/ Services
  BY <1>4 DEF Handling, Services, DropEvent, WifiFailedAtStart, WifiLost, WifiRestored,
     WifiFirst, HandleKey, TakeWifi, ServicesInit, ServicesFail, ServicesReady
<1>5. CASE Ticks \/ Calls \/ Answers
  BY <1>5, LifecycleMoves DEF Shows
<1>6. CASE UNCHANGED vars
  BY <1>6 DEF vars
<1> QED BY <1>1, <1>2, <1>3, <1>4, <1>5, <1>6 DEF Next, Product

\* NetworkFollowsQuietLink: once every event is handled, the lifecycle knows whether
\* the network is usable, in every run whose link did not change before its services
\* ran; QuietStarts says which runs these are, and may be all of them or none.
THEOREM LifecycleFollowsLink == Spec => []NetworkFollowsQuietLink
<1> DEFINE QuietInv == runs \in QuietStarts => NetInv
<1>1. Init => StopInv /\ StageInv /\ LinkInv /\ QuietInv
  BY DEF Init, NoMemory, StopInv, StageInv, LinkInv, NetInv, IsRunning, StartingUp,
     Finalizing,
     NoWifi
<1>2. QuietInv => NetworkFollowsQuietLink
  BY DEF NetInv, NetworkFollowsLink, NetworkFollowsQuietLink, WifiSettled
<1>3. TypeOK /\ TypeOK' /\ StopInv /\ StageInv /\ LinkInv /\ QuietInv /\ [Next]_vars
        => QuietInv'
  <2> SUFFICES ASSUME TypeOK, TypeOK', StopInv, StageInv, LinkInv, QuietInv, [Next]_vars,
                      runs' \in QuietStarts
               PROVE  NetInv'
    OBVIOUS
  <2>1. CASE ~IsRunning'
    BY <2>1 DEF NetInv
  <2>2. CASE runs' = runs
    BY <2>2, NetStep
  <2> QED BY <2>1, <2>2, RunsMove
<1> QED
  BY <1>1, <1>2, <1>3, TypeCorrect, StopStep, StageStep, LinkStep, PTL DEF Spec

=============================================================================
