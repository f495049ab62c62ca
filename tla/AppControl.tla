----------------------------- MODULE AppControl -----------------------------
(***************************************************************************)
(* The control owner of the application (src/core/mybot_app.c) and the     *)
(* state it publishes (src/core/mybot_state_model.c): start and stop, the  *)
(* Wi-Fi events that bring the services up and report the network, the key *)
(* events, and the tick of the device lifecycle.                           *)
(*                                                                         *)
(*   product thread   calls mybot_start() and mybot_stop().                *)
(*   control worker   runs the events of control_queue one by one, the     *)
(*                    tick between them, and its own finalizer.            *)
(*   Wi-Fi thread     reads the application state, publishes the network   *)
(*                    to the lifecycle when the services run, and queues   *)
(*                    the event for the control worker.                    *)
(*   key thread       reads the application state and queues the event.    *)
(*                                                                         *)
(* The lifecycle is ReducedLifecycle, which DeviceLifecycle implements;    *)
(* its actions become steps of the application here.                       *)
(***************************************************************************)
EXTENDS Naturals, Sequences, ReducedLifecycle

CONSTANTS
  QueueCapacity,     \* of the control queue (1000 in mybot_start)
  QuietStarts,       \* the runs in which the link does not change before the services run
  MaxWifiEvents,     \* bound: Wi-Fi events reported
  MaxKeys,           \* bound: key events queued
  MaxRuns            \* bound: calls of mybot_start

ASSUME CapacityAssumption == QueueCapacity \in Nat \ {0}
ASSUME RunsAssumption == MaxWifiEvents \in Nat /\ MaxKeys \in Nat /\ MaxRuns \in Nat

VARIABLES
  \* the snapshot of the state model
  phase, online, shown,
  \* the run
  exit_published,        \* s_exit_generation # s_run_exit_generation
  aosl_ref_held,
  main,                  \* what the product thread is doing
  control_queue,
  service_mpq,           \* the service worker exists
  \* the listeners
  key_active, key,
  wifi_active, wifi,
  link,                  \* what the network last reported
  \* history
  conversation_current,  \* no loss since the last conversation began
  \* what is bounded
  wifi_events, keys, runs

snapshotVars == <<phase, online, shown>>
exitVars     == <<running, exit_published>>
runVars      == <<exitVars, aosl_ref_held, main, service_mpq, runs>>
keyVars      == <<key_active, key, keys>>
wifiVars     == <<wifi_active, wifi, link, wifi_events>>
deviceVars   == <<lifecycleVars, conversation_current>>

vars == <<snapshotVars, runVars, control, control_queue, keyVars, wifiVars, deviceVars>>

----------------------------------------------------------------------------
(* Values *)

Phases == {"STOPPED", "WIFI_PROVISIONING", "STARTING_SERVICES", "RUNNING", "FAILED", "STOPPING"}

WifiEvents == {"STA_CONNECTED", "STA_DISCONNECTED", "FAILED"}

Keys == {"START", "STOP", "PAIR"}

WifiEntries == [kind : {"wifi"}, event : WifiEvents, published : BOOLEAN]
KeyEntries  == [kind : {"key"}, event : Keys]

Finalizing == {"fini_key", "fini_services", "fini_wifi", "ended"}
Controls == {"none", "start_begin", "start_wifi", "start_check", "idle", "services",
             "services_ready"} \cup InLifecycle \cup Finalizing

NoWifi == [pc |-> "idle", event |-> "STA_CONNECTED", published |-> FALSE]

----------------------------------------------------------------------------
(* Helpers of the source *)

\* project_app_state
AppState ==
  IF phase # "RUNNING" THEN phase
  ELSE IF ~online THEN "WIFI_DISCONNECTED"
  ELSE IF shown = "RUNTIME" THEN "READY" ELSE shown

\* runtime_is_running
IsRunning == running /\ ~exit_published

\* runtime_publish_exit
PublishExit == exit_published' = TRUE /\ running' = FALSE

\* transition_phase, once the expected phase has been found
ToPhase(new, is_online) == phase' = new /\ online' = is_online

\* mybot_state_model_reset
ResetModel == ToPhase("STOPPED", FALSE) /\ shown' = "PAIRING"

\* Mutant: the conversation stays on display over a change of the network.
SetModelNetworkKeepsDevice(is_online) ==
  IF phase = "RUNNING" THEN online' = is_online /\ UNCHANGED <<phase, shown>>
                       ELSE UNCHANGED snapshotVars

\* Mutant: the network does not change below a conversation.
SetModelNetworkKeepsConversation(is_online) ==
  IF phase = "RUNNING" /\ shown # "IN_CONVERSATION"
  THEN online' = is_online /\ UNCHANGED <<phase, shown>>
  ELSE UNCHANGED snapshotVars

\* set_network
SetModelNetwork(is_online) ==
  IF phase = "RUNNING"
  THEN /\ online' = is_online
       /\ shown' = IF shown = "IN_CONVERSATION" THEN "RUNTIME" ELSE shown
       /\ UNCHANGED phase
  ELSE UNCHANGED snapshotVars

\* Whoever tells the lifecycle of the network.
PublishNetwork(available) ==
  /\ SetNetworkAvailable(available)
  /\ conversation_current' = (conversation_current /\ (available \/ ~network_available))

\* Mutant: a full queue makes the caller wait.
EnqueueWaits(entry) ==
  /\ Len(control_queue) < QueueCapacity
  /\ control_queue' = Append(control_queue, entry)
  /\ UNCHANGED exitVars

\* Mutant: a refused event is only logged.
EnqueueDrops(entry) ==
  /\ control_queue' = IF Len(control_queue) < QueueCapacity
                      THEN Append(control_queue, entry) ELSE control_queue
  /\ UNCHANGED exitVars

\* aosl_mpq_queue on the non-blocking control queue; a refused event ends the
\* run (fail_control_queue).
Enqueue(entry) ==
  IF Len(control_queue) < QueueCapacity
  THEN control_queue' = Append(control_queue, entry) /\ UNCHANGED exitVars
  ELSE PublishExit /\ UNCHANGED control_queue

----------------------------------------------------------------------------
(* The product thread: mybot_start and mybot_stop.                         *)

Init ==
  /\ phase = "STOPPED" /\ online = FALSE /\ shown = "PAIRING"
  /\ running = FALSE /\ exit_published = FALSE /\ aosl_ref_held = FALSE
  /\ main = "idle" /\ control = "none" /\ control_queue = <<>> /\ service_mpq = FALSE
  /\ key_active = FALSE /\ key = "idle" /\ keys = 0
  /\ wifi_active = FALSE /\ wifi = NoWifi /\ link = "unknown" /\ wifi_events = 0
  /\ NoMemory /\ conversation_current = FALSE
  /\ runs = 0

\* A valid configuration and no active runtime: create the control worker and
\* wait for handle_control_start.
MybotStart ==
  /\ main = "idle" /\ ~aosl_ref_held
  /\ runs < MaxRuns
  /\ runs' = runs + 1
  /\ exit_published' = FALSE /\ running' = FALSE
  /\ aosl_ref_held' = TRUE
  /\ main' = "starting"
  /\ control' = "start_begin"
  /\ control_queue' = <<>>
  /\ UNCHANGED <<snapshotVars, service_mpq, keyVars, wifiVars, deviceVars>>

\* The control worker cannot be created, or cannot be called: the runtime is
\* released at once.
MybotStartRefused ==
  /\ main = "idle" /\ ~aosl_ref_held
  /\ runs < MaxRuns
  /\ runs' = runs + 1
  /\ PublishExit
  /\ UNCHANGED <<snapshotVars, aosl_ref_held, main, control, control_queue, service_mpq,
                 keyVars, wifiVars, deviceVars>>

MybotStop ==
  /\ main = "idle" /\ aosl_ref_held
  /\ PublishExit
  /\ main' = "stopping"
  /\ UNCHANGED <<snapshotVars, aosl_ref_held, control, control_queue, service_mpq, runs,
                 keyVars, wifiVars, deviceVars>>

\* aosl_mpq_destroy_wait fails: the runtime stays held for the next mybot_stop.
StopFails ==
  /\ main = "stopping" /\ control = "idle"
  /\ main' = "idle"
  /\ UNCHANGED <<snapshotVars, exitVars, aosl_ref_held, service_mpq, runs, control,
                 control_queue, keyVars, wifiVars, deviceVars>>

\* Mutant: the runtime is released although the service worker is left.
ReleasedAnyway(left) == FALSE

Released(left) == left

\* The end of destroy_control_queue: the service worker is joined now if it was
\* not before, or the runtime stays held for the next mybot_stop.
Stopped ==
  /\ main = "stopping"
  /\ control \in {"ended", "none"}
  /\ control' = "none"
  /\ service_mpq' \in {FALSE, service_mpq}
  /\ aosl_ref_held' = Released(service_mpq')
  /\ main' = "idle"
  /\ control_queue' = <<>>
  /\ UNCHANGED <<snapshotVars, exitVars, runs, keyVars, wifiVars, deviceVars>>

----------------------------------------------------------------------------
(* The control worker starts: handle_control_start.  Nothing can publish an *)
(* exit before the listeners exist.                                        *)

ControlStart ==
  /\ control = "start_begin"
  /\ ToPhase("WIFI_PROVISIONING", FALSE) /\ shown' = "PAIRING"
  /\ running' = TRUE
  /\ control' = "start_wifi"
  /\ UNCHANGED <<exit_published, aosl_ref_held, main, control_queue, service_mpq, runs,
                 keyVars, wifiVars, deviceVars>>

ControlStartWifi ==
  /\ control = "start_wifi"
  /\ wifi_active' = TRUE /\ link' = "unknown"
  /\ control' = "start_check"
  /\ UNCHANGED <<snapshotVars, runVars, control_queue, keyVars, wifi, wifi_events,
                 deviceVars>>

\* The presenter or the Wi-Fi listener fails; mybot_start goes on to tear down.
ControlStartFails ==
  /\ control = "start_wifi"
  /\ ToPhase("FAILED", FALSE) /\ UNCHANGED shown
  /\ PublishExit
  /\ control' = "idle"
  /\ main' = "stopping"
  /\ UNCHANGED <<aosl_ref_held, control_queue, service_mpq, runs, keyVars, wifiVars,
                 deviceVars>>

\* An exit published meanwhile makes the start fail.
ControlStarted ==
  /\ control = "start_check"
  /\ control' = "idle"
  /\ main' = IF exit_published THEN "stopping" ELSE "idle"
  /\ running' = (running /\ ~exit_published)
  /\ UNCHANGED <<snapshotVars, exit_published, aosl_ref_held, control_queue, service_mpq,
                 runs, keyVars, wifiVars, deviceVars>>

----------------------------------------------------------------------------
(* The finalizer of the control worker: control_stop_runtime.  Whatever is *)
(* in the queue by then is never taken.                                    *)

FiniBegin ==
  /\ main = "stopping" /\ control = "idle"
  /\ ToPhase("STOPPING", FALSE) /\ UNCHANGED shown
  /\ PublishExit
  /\ control' = "fini_key"
  /\ UNCHANGED <<aosl_ref_held, main, service_mpq, runs, control_queue, keyVars, wifiVars,
                 deviceVars>>

\* mybot_key_deinit waits for the callback in progress.
FiniKey ==
  /\ control = "fini_key"
  /\ key = "idle"
  /\ key_active' = FALSE
  /\ control' = "fini_services"
  /\ UNCHANGED <<snapshotVars, runVars, control_queue, key, keys, wifiVars, deviceVars>>

\* The lifecycle leaves its conversation; the service worker may fail to join.
FiniServices ==
  /\ control = "fini_services"
  /\ LifecycleShutdown
  /\ service_mpq' \in {FALSE, service_mpq}
  /\ control' = "fini_wifi"
  /\ UNCHANGED <<snapshotVars, exitVars, aosl_ref_held, main, runs, control_queue, keyVars,
                 wifiVars, conversation_current>>

\* mybot_wifi_deinit waits for the callback in progress.
FiniWifi ==
  /\ control = "fini_wifi"
  /\ wifi.pc = "idle"
  /\ wifi_active' = FALSE
  /\ ResetModel
  /\ control' = "ended"
  /\ UNCHANGED <<runVars, control_queue, keyVars, wifi, link, wifi_events, deviceVars>>

----------------------------------------------------------------------------
(* The Wi-Fi thread: on_wifi_event.  Events are serialized and in order    *)
(* (mybot_wifi.h): a connection, then losses and returns.                  *)

Follows(event) ==
  CASE link = "up"      -> event \in {"STA_DISCONNECTED", "FAILED"}
    [] link = "down"    -> event \in {"STA_CONNECTED", "FAILED"}
    [] link = "unknown" -> event \in {"STA_CONNECTED", "FAILED"}

ServicesRunStates == {"READY", "PAIRING", "IN_CONVERSATION", "WIFI_DISCONNECTED"}

\* Mutant: in a conversation, the lifecycle is told by the control worker.
PublishesIdle == AppState \in ServicesRunStates \ {"IN_CONVERSATION"}

\* Whether the Wi-Fi thread itself tells the lifecycle.
Publishes == AppState \in ServicesRunStates

WifiEvent(event) ==
  /\ wifi_active /\ wifi.pc = "idle"
  /\ Follows(event)
  /\ \/ runs \notin QuietStarts
     \/ link = "unknown"
     \/ phase \notin {"WIFI_PROVISIONING", "STARTING_SERVICES"}
  /\ wifi_events < MaxWifiEvents
  /\ wifi_events' = wifi_events + 1
  /\ link' = IF event = "STA_CONNECTED" THEN "up" ELSE "down"
  /\ wifi' = IF IsRunning /\ AppState \notin {"STOPPING", "FAILED", "STOPPED"}
             THEN [pc |-> IF Publishes THEN "publish" ELSE "queue",
                   event |-> event, published |-> Publishes]
             ELSE wifi
  /\ UNCHANGED <<snapshotVars, runVars, control, control_queue, keyVars, wifi_active,
                 deviceVars>>

WifiPublish ==
  /\ wifi.pc = "publish"
  /\ PublishNetwork(wifi.event = "STA_CONNECTED")
  /\ wifi' = [wifi EXCEPT !.pc = "queue"]
  /\ UNCHANGED <<snapshotVars, runVars, control, control_queue, keyVars, wifi_active, link,
                 wifi_events, lifecycle_initialized, device_state, requestVars>>

WifiQueue ==
  /\ wifi.pc = "queue"
  /\ Enqueue([kind |-> "wifi", event |-> wifi.event, published |-> wifi.published])
  /\ wifi' = NoWifi
  /\ UNCHANGED <<snapshotVars, aosl_ref_held, main, service_mpq, runs, control, keyVars,
                 wifi_active, link, wifi_events, deviceVars>>

----------------------------------------------------------------------------
(* The key thread: on_key_event, and the wake word, which starts as a key. *)

KeyPasses(event) ==
  CASE event = "START" -> AppState = "READY"
    [] event = "STOP"  -> AppState = "IN_CONVERSATION"
    [] event = "PAIR"  -> AppState \in {"READY", "IN_CONVERSATION"}

KeyEvent(event) ==
  /\ key_active /\ key = "idle"
  /\ IsRunning /\ KeyPasses(event)
  /\ keys < MaxKeys
  /\ keys' = keys + 1
  /\ key' = event
  /\ UNCHANGED <<snapshotVars, runVars, control, control_queue, key_active, wifiVars,
                 deviceVars>>

KeyQueue ==
  /\ key # "idle"
  /\ Enqueue([kind |-> "key", event |-> key])
  /\ key' = "idle"
  /\ UNCHANGED <<snapshotVars, aosl_ref_held, main, service_mpq, runs, control, key_active,
                 keys, wifiVars, deviceVars>>

KeyExit ==
  /\ key_active /\ key = "idle"
  /\ ~exit_published
  /\ PublishExit
  /\ UNCHANGED <<snapshotVars, aosl_ref_held, main, service_mpq, runs, control,
                 control_queue, keyVars, wifiVars, deviceVars>>

----------------------------------------------------------------------------
(* The control worker takes an event.                                      *)

Take ==
  /\ control = "idle"
  /\ control_queue # <<>>
  /\ control_queue' = Tail(control_queue)

Event == Head(control_queue)

\* After exit every handler returns at once.
DropEvent ==
  /\ Take
  /\ ~IsRunning
  /\ UNCHANGED <<snapshotVars, runVars, control, keyVars, wifiVars, deviceVars>>

\* handle_wifi_event tells the lifecycle what the Wi-Fi thread could not.
PublishLate ==
  IF lifecycle_initialized /\ ~Event.published
  THEN PublishNetwork(Event.event = "STA_CONNECTED")
  ELSE UNCHANGED <<networkVars, conversation_current>>

TakeWifi(events) ==
  /\ Take
  /\ IsRunning
  /\ Event.kind = "wifi" /\ Event.event \in events
  /\ UNCHANGED <<keyVars, wifiVars, lifecycle_initialized, device_state, requestVars>>

WifiFailedAtStart ==
  /\ TakeWifi({"FAILED"})
  /\ AppState = "WIFI_PROVISIONING"
  /\ ToPhase("FAILED", FALSE) /\ UNCHANGED shown
  /\ PublishExit
  /\ UNCHANGED <<aosl_ref_held, main, service_mpq, runs, control, networkVars,
                 conversation_current>>

WifiLost ==
  /\ TakeWifi({"STA_DISCONNECTED", "FAILED"})
  /\ AppState = "WIFI_PROVISIONING" => Event.event # "FAILED"
  /\ PublishLate
  /\ IF AppState # "WIFI_DISCONNECTED" THEN SetModelNetwork(FALSE)
                                       ELSE UNCHANGED snapshotVars
  /\ UNCHANGED <<runVars, control>>

WifiRestored ==
  /\ TakeWifi({"STA_CONNECTED"})
  /\ AppState = "WIFI_DISCONNECTED"
  /\ PublishLate
  /\ SetModelNetwork(TRUE)
  /\ UNCHANGED <<runVars, control>>

\* mybot_state_model_begin_services succeeds once in a run.
WifiFirst ==
  /\ TakeWifi({"STA_CONNECTED"})
  /\ AppState # "WIFI_DISCONNECTED"
  /\ PublishLate
  /\ IF phase = "WIFI_PROVISIONING"
     THEN /\ ToPhase("STARTING_SERVICES", TRUE) /\ UNCHANGED shown
          /\ control' = "services"
     ELSE UNCHANGED <<snapshotVars, control>>
  /\ UNCHANGED runVars

\* start_services up to mybot_device_lifecycle_init
ServicesInit ==
  /\ control = "services"
  /\ control' = "services_ready"
  /\ key_active' = TRUE
  /\ service_mpq' = TRUE
  /\ LifecycleInit
  /\ shown' = IF IsRunning THEN device_state' ELSE shown
  /\ UNCHANGED <<phase, online, exitVars, aosl_ref_held, main, runs, control_queue, key, keys,
                 wifiVars, conversation_current>>

\* Any service fails: start_services cleans up and the run ends.
ServicesFail ==
  /\ control = "services"
  /\ service_mpq' \in BOOLEAN
  /\ ToPhase("FAILED", FALSE) /\ UNCHANGED shown
  /\ PublishExit
  /\ control' = "idle"
  /\ UNCHANGED <<aosl_ref_held, main, runs, control_queue, keyVars, wifiVars, deviceVars>>

ServicesReady ==
  /\ control = "services_ready"
  /\ ToPhase("RUNNING", TRUE) /\ UNCHANGED shown
  /\ control' = "idle"
  /\ UNCHANGED <<runVars, control_queue, keyVars, wifiVars, deviceVars>>

\* handle_key_event looks at the state again, and so does the lifecycle.
HandleKey ==
  /\ Take
  /\ IsRunning
  /\ Event.kind = "key"
  /\ IF KeyPasses(Event.event) THEN Request(Event.event) ELSE UNCHANGED requestVars
  /\ UNCHANGED <<snapshotVars, runVars, control, keyVars, wifiVars, lifecycle_initialized,
                 device_state, networkVars, conversation_current>>

----------------------------------------------------------------------------
(* The steps of the lifecycle (ReducedLifecycle).  A tick, or the answer to *)
(* a poll, may come between any two events of the queue.                   *)

\* dev_on_state_changed: what is shown follows the lifecycle while the run lasts.
Shows ==
  /\ shown' = IF IsRunning /\ device_state' # device_state THEN device_state' ELSE shown
  /\ conversation_current' = (conversation_current
       \/ (device_state # "IN_CONVERSATION" /\ device_state' = "IN_CONVERSATION"))
  /\ UNCHANGED <<phase, online, runVars, control_queue, keyVars, wifiVars>>

Ticks == IsRunning /\ (Offline \/ Pair \/ Start \/ Stop) /\ Shows

Calls == (StartCall \/ StartAccepted \/ StartAbandoned \/ Left) /\ Shows

Answers == (Bound \/ PairAgain \/ Unbound \/ Fail \/ ConversationEnded) /\ Shows

----------------------------------------------------------------------------
Product == MybotStart \/ MybotStartRefused \/ MybotStop \/ StopFails \/ Stopped

Starting == ControlStart \/ ControlStartWifi \/ ControlStartFails \/ ControlStarted

Fini == FiniBegin \/ FiniKey \/ FiniServices \/ FiniWifi

WifiThread == (\E event \in WifiEvents : WifiEvent(event)) \/ WifiPublish \/ WifiQueue

KeyThread == (\E event \in Keys : KeyEvent(event)) \/ KeyQueue \/ KeyExit

Handling == DropEvent \/ WifiFailedAtStart \/ WifiLost \/ WifiRestored \/ WifiFirst \/ HandleKey

Services == ServicesInit \/ ServicesFail \/ ServicesReady

Next == Product \/ Starting \/ Fini \/ WifiThread \/ KeyThread \/ Handling \/ Services
          \/ Ticks \/ Calls \/ Answers

Spec == Init /\ [][Next]_vars

----------------------------------------------------------------------------
(* Types *)

FlagTypes ==
  /\ online \in BOOLEAN /\ running \in BOOLEAN /\ exit_published \in BOOLEAN
  /\ aosl_ref_held \in BOOLEAN /\ service_mpq \in BOOLEAN
  /\ key_active \in BOOLEAN /\ wifi_active \in BOOLEAN /\ lifecycle_initialized \in BOOLEAN
  /\ network_available \in BOOLEAN /\ network_loss_pending \in BOOLEAN
  /\ call_current \in BOOLEAN /\ conversation_current \in BOOLEAN
  /\ pairing_requested \in BOOLEAN /\ conversation_requested \in BOOLEAN
  /\ stop_requested \in BOOLEAN

DataTypes ==
  /\ phase \in Phases /\ shown \in DeviceStates /\ device_state \in DeviceStates
  /\ main \in {"idle", "starting", "stopping"}
  /\ control \in Controls
  /\ control_queue \in Seq(WifiEntries \cup KeyEntries) /\ Len(control_queue) <= QueueCapacity
  /\ key \in {"idle"} \cup Keys
  /\ wifi \in [pc : {"idle", "publish", "queue"}, event : WifiEvents, published : BOOLEAN]
  /\ link \in {"unknown", "up", "down"}
  /\ wifi_events \in Nat /\ keys \in Nat /\ runs \in Nat

\* Every variable keeps its type, and the control queue its capacity.
TypeOK == FlagTypes /\ DataTypes

----------------------------------------------------------------------------
(* Safety *)

\* A released runtime owns nothing: no worker, no listener, no call in progress
\* and the state STOPPED, however the start failed or the stop was retried.
StoppedOwnsNothing ==
  ~aosl_ref_held =>
    /\ phase = "STOPPED" /\ ~IsRunning
    /\ control = "none" /\ ~service_mpq /\ ~lifecycle_initialized
    /\ ~wifi_active /\ wifi.pc = "idle" /\ ~key_active /\ key = "idle"

\* Nothing that the network reported is still on its way to the control worker.
WifiSettled ==
  /\ IsRunning /\ phase = "RUNNING"
  /\ wifi.pc = "idle"
  /\ \A i \in DOMAIN control_queue : control_queue[i].kind # "wifi"

\* Once every event is handled, the application state tells whether the network
\* is usable, whatever was reported while the services were starting.
ModelFollowsLink == WifiSettled => (online <=> link = "up")

\* Once every event is handled, the lifecycle knows whether the network is
\* usable: it pauses its requests while offline and resumes them afterwards.
NetworkFollowsLink == WifiSettled => (network_available <=> link = "up")

\* So it is in a run whose link did not change before the services ran, whatever the
\* runs before it left behind.
NetworkFollowsQuietLink == runs \in QuietStarts => NetworkFollowsLink

\* A loss is still on its way to the control worker, or to its next tick.
LossOnItsWay ==
  \/ network_loss_pending
  \/ wifi.pc # "idle"
  \/ \E i \in DOMAIN control_queue : control_queue[i].kind = "wifi"

\* A conversation on display is one the lifecycle is in, and its network has
\* not been lost since it began, unless the loss is being handled.
ShownConversationIsLive ==
  IsRunning /\ AppState = "IN_CONVERSATION" =>
    device_state = "IN_CONVERSATION" /\ (conversation_current \/ LossOnItsWay)

\* A conversation over the present network is on display: the state READY, which
\* would hide it and refuse the stop key, comes back with the end of it.
ConversationIsShown ==
  IsRunning /\ device_state = "IN_CONVERSATION" /\ conversation_current /\ WifiSettled =>
    AppState = "IN_CONVERSATION"

----------------------------------------------------------------------------
(* Fairness: every thread goes on with what it has begun (the calls of the  *)
(* lifecycle are bounded by their timeouts), and the control worker does   *)
(* not serve its timer alone.                                              *)

FairSpec ==
  /\ Spec
  /\ WF_vars(Stopped) /\ WF_vars(Starting) /\ WF_vars(Fini) /\ WF_vars(Services)
  /\ WF_vars(Calls)
  /\ SF_vars(Handling)
  /\ WF_vars(WifiPublish \/ WifiQueue) /\ WF_vars(KeyQueue)

----------------------------------------------------------------------------
(* Liveness *)

\* A stop completes: no worker waits for a callback that waits for the worker.
StopReturns == main = "stopping" ~> main = "idle"

\* A run is told of a usable network, in the end.
LinkIsShown ==
  (IsRunning /\ link = "up") ~> ~IsRunning \/ link # "up" \/ (phase = "RUNNING" /\ online)

=============================================================================
