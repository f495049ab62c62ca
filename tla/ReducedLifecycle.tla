------------------------- MODULE ReducedLifecycle -------------------------
(***************************************************************************)
(* The device lifecycle as the application sees it.  PAIRING stands for    *)
(* UNPROVISIONED, PAIRING and AWAITING_CLAIM; credentials, polls, retries, *)
(* token renewal and what the service is told are left out, and with them  *)
(* the reasons for which a binding or a conversation ends.  AppControl     *)
(* composes these actions with the rest of the application, and            *)
(* DeviceLifecycle, the full model, implements them.                       *)
(***************************************************************************)

VARIABLES
  running,               \* the runtime has not been told to end
  control,               \* what the control worker is doing
  lifecycle_initialized,
  device_state,
  network_available, network_loss_pending,
  call_current,          \* a start call is under way, and no loss since it began
  pairing_requested, conversation_requested, stop_requested

networkVars   == <<network_available, network_loss_pending, call_current>>
requestVars   == <<pairing_requested, conversation_requested, stop_requested>>
lifecycleVars == <<lifecycle_initialized, device_state, networkVars, requestVars>>
reducedVars   == <<running, control, lifecycleVars>>

DeviceStates == {"PAIRING", "RUNTIME", "IN_CONVERSATION"}

\* The control worker inside a call of the lifecycle: before the start call and in
\* it, and leaving a conversation to be bound or to be paired again.
Leaving == {"leave", "leave_pair"}
InLifecycle == {"starting", "calling"} \cup Leaving

----------------------------------------------------------------------------
(* Begin and end.  No action reads the memory of a lifecycle that is not    *)
(* initialized, and the next init clears it.                               *)

NoMemory ==
  /\ lifecycle_initialized = FALSE /\ device_state = "PAIRING"
  /\ network_available = FALSE /\ network_loss_pending = FALSE /\ call_current = FALSE
  /\ pairing_requested = FALSE /\ conversation_requested = FALSE /\ stop_requested = FALSE

\* mybot_device_lifecycle_init, which restores a binding or not.
LifecycleInit ==
  /\ lifecycle_initialized' = TRUE
  /\ device_state' \in {"PAIRING", "RUNTIME"}
  /\ network_available' = TRUE /\ network_loss_pending' = FALSE /\ call_current' = FALSE
  /\ pairing_requested' = (device_state' = "PAIRING")
  /\ conversation_requested' = FALSE /\ stop_requested' = FALSE

\* mybot_device_lifecycle_shutdown, with the conversation left.
LifecycleShutdown ==
  /\ lifecycle_initialized' = FALSE /\ device_state' = "PAIRING"
  /\ network_available' = FALSE /\ network_loss_pending' = FALSE /\ call_current' = FALSE
  /\ pairing_requested' = FALSE /\ conversation_requested' = FALSE
  /\ stop_requested' = FALSE

----------------------------------------------------------------------------
(* What other threads and the user do to the lifecycle.                    *)

\* mybot_device_lifecycle_set_network_available, whose three steps are one here: a
\* loss is pending from the first of them.
SetNetworkAvailable(available) ==
  /\ network_available' = available
  /\ network_loss_pending' = (network_loss_pending \/ (network_available /\ ~available))
  /\ call_current' = (call_current /\ (available \/ ~network_available))

\* mybot_device_lifecycle_request_start, _request_stop and _request_pair
Request(key) ==
  /\ conversation_requested' = (conversation_requested
       \/ (key = "START" /\ network_available /\ device_state = "RUNTIME"))
  /\ stop_requested' = (stop_requested
       \/ (key = "STOP" /\ device_state = "IN_CONVERSATION"))
  /\ pairing_requested' = (pairing_requested \/ key = "PAIR")

\* mybot_device_lifecycle_notify_conversation_ended: the RTC thread tests the state
\* some time before it writes the request.
ConversationEnded ==
  /\ lifecycle_initialized
  /\ stop_requested' = TRUE
  /\ UNCHANGED <<control, lifecycle_initialized, device_state, networkVars,
                 pairing_requested, conversation_requested>>

----------------------------------------------------------------------------
(* mybot_device_lifecycle_tick.                                            *)

Ready == control = "idle" /\ running /\ lifecycle_initialized
Online == Ready /\ ~network_loss_pending /\ network_available

\* A loss is consumed even if the network is back, unless it is still being
\* published; offline, requests are dropped.
Offline ==
  /\ Ready
  /\ conversation_requested' = FALSE /\ stop_requested' = FALSE
  /\ \/ /\ network_loss_pending
        /\ network_loss_pending' \in {FALSE, ~network_available}
        /\ control' = IF device_state = "IN_CONVERSATION" THEN "leave" ELSE control
     \/ /\ ~network_available
        /\ UNCHANGED <<network_loss_pending, control>>
  /\ UNCHANGED <<lifecycle_initialized, device_state, network_available, call_current,
                 pairing_requested>>

Pair ==
  /\ Online
  /\ pairing_requested
  /\ pairing_requested' = FALSE /\ conversation_requested' = FALSE
  /\ IF device_state = "IN_CONVERSATION"
     THEN control' = "leave_pair" /\ UNCHANGED device_state
     ELSE device_state' = "PAIRING" /\ UNCHANGED control
  /\ UNCHANGED <<lifecycle_initialized, networkVars, stop_requested>>

Start ==
  /\ Online
  /\ ~pairing_requested /\ device_state = "RUNTIME" /\ conversation_requested
  /\ conversation_requested' = FALSE /\ stop_requested' = FALSE
  /\ control' = "starting"
  /\ UNCHANGED <<lifecycle_initialized, device_state, networkVars, pairing_requested>>

Stop ==
  /\ Online
  /\ ~pairing_requested /\ device_state = "IN_CONVERSATION" /\ stop_requested
  /\ stop_requested' = FALSE
  /\ control' = "leave"
  /\ UNCHANGED <<lifecycle_initialized, device_state, networkVars, pairing_requested,
                 conversation_requested>>

----------------------------------------------------------------------------
(* The start call.                                                         *)

\* The snapshot of the network generation is taken after the tick looked at the
\* network: a loss that came and went in between does not make the call stale.
StartCall ==
  /\ control = "starting"
  /\ network_available
  /\ control' = "calling"
  /\ call_current' = TRUE
  /\ UNCHANGED <<lifecycle_initialized, device_state, network_available,
                 network_loss_pending, requestVars>>

\* The service accepts while the network of the call is still there.
StartAccepted ==
  /\ control = "calling"
  /\ call_current /\ network_available
  /\ device_state' = "IN_CONVERSATION"
  /\ control' = "idle"
  /\ call_current' = FALSE
  /\ UNCHANGED <<lifecycle_initialized, network_available, network_loss_pending, requestVars>>

StartAbandoned ==
  /\ control \in {"starting", "calling"}
  /\ control' = "idle"
  /\ call_current' = FALSE
  /\ UNCHANGED <<lifecycle_initialized, device_state, network_available,
                 network_loss_pending, requestVars>>

----------------------------------------------------------------------------
(* Answers of the service, and the end of a conversation.                  *)

\* The device was claimed.
Bound ==
  /\ Ready
  /\ ~pairing_requested /\ device_state = "PAIRING" /\ network_available
  /\ device_state' = "RUNTIME"
  /\ UNCHANGED <<control, lifecycle_initialized, networkVars, requestVars>>

\* The pair code was refused, or is to be asked for again.
PairAgain ==
  /\ control = "idle" /\ lifecycle_initialized
  /\ device_state = "PAIRING"
  /\ pairing_requested' = TRUE
  /\ UNCHANGED <<control, lifecycle_initialized, device_state, networkVars,
                 conversation_requested, stop_requested>>

\* The service rejects the credential: of a bound device, or in the start call.
Unbound ==
  /\ Ready \/ control = "calling"
  /\ device_state = "RUNTIME" /\ network_available
  /\ device_state' = "PAIRING"
  /\ pairing_requested' = TRUE
  /\ control' = "idle"
  /\ call_current' = FALSE
  /\ UNCHANGED <<lifecycle_initialized, network_available, network_loss_pending,
                 conversation_requested, stop_requested>>

\* A conversation is left because its credential was rejected or its token cannot be
\* renewed.
Fail ==
  /\ control = "idle" /\ lifecycle_initialized
  /\ device_state = "IN_CONVERSATION"
  /\ control' \in Leaving
  /\ UNCHANGED lifecycleVars

\* RTC has been left.  The device may have lost its binding meanwhile.
Left ==
  /\ control \in Leaving
  /\ control' = "idle"
  /\ stop_requested' = FALSE
  /\ \/ /\ control = "leave"
        /\ device_state' = "RUNTIME"
        /\ UNCHANGED pairing_requested
     \/ /\ control = "leave_pair"
        /\ device_state' = "PAIRING"
        /\ pairing_requested' \in {pairing_requested, TRUE}
  /\ UNCHANGED <<lifecycle_initialized, networkVars, conversation_requested>>

----------------------------------------------------------------------------
(* The lifecycle alone.                                                    *)

ReducedInit == NoMemory /\ ~running /\ control = "idle"

\* The runtime begins, is told to end, and ends.
ReducedRun ==
  \/ LifecycleInit /\ running' = TRUE /\ UNCHANGED control
  \/ running' = FALSE /\ UNCHANGED <<control, lifecycleVars>>
  \/ LifecycleShutdown /\ running' = FALSE /\ control' = "idle"

ReducedCalled ==
  /\ \/ \E available \in BOOLEAN : SetNetworkAvailable(available) /\ UNCHANGED requestVars
     \/ Ready /\ (\E key \in {"START", "STOP", "PAIR"} : Request(key))
          /\ UNCHANGED networkVars
  /\ UNCHANGED <<control, lifecycle_initialized, device_state>>

ReducedNext ==
  \/ ReducedRun
  \/ /\ \/ ReducedCalled \/ ConversationEnded
        \/ Offline \/ Pair \/ Start \/ Stop
        \/ StartCall \/ StartAccepted \/ StartAbandoned
        \/ Bound \/ PairAgain \/ Unbound \/ Fail \/ Left
     /\ UNCHANGED running

ReducedSpec == ReducedInit /\ [][ReducedNext]_reducedVars
=============================================================================
