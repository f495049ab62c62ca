-------------------------- MODULE DeviceLifecycle --------------------------
(***************************************************************************)
(* The device lifecycle: pairing, binding, conversation and RTC-token      *)
(* renewal (src/core/mybot_device_lifecycle.c), with the two workers that  *)
(* drive it (src/core/mybot_app.c).                                        *)
(*                                                                         *)
(*   control worker   owns the lifecycle: ticks, user requests, results of *)
(*                    background HTTP, and the blocking HTTP and RTC calls *)
(*                    it makes itself.  `control` says where it is; while  *)
(*                    it is inside a call, no other control event runs.    *)
(*   service worker   takes requests off service_queue, performs the HTTP  *)
(*                    exchange and queues the result for the control       *)
(*                    worker (results).                                    *)
(*   network thread   publishes loss and return of connectivity through    *)
(*                    atomics, in the order of set_network_available().    *)
(*   RTC thread       reports the end of a conversation and an expiring    *)
(*                    token: it tests the state, then writes a mailbox.    *)
(*   environment      the device service's answers, the key-value store,   *)
(*                    the user, exit, and loss of power.                   *)
(*                                                                         *)
(* Data is abstracted: a credential is a member of Tokens or PairTokens, a *)
(* conversation is a number, the answer of the service is the class of     *)
(* answers the code tells apart, chosen when the code looks at it.  The    *)
(* tick counters of the two binding polls are abstracted to "the poll is   *)
(* due in this tick or not"; the retry counters are kept.                  *)
(***************************************************************************)
EXTENDS Naturals, Sequences, FiniteSets

CONSTANTS
  Tokens,            \* device credentials the service hands out
  PairTokens,        \* pairing credentials the service hands out
  NoToken,           \* the empty credential
  PairRetryInitial,  \* MYBOT_PAIR_RETRY_INITIAL_TICKS
  PairRetryMax,      \* MYBOT_PAIR_RETRY_MAX_TICKS
  RtcRetryInitial,   \* MYBOT_RTC_TOKEN_RETRY_INITIAL_TICKS
  RtcRetryMax,       \* MYBOT_RTC_TOKEN_RETRY_MAX_TICKS
  RtcCallsDelivered, \* assumption on AOSL: the RTC worker's queue takes every call
  MaxLosses,         \* bound: network losses in one power cycle
  MaxBindings,       \* bound: past this generation nothing disturbs a binding
  MaxConversations   \* bound: conversations in one power cycle

ASSUME TokenAssumption == NoToken \notin Tokens \cup PairTokens

ASSUME RetryAssumption ==
  /\ PairRetryInitial \in Nat \ {0} /\ PairRetryMax \in Nat
  /\ PairRetryInitial <= PairRetryMax
  /\ RtcRetryInitial \in Nat \ {0} /\ RtcRetryMax \in Nat
  /\ RtcRetryInitial <= RtcRetryMax

ASSUME DeliveryAssumption == RtcCallsDelivered \in BOOLEAN

ASSUME BoundAssumption ==
  /\ MaxLosses \in Nat
  /\ MaxBindings \in Nat
  /\ MaxConversations \in Nat

VARIABLES
  \* the binding
  state,                    \* mybot_device_state_t
  device_token, pair_token,
  binding_generation,
  pairing_requested,
  pair_retry_delay, pair_retry_remaining,
  poll_pending,
  \* the conversation
  conversation_id,
  conversation_requested,
  stop_request,
  renewal_requested, renewal_pending,
  renewal_delay, renewal_remaining,
  \* the network
  network_available, network_loss_pending, network_generation,
  \* the workers and their queues
  running, initialized, shutting_down,
  control,                  \* what the control worker is doing
  call_generation,          \* its local copy of network_generation
  stopping_id,              \* its local copy of the conversation to stop
  publisher,                \* the network thread inside set_network_available
  rtc_callback,             \* the RTC thread between its test and its write
  service_queue, results,
  \* what survives a reset
  kv,
  \* history
  conversations,            \* conversations started in this power cycle
  started_with,             \* the credential that started each of them
  requested_in              \* network generation in which the user last asked for one

\* The variables in groups, named for what keeps them together.
credentialVars   == <<device_token, pair_token, binding_generation>>
bindingVars      == <<state, credentialVars>>
retryVars        == <<pair_retry_delay, pair_retry_remaining>>
pairingVars      == <<pairing_requested, retryVars>>
renewingVars     == <<renewal_pending, renewal_delay, renewal_remaining>>
renewalVars      == <<renewal_requested, renewingVars>>
mailboxVars      == <<conversation_requested, stop_request>>
conversationVars == <<renewalVars, mailboxVars, conversation_id>>
deviceVars       == <<bindingVars, pairingVars, conversationVars, kv>>
networkVars      == <<network_available, network_loss_pending, network_generation, publisher>>
powerVars        == <<running, initialized, shutting_down>>
historyVars      == <<conversations, started_with, requested_in>>
outsideVars      == <<networkVars, powerVars, historyVars, rtc_callback>>
queueVars        == <<poll_pending, service_queue, results>>
savedVars        == <<call_generation, stopping_id>>
callVars         == <<control, savedVars>>

vars == <<deviceVars, outsideVars, queueVars, callVars>>

----------------------------------------------------------------------------
(* Values *)

DeviceStates == {"UNPROVISIONED", "PAIRING", "AWAITING_CLAIM", "RUNTIME", "IN_CONVERSATION"}
StopRequests == {"NONE", "DEVICE_HANGUP", "ERROR"}

\* Conversations are numbered from 1 as the service accepts them.
NoConversation == 0

\* Where the control worker leaves a conversation it comes back with a purpose:
\*   leave_stop     action_stop_conversation, then done
\*   leave_pair     action_stop_conversation, then the pairing of the same tick
\*   leave_local    complete_conversation_locally, then done
\*   leave_invalid  complete_conversation_locally, then re-pair
Leaving == {"leave_stop", "leave_pair", "leave_local", "leave_invalid"}

Controls == {"idle", "pair_call", "pair_http", "start_call", "start_http", "joining",
             "renew_call", "renew_http", "drain"} \cup Leaving

PollTypes == {"PAIR_POLL", "DEVICE_POLL"}

Requests ==
  [type : PollTypes \cup {"STOP"},
   network_generation : Nat,
   binding_generation : Nat,
   credential : Tokens \cup PairTokens \cup {NoToken},
   conversation : Nat]

IsPoll(r) == r.type \in PollTypes

\* Everything on its way between the control worker and the service worker.
Outstanding == { service_queue[i] : i \in DOMAIN service_queue }
                 \cup { results[i] : i \in DOMAIN results }

\* Bound: the user and the service disturb the binding finitely often.
MayDisturb == binding_generation < MaxBindings

----------------------------------------------------------------------------
(* Helpers of the source *)

\* next_retry_delay_ticks
NextRetryDelay(current, initial, maximum) ==
  IF current = 0 THEN initial
  ELSE IF current < maximum \div 2 THEN current * 2 ELSE maximum

\* Mutant: a network that was lost and came back is as good as the old one.
NetworkIsBack(generation) == network_available

\* network_request_is_current
NetworkIsCurrent(generation) ==
  network_available /\ network_generation = generation

\* Mutant: the stop request survives its conversation.
SetStateKeepsStop(new) == state' = new /\ UNCHANGED stop_request

\* set_state: leaving a conversation drops the stop request made while it ended.
SetState(new) ==
  /\ state' = new
  /\ stop_request' = IF state = "IN_CONVERSATION" /\ new # state THEN "NONE" ELSE stop_request

\* mybot_kv_store_set and _erase: a failed call may still have taken effect.
Persist(token, ok) == kv' \in IF ok THEN {token} ELSE {kv, token}
Erase == kv' \in {kv, NoToken}

\* Mutant: the generation counts new credentials only.
ClearDeviceAuthSameGeneration ==
  device_token' = NoToken /\ Erase /\ UNCHANGED binding_generation

\* clear_device_auth
ClearDeviceAuth ==
  /\ binding_generation' = binding_generation + 1
  /\ device_token' = NoToken
  /\ Erase

\* Mutant: the mailbox of the RTC thread is not emptied.
ClearRenewalKeepsRequest ==
  /\ renewal_pending' = FALSE /\ renewal_delay' = 0 /\ renewal_remaining' = 0
  /\ UNCHANGED renewal_requested

\* clear_rtc_token_renewal
ClearRenewal ==
  /\ renewal_requested' = FALSE
  /\ renewal_pending' = FALSE
  /\ renewal_delay' = 0
  /\ renewal_remaining' = 0

\* Mutant: the credential is chosen by the wrong type.
CredentialForSwapped(type) == IF type = "DEVICE_POLL" THEN device_token ELSE pair_token

CredentialFor(type) == IF type = "PAIR_POLL" THEN pair_token ELSE device_token

\* create_service_request: a snapshot of the binding and of the network.
RequestFor(type, conversation) ==
  [type |-> type,
   network_generation |-> network_generation,
   binding_generation |-> binding_generation,
   credential |-> CredentialFor(type),
   conversation |-> conversation]

\* submit_service_request: allocation or the queue may refuse the request.
Submit(request) ==
  service_queue' \in {service_queue, Append(service_queue, request)}

\* Mutant: a refused poll stays pending.
PollBindingKeepsPending(type) ==
  /\ ~poll_pending
  /\ Submit(RequestFor(type, NoConversation))
  /\ poll_pending' = TRUE
  /\ UNCHANGED results

\* action_poll_binding: poll_pending stays set only when the queue took the poll.
PollBinding(type) ==
  /\ ~poll_pending
  /\ Submit(RequestFor(type, NoConversation))
  /\ poll_pending' = (service_queue' # service_queue)
  /\ UNCHANGED results

\* Mutant: a rejected device does not ask for a new pair code.
RestartPairingForgets ==
  ClearDeviceAuth /\ SetState("UNPROVISIONED") /\ UNCHANGED <<pairingVars, pair_token>>

\* restart_pairing_after_auth_rejection
RestartPairing ==
  /\ ClearDeviceAuth
  /\ SetState("UNPROVISIONED")
  /\ pairing_requested' = TRUE
  /\ UNCHANGED <<pair_token, retryVars>>

\* Mutant: the conversation is forgotten only by the next one.
BeginLeavingKeepsId(purpose) ==
  /\ control' = purpose
  /\ stopping_id' = conversation_id
  /\ call_generation' = network_generation
  /\ ClearRenewal
  /\ UNCHANGED conversation_id

\* complete_conversation_locally up to the callback that leaves RTC; the
\* callback returns in FinishStop, FinishLocal, FinishPair or FinishInvalid.
BeginLeaving(purpose) ==
  /\ control' = purpose
  /\ stopping_id' = conversation_id
  /\ call_generation' = network_generation
  /\ conversation_id' = NoConversation
  /\ ClearRenewal

EnterIdle ==
  /\ control' = IF shutting_down THEN "drain" ELSE "idle"
  /\ UNCHANGED savedVars

----------------------------------------------------------------------------
(* Power: boot, exit, shutdown, loss of power.                             *)

\* Memory of a runtime that is not initialized (memset in lifecycle_init).
Cleared ==
  /\ state' = "UNPROVISIONED"
  /\ device_token' = NoToken /\ pair_token' = NoToken
  /\ binding_generation' = 0
  /\ pairing_requested' = FALSE
  /\ pair_retry_delay' = 0 /\ pair_retry_remaining' = 0
  /\ poll_pending' = FALSE
  /\ conversation_id' = NoConversation
  /\ conversation_requested' = FALSE
  /\ stop_request' = "NONE"
  /\ ClearRenewal
  /\ network_available' = TRUE /\ network_loss_pending' = FALSE
  /\ network_generation' = 0
  /\ running' = FALSE /\ initialized' = FALSE /\ shutting_down' = FALSE
  /\ control' = "idle" /\ call_generation' = 0 /\ stopping_id' = NoConversation
  /\ publisher' = "idle" /\ rtc_callback' = "idle"
  /\ service_queue' = <<>> /\ results' = <<>>
  /\ conversations' = 0 /\ started_with' = <<>> /\ requested_in' = 0

Init ==
  /\ state = "UNPROVISIONED"
  /\ device_token = NoToken /\ pair_token = NoToken
  /\ binding_generation = 0
  /\ pairing_requested = FALSE
  /\ pair_retry_delay = 0 /\ pair_retry_remaining = 0
  /\ poll_pending = FALSE
  /\ conversation_id = NoConversation
  /\ conversation_requested = FALSE
  /\ stop_request = "NONE"
  /\ renewal_requested = FALSE /\ renewal_pending = FALSE
  /\ renewal_delay = 0 /\ renewal_remaining = 0
  /\ network_available = TRUE /\ network_loss_pending = FALSE
  /\ network_generation = 0
  /\ running = FALSE /\ initialized = FALSE /\ shutting_down = FALSE
  /\ control = "idle" /\ call_generation = 0 /\ stopping_id = NoConversation
  /\ publisher = "idle" /\ rtc_callback = "idle"
  /\ service_queue = <<>> /\ results = <<>>
  /\ kv \in {NoToken} \cup Tokens
  /\ conversations = 0 /\ started_with = <<>> /\ requested_in = 0

\* mybot_device_lifecycle_init when load_device_auth returns a usable record.
BootBound ==
  /\ ~initialized
  /\ kv \in Tokens
  /\ device_token' = kv
  /\ state' = "RUNTIME"
  /\ initialized' = TRUE /\ running' = TRUE
  /\ UNCHANGED <<pairingVars, conversationVars, kv, networkVars, historyVars, queueVars,
                 callVars, pair_token, binding_generation, shutting_down, rtc_callback>>

\* No record, no memory to read it into, or a record that cannot be used (read
\* error, another server or device): the last kind is erased, which may fail.
BootUnbound ==
  /\ ~initialized
  /\ Erase
  /\ pairing_requested' = TRUE
  /\ initialized' = TRUE /\ running' = TRUE
  /\ UNCHANGED <<bindingVars, conversationVars, networkVars, historyVars, queueVars,
                 callVars, shutting_down, rtc_callback, retryVars>>

\* runtime_publish_exit, from any thread: an exit key, a full control queue, mybot_stop.
PublishExit ==
  /\ running
  /\ running' = FALSE
  /\ UNCHANGED <<deviceVars, networkVars, historyVars, queueVars, callVars, initialized,
                 shutting_down, rtc_callback>>

\* mybot_device_lifecycle_shutdown, from the control worker's finalizer.
Shutdown ==
  /\ initialized /\ ~running /\ ~shutting_down
  /\ control = "idle"
  /\ shutting_down' = TRUE
  /\ pairing_requested' = FALSE
  /\ conversation_requested' = FALSE
  /\ stop_request' = "NONE"
  /\ IF state = "IN_CONVERSATION"
     THEN BeginLeaving(IF network_available /\ ~network_loss_pending
                       THEN "leave_stop" ELSE "leave_local")
     ELSE /\ renewal_requested' = FALSE
          /\ control' = "drain"
          /\ UNCHANGED <<savedVars, conversation_id, renewingVars>>
  /\ UNCHANGED <<bindingVars, kv, networkVars, historyVars, queueVars, running, initialized,
                 rtc_callback, retryVars>>

\* Mutant: the finalizer of the control worker waits for results it would handle.
WorkersDoneResultsToo ==
  service_queue = <<>> /\ results = <<>> /\ publisher = "idle" /\ rtc_callback = "idle"

\* destroy_service_queue waits for the service worker; Wi-Fi and RTC are stopped too.
WorkersDone == service_queue = <<>> /\ publisher = "idle" /\ rtc_callback = "idle"

\* The control worker ends: the results it has not taken are freed with its queue.
PowerOff ==
  /\ control = "drain"
  /\ WorkersDone
  /\ Cleared
  /\ UNCHANGED kv

\* Loss of power at any point: only the store survives.
Crash ==
  /\ initialized
  /\ Cleared
  /\ UNCHANGED kv

----------------------------------------------------------------------------
(* The network thread: mybot_device_lifecycle_set_network_available.       *)

\* The exchange finds the network available and withdraws it.
NetworkDown ==
  /\ initialized
  /\ publisher = "idle"
  /\ network_available
  /\ network_generation < MaxLosses
  /\ network_available' = FALSE
  /\ publisher' = "generation"
  /\ UNCHANGED <<deviceVars, powerVars, historyVars, queueVars, callVars,
                 network_loss_pending, network_generation, rtc_callback>>

NetworkDownGeneration ==
  /\ publisher = "generation"
  /\ network_generation' = network_generation + 1
  /\ publisher' = "loss"
  /\ UNCHANGED <<deviceVars, powerVars, historyVars, queueVars, callVars, network_available,
                 network_loss_pending, rtc_callback>>

\* Mutant: the loss is left to the next poll to find out.
NetworkDownLossSilent ==
  /\ publisher = "loss"
  /\ publisher' = "idle"
  /\ UNCHANGED <<deviceVars, powerVars, historyVars, queueVars, callVars, network_available,
                 network_loss_pending, network_generation, rtc_callback>>

NetworkDownLoss ==
  /\ publisher = "loss"
  /\ network_loss_pending' = TRUE
  /\ publisher' = "idle"
  /\ UNCHANGED <<deviceVars, powerVars, historyVars, queueVars, callVars, network_available,
                 network_generation, rtc_callback>>

\* Wi-Fi events are serialized, so a return follows the whole publication of a loss.  (The
\* control worker's late publication, mybot_app.c:1004, is taken to be no exception.)
NetworkUp ==
  /\ initialized
  /\ publisher = "idle"
  /\ ~network_available
  /\ network_available' = TRUE
  /\ UNCHANGED <<deviceVars, powerVars, historyVars, queueVars, callVars,
                 network_loss_pending, network_generation, publisher, rtc_callback>>

----------------------------------------------------------------------------
(* The RTC thread.  Its callbacks run on the RTC worker, which leaving RTC  *)
(* waits for (LeftRtc).                                                    *)

\* notify_conversation_ended and request_rtc_token_renewal: the test ...
RtcCallback(kind) ==
  /\ rtc_callback = "idle"
  /\ initialized /\ ~shutting_down
  /\ state = "IN_CONVERSATION"
  /\ kind = "expiring" => network_available /\ running
  /\ rtc_callback' = kind
  /\ UNCHANGED <<deviceVars, networkVars, powerVars, historyVars, queueVars, callVars>>

\* ... and the write of notify_conversation_ended
NotifyConversationEnded ==
  /\ rtc_callback = "ended"
  /\ stop_request' = "ERROR"
  /\ rtc_callback' = "idle"
  /\ UNCHANGED <<bindingVars, pairingVars, renewalVars, kv, networkVars, powerVars,
                 historyVars, queueVars, callVars, conversation_requested, conversation_id>>

\* ... and the write of request_rtc_token_renewal
RequestRenewal ==
  /\ rtc_callback = "expiring"
  /\ renewal_requested' = TRUE
  /\ rtc_callback' = "idle"
  /\ UNCHANGED <<bindingVars, pairingVars, mailboxVars, kv, networkVars, powerVars,
                 historyVars, queueVars, callVars, conversation_id, renewingVars>>

----------------------------------------------------------------------------
(* User requests, on the control worker.                                   *)

ControlReady == initialized /\ running /\ control = "idle"

\* mybot_device_lifecycle_request_pair
RequestPair ==
  /\ ControlReady /\ MayDisturb
  /\ pairing_requested' = TRUE
  /\ UNCHANGED <<bindingVars, conversationVars, kv, outsideVars, queueVars, callVars,
                 retryVars>>

\* mybot_device_lifecycle_request_start
RequestStart ==
  /\ ControlReady
  /\ network_available
  /\ state = "RUNTIME"
  /\ conversations < MaxConversations
  /\ conversation_requested' = TRUE
  /\ requested_in' = network_generation
  /\ UNCHANGED <<bindingVars, pairingVars, renewalVars, kv, networkVars, powerVars,
                 queueVars, callVars, stop_request, conversations, started_with,
                 conversation_id, rtc_callback>>

\* mybot_device_lifecycle_request_stop
RequestStop ==
  /\ ControlReady
  /\ state = "IN_CONVERSATION"
  /\ stop_request' = "DEVICE_HANGUP"
  /\ UNCHANGED <<bindingVars, pairingVars, renewalVars, kv, outsideVars, queueVars,
                 callVars, conversation_requested, conversation_id>>

----------------------------------------------------------------------------
(* mybot_device_lifecycle_tick: one action per branch, in the order of the *)
(* code.  Ticks that change nothing are stuttering steps.                  *)

Tick == ControlReady /\ ~shutting_down
OnlineTick == Tick /\ ~network_loss_pending /\ network_available
BoundTick == OnlineTick /\ ~pairing_requested

\* Mutant: a requested start outlives the loss.
DropStopRequest == stop_request' = "NONE" /\ UNCHANGED conversation_requested

\* Without the network no request of the user or of the RTC thread is kept.
DropRequests == stop_request' = "NONE" /\ conversation_requested' = FALSE

\* A loss is consumed even when the network is already back.
TickLoss ==
  /\ Tick
  /\ network_loss_pending
  /\ network_loss_pending' = FALSE
  /\ DropRequests
  /\ IF state = "IN_CONVERSATION" THEN BeginLeaving("leave_local")
                                  ELSE UNCHANGED <<renewalVars, callVars, conversation_id>>
  /\ UNCHANGED <<bindingVars, pairingVars, kv, powerVars, historyVars, queueVars,
                 network_available, network_generation, publisher, rtc_callback>>

TickOffline ==
  /\ Tick
  /\ ~network_loss_pending
  /\ ~network_available
  /\ DropRequests
  /\ UNCHANGED <<bindingVars, pairingVars, renewalVars, kv, outsideVars, queueVars,
                 callVars, conversation_id>>

\* The pairing branch once no conversation is left: forget the binding, then
\* call action_create_pair_code.
EnterPairing ==
  /\ pairing_requested' = FALSE
  /\ ClearDeviceAuth
  /\ conversation_id' = NoConversation
  /\ state' = "PAIRING"
  /\ control' = "pair_call"
  /\ UNCHANGED <<pair_token, retryVars>>

\* Mutant: the start that the user asked for before the re-pair is kept.
TickPairKeepsStart ==
  /\ OnlineTick
  /\ pairing_requested
  /\ IF state = "IN_CONVERSATION"
     THEN BeginLeaving("leave_pair") /\ UNCHANGED <<bindingVars, pairingVars, kv>>
     ELSE EnterPairing /\ UNCHANGED <<renewalVars, savedVars>>
  /\ UNCHANGED <<outsideVars, queueVars, stop_request, conversation_requested>>

TickPair ==
  /\ OnlineTick
  /\ pairing_requested
  /\ conversation_requested' = FALSE
  /\ IF state = "IN_CONVERSATION"
     THEN /\ BeginLeaving("leave_pair")
          /\ UNCHANGED <<bindingVars, pairingVars, kv>>
     ELSE /\ EnterPairing
          /\ UNCHANGED <<renewalVars, savedVars>>
  /\ UNCHANGED <<outsideVars, queueVars, stop_request>>

TickPairRetry ==
  /\ BoundTick
  /\ state = "UNPROVISIONED"
  /\ pair_retry_remaining > 0
  /\ pair_retry_remaining' = pair_retry_remaining - 1
  /\ IF pair_retry_remaining = 1
     THEN state' = "PAIRING" /\ control' = "pair_call"
     ELSE UNCHANGED <<state, control>>
  /\ UNCHANGED <<credentialVars, conversationVars, kv, outsideVars, queueVars, savedVars,
                 pairing_requested, pair_retry_delay>>

\* The tick in which the pairing poll is due.
TickPairPoll ==
  /\ BoundTick
  /\ state = "AWAITING_CLAIM"
  /\ PollBinding("PAIR_POLL")
  /\ UNCHANGED <<deviceVars, outsideVars, callVars>>

TickStart ==
  /\ BoundTick
  /\ state = "RUNTIME"
  /\ conversation_requested
  /\ conversation_requested' = FALSE
  /\ stop_request' = "NONE"
  /\ control' = "start_call"
  /\ UNCHANGED <<bindingVars, pairingVars, renewalVars, kv, outsideVars, queueVars,
                 savedVars, conversation_id>>

\* The tick in which the binding poll of a bound device is due.  A requested
\* start, a requested stop and a due renewal all come first.
TickDevicePoll ==
  /\ BoundTick
  /\ \/ state = "RUNTIME" /\ ~conversation_requested
     \/ /\ state = "IN_CONVERSATION"
        /\ stop_request = "NONE"
        /\ ~renewal_requested
        /\ ~renewal_pending
  /\ PollBinding("DEVICE_POLL")
  /\ UNCHANGED <<deviceVars, outsideVars, callVars>>

\* Mutant: the renewal is looked at before the stop request.
StopDueAfterRenewal == stop_request # "NONE" /\ ~renewal_requested /\ ~renewal_pending

StopDue == stop_request # "NONE"

TickStop ==
  /\ BoundTick
  /\ state = "IN_CONVERSATION"
  /\ StopDue
  /\ stop_request' = "NONE"
  /\ BeginLeaving("leave_stop")
  /\ UNCHANGED <<bindingVars, pairingVars, kv, outsideVars, queueVars,
                 conversation_requested>>

\* Mutant: the delay is not counted down.
RenewalCountdownStuck == IF renewal_requested THEN 0 ELSE renewal_remaining

\* The ticks left before the renewal that is due or asked for.
RenewalCountdown ==
  IF renewal_requested \/ renewal_remaining = 0 THEN 0 ELSE renewal_remaining - 1

\* A requested renewal starts at once; a failed one waits for its delay, and the
\* binding poll may be due meanwhile.
TickRenew ==
  /\ BoundTick
  /\ state = "IN_CONVERSATION"
  /\ stop_request = "NONE"
  /\ renewal_requested \/ renewal_pending
  /\ renewal_requested' = FALSE
  /\ renewal_pending' = TRUE
  /\ renewal_delay' = IF renewal_requested THEN 0 ELSE renewal_delay
  /\ renewal_remaining' = RenewalCountdown
  /\ IF RenewalCountdown = 0
     THEN control' = "renew_call" /\ UNCHANGED queueVars
     ELSE /\ UNCHANGED control
          /\ PollBinding("DEVICE_POLL") \/ UNCHANGED queueVars
  /\ UNCHANGED <<bindingVars, pairingVars, mailboxVars, kv, outsideVars, savedVars,
                 conversation_id>>

----------------------------------------------------------------------------
(* The end of complete_conversation_locally, and what follows it.          *)

\* action_stop_conversation after the local teardown: notify the service once.
NotifyStop ==
  \/ ~NetworkIsCurrent(call_generation) /\ UNCHANGED service_queue
  \/ NetworkIsCurrent(call_generation) /\ Submit(RequestFor("STOP", stopping_id))

\* mybot_agora_rtc_leave runs on the RTC worker, after the callback in progress;
\* from then on the worker ignores the events of the connection it left.  Only a
\* call the worker's queue refuses lets a callback overlap what follows.
LeftRtc(purpose) ==
  /\ control = purpose
  /\ RtcCallsDelivered => rtc_callback = "idle"

FinishStop ==
  /\ LeftRtc("leave_stop")
  /\ SetState("RUNTIME")
  /\ NotifyStop
  /\ EnterIdle
  /\ UNCHANGED <<credentialVars, pairingVars, renewalVars, kv, outsideVars,
                 conversation_requested, poll_pending, results, conversation_id>>

FinishLocal ==
  /\ LeftRtc("leave_local")
  /\ SetState("RUNTIME")
  /\ EnterIdle
  /\ UNCHANGED <<credentialVars, pairingVars, renewalVars, kv, outsideVars, queueVars,
                 conversation_requested, conversation_id>>

\* The stop request is built before the binding is forgotten.
FinishPair ==
  /\ LeftRtc("leave_pair")
  /\ stop_request' = "NONE"
  /\ NotifyStop
  /\ EnterPairing
  /\ UNCHANGED <<renewalVars, outsideVars, savedVars, conversation_requested, poll_pending,
                 results>>

\* invalidate_runtime_binding
FinishInvalid ==
  /\ LeftRtc("leave_invalid")
  /\ RestartPairing
  /\ EnterIdle
  /\ UNCHANGED <<renewalVars, outsideVars, queueVars, conversation_requested,
                 conversation_id>>

----------------------------------------------------------------------------
(* Blocking calls of the control worker: a *_call step takes the network   *)
(* snapshot, a *_http step looks at the answer and at the network again.   *)

\* The call ends and the control worker takes its next event.
Return ==
  /\ control' = "idle"
  /\ UNCHANGED <<networkVars, powerVars, rtc_callback, queueVars, savedVars>>

\* action_create_pair_code without a usable network, before or after the call.
PairUnavailable ==
  /\ \/ control = "pair_call" /\ ~network_available
     \/ control = "pair_http" /\ ~NetworkIsCurrent(call_generation)
  /\ state' = "UNPROVISIONED"
  /\ pairing_requested' = TRUE
  /\ Return
  /\ UNCHANGED <<credentialVars, conversationVars, kv, historyVars, retryVars>>

PairCall ==
  /\ control = "pair_call"
  /\ network_available
  /\ call_generation' = network_generation
  /\ control' = "pair_http"
  /\ UNCHANGED <<deviceVars, outsideVars, queueVars, stopping_id>>

\* Any error of the service: back off, and retry from UNPROVISIONED.
PairFail ==
  /\ control = "pair_http"
  /\ NetworkIsCurrent(call_generation)
  /\ pair_retry_delay' = NextRetryDelay(pair_retry_delay, PairRetryInitial, PairRetryMax)
  /\ pair_retry_remaining' = pair_retry_delay'
  /\ state' = "UNPROVISIONED"
  /\ Return
  /\ UNCHANGED <<credentialVars, conversationVars, kv, historyVars, pairing_requested>>

PairCode ==
  /\ control = "pair_http"
  /\ NetworkIsCurrent(call_generation)
  /\ pair_retry_delay' = 0 /\ pair_retry_remaining' = 0
  /\ binding_generation' = binding_generation + 1
  /\ pair_token' \in PairTokens
  /\ device_token' = NoToken
  /\ state' = "AWAITING_CLAIM"
  /\ Return
  /\ UNCHANGED <<conversationVars, kv, historyVars, pairing_requested>>

\* action_start_conversation ends without one: no memory, no network, the
\* network changed under the call, or the service refused.
StartAbandoned ==
  /\ control \in {"start_call", "start_http"}
  /\ Return
  /\ UNCHANGED <<deviceVars, historyVars>>

StartCall ==
  /\ control = "start_call"
  /\ network_available
  /\ call_generation' = network_generation
  /\ control' = "start_http"
  /\ UNCHANGED <<deviceVars, outsideVars, queueVars, stopping_id>>

\* 401, 403 or 409
StartRejected ==
  /\ control = "start_http" /\ MayDisturb
  /\ NetworkIsCurrent(call_generation)
  /\ RestartPairing
  /\ Return
  /\ UNCHANGED <<renewalVars, historyVars, conversation_requested, conversation_id>>

StartAccepted ==
  /\ control = "start_http"
  /\ NetworkIsCurrent(call_generation)
  /\ conversations' = conversations + 1
  /\ conversation_id' = conversations'
  /\ started_with' = Append(started_with, device_token)
  /\ ClearRenewal
  /\ SetState("IN_CONVERSATION")
  /\ control' = "joining"
  /\ UNCHANGED <<credentialVars, pairingVars, kv, networkVars, powerVars, queueVars,
                 savedVars, conversation_requested, requested_in, rtc_callback>>

\* on_conversation_start: media, RTC init and join.  Any failure asks for the end
\* of the conversation, and so does an exit published before the callback begins.
JoinDone ==
  /\ control = "joining"
  /\ Return
  /\ stop_request' \in {stop_request, "ERROR"}
  /\ UNCHANGED <<bindingVars, pairingVars, renewalVars, kv, historyVars,
                 conversation_requested, conversation_id>>

RenewCall ==
  /\ control = "renew_call"
  /\ call_generation' = network_generation
  /\ control' = "renew_http"
  /\ UNCHANGED <<deviceVars, outsideVars, queueVars, stopping_id>>

\* The answer is too late: the renewal stays pending for the next tick.
RenewStale ==
  /\ control = "renew_http"
  /\ ~NetworkIsCurrent(call_generation)
  /\ Return
  /\ UNCHANGED <<deviceVars, historyVars>>

RenewRejected ==
  /\ control = "renew_http" /\ MayDisturb
  /\ NetworkIsCurrent(call_generation)
  /\ BeginLeaving("leave_invalid")
  /\ UNCHANGED <<bindingVars, pairingVars, mailboxVars, kv, outsideVars, queueVars>>

\* No channel to renew for, 400 or 410, or an answer for another channel.
RenewHopeless ==
  /\ \/ control = "renew_call"
     \/ control = "renew_http" /\ NetworkIsCurrent(call_generation)
  /\ BeginLeaving("leave_stop")
  /\ UNCHANGED <<bindingVars, pairingVars, mailboxVars, kv, outsideVars, queueVars>>

\* The service cannot answer, or the RTC SDK refuses the token.
RenewFail ==
  /\ control = "renew_http"
  /\ NetworkIsCurrent(call_generation)
  /\ renewal_delay' = NextRetryDelay(renewal_delay, RtcRetryInitial, RtcRetryMax)
  /\ renewal_remaining' = renewal_delay'
  /\ Return
  /\ UNCHANGED <<bindingVars, pairingVars, mailboxVars, kv, historyVars, renewal_requested,
                 renewal_pending, conversation_id>>

Renewed ==
  /\ control = "renew_http" /\ running
  /\ NetworkIsCurrent(call_generation)
  /\ renewal_pending' = FALSE /\ renewal_delay' = 0 /\ renewal_remaining' = 0
  /\ Return
  /\ UNCHANGED <<bindingVars, pairingVars, mailboxVars, kv, historyVars, renewal_requested,
                 conversation_id>>

----------------------------------------------------------------------------
(* Background HTTP.                                                        *)

\* execute_service_request: once shutdown disabled results a poll is dropped
\* before its exchange and any answer after it; so is an answer after exit.
ServiceExecute ==
  /\ service_queue # <<>>
  /\ service_queue' = Tail(service_queue)
  /\ IF running /\ control # "drain"
     THEN results' = Append(results, Head(service_queue))
     ELSE UNCHANGED results
  /\ UNCHANGED <<deviceVars, outsideVars, callVars, poll_pending>>

\* The control queue has no room for the result: it is dropped, and the runtime exits.
ServiceResultLost ==
  /\ service_queue # <<>>
  /\ running
  /\ service_queue' = Tail(service_queue)
  /\ running' = FALSE
  /\ UNCHANGED <<deviceVars, networkVars, historyVars, callVars, poll_pending, results,
                 initialized, shutting_down, rtc_callback>>

\* Mutants: the result of a stop clears the poll as well; a stale poll does not.
ReturnsPollAlways(r) == TRUE
ReturnsPollIfCurrent(r) == IsPoll(r) /\ NetworkIsCurrent(r.network_generation)

\* The result ends the poll that is pending, whatever it says.
ReturnsPoll(r) == IsPoll(r)

\* handle_service_result and mybot_device_lifecycle_service_result
TakeResult ==
  /\ ControlReady
  /\ results # <<>>
  /\ results' = Tail(results)
  /\ poll_pending' = (poll_pending /\ ~ReturnsPoll(Head(results)))
  /\ UNCHANGED <<outsideVars, service_queue>>

\* The result belongs to the present network and the present binding.
ResultIsCurrent(r) ==
  /\ NetworkIsCurrent(r.network_generation)
  /\ binding_generation = r.binding_generation
  /\ ~pairing_requested

\* The type of the result fits the state.
ResultApplies(r) ==
  /\ ResultIsCurrent(r)
  /\ IF r.type = "PAIR_POLL" THEN state = "AWAITING_CLAIM"
                             ELSE state \in {"RUNTIME", "IN_CONVERSATION"}

\* A stale or unfitting result, or an answer the device need not act on.
ResultWithoutEffect ==
  /\ TakeResult
  /\ UNCHANGED <<deviceVars, callVars>>

\* A pairing that was rejected, expired, failed, or undone before it was claimed.
PairingRefused ==
  /\ TakeResult
  /\ Head(results).type = "PAIR_POLL" /\ ResultApplies(Head(results)) /\ MayDisturb
  /\ pairing_requested' = TRUE
  /\ state' \in {"AWAITING_CLAIM", "UNPROVISIONED"}
  /\ UNCHANGED <<credentialVars, conversationVars, kv, callVars, retryVars>>

\* The device was claimed.  The service hands the credential out once; if the
\* store refuses it the device polls again and persists the one it remembers.
PairingBound ==
  /\ TakeResult
  /\ Head(results).type = "PAIR_POLL" /\ ResultApplies(Head(results))
  /\ \E given \in Tokens \cup {NoToken} :
       /\ given # NoToken => MayDisturb \/ device_token = NoToken
       /\ binding_generation' = binding_generation + (IF given # NoToken THEN 1 ELSE 0)
       /\ device_token' = IF given # NoToken THEN given ELSE device_token
  /\ \/ device_token' = NoToken /\ UNCHANGED <<state, kv>>
     \/ device_token' # NoToken /\ Persist(device_token', TRUE) /\ state' = "RUNTIME"
     \/ device_token' # NoToken /\ Persist(device_token', FALSE) /\ UNCHANGED state
  /\ UNCHANGED <<pairingVars, conversationVars, callVars, pair_token>>

\* The credential was rejected (poll or stop) or the device was unbound (poll).
BindingInvalidated ==
  /\ TakeResult
  /\ Head(results).type # "PAIR_POLL" /\ ResultApplies(Head(results)) /\ MayDisturb
  /\ IF state = "IN_CONVERSATION"
     THEN /\ BeginLeaving("leave_invalid")
          /\ UNCHANGED <<bindingVars, pairingVars, kv, stop_request>>
     ELSE /\ RestartPairing
          /\ UNCHANGED <<renewalVars, callVars, conversation_id>>
  /\ UNCHANGED conversation_requested

\* A result that reaches the control worker after exit is freed unread.
DropResult ==
  /\ initialized /\ ~running /\ control = "idle"
  /\ results # <<>>
  /\ results' = Tail(results)
  /\ UNCHANGED <<deviceVars, outsideVars, callVars, poll_pending, service_queue>>

----------------------------------------------------------------------------
Ticks == \/ TickLoss \/ TickOffline \/ TickPair \/ TickPairRetry \/ TickPairPoll
         \/ TickStart \/ TickDevicePoll \/ TickStop \/ TickRenew

Finishes == FinishStop \/ FinishLocal \/ FinishPair \/ FinishInvalid

Calls == \/ PairUnavailable \/ PairCall \/ PairFail \/ PairCode
         \/ StartAbandoned \/ StartCall \/ StartRejected \/ StartAccepted \/ JoinDone
         \/ RenewCall \/ RenewStale \/ RenewRejected \/ RenewHopeless \/ RenewFail \/ Renewed

Applied == ResultWithoutEffect \/ PairingRefused \/ PairingBound \/ BindingInvalidated

Power == BootBound \/ BootUnbound \/ PublishExit \/ Shutdown \/ PowerOff \/ Crash

Network == NetworkDown \/ NetworkDownGeneration \/ NetworkDownLoss \/ NetworkUp

Rtc == (\E kind \in {"ended", "expiring"} : RtcCallback(kind))
         \/ NotifyConversationEnded \/ RequestRenewal

User == RequestPair \/ RequestStart \/ RequestStop

Service == ServiceExecute \/ ServiceResultLost

Next == Power \/ Network \/ Rtc \/ User \/ Ticks \/ Finishes \/ Calls \/ Service
          \/ Applied \/ DropResult

Spec == Init /\ [][Next]_vars

----------------------------------------------------------------------------
(* Types *)

FlagTypes ==
  /\ pairing_requested \in BOOLEAN /\ poll_pending \in BOOLEAN
  /\ conversation_requested \in BOOLEAN
  /\ renewal_requested \in BOOLEAN /\ renewal_pending \in BOOLEAN
  /\ network_available \in BOOLEAN /\ network_loss_pending \in BOOLEAN
  /\ running \in BOOLEAN /\ initialized \in BOOLEAN /\ shutting_down \in BOOLEAN

DataTypes ==
  /\ state \in DeviceStates
  /\ device_token \in Tokens \cup {NoToken}
  /\ pair_token \in PairTokens \cup {NoToken}
  /\ kv \in Tokens \cup {NoToken}
  /\ binding_generation \in Nat /\ network_generation \in Nat
  /\ pair_retry_delay \in 0 .. PairRetryMax
  /\ pair_retry_remaining \in 0 .. PairRetryMax
  /\ renewal_delay \in 0 .. RtcRetryMax
  /\ renewal_remaining \in 0 .. RtcRetryMax
  /\ conversation_id \in Nat /\ conversations \in Nat
  /\ started_with \in Seq(Tokens \cup {NoToken})
  /\ stop_request \in StopRequests
  /\ control \in Controls
  /\ call_generation \in Nat /\ stopping_id \in Nat /\ requested_in \in Nat
  /\ publisher \in {"idle", "generation", "loss"}
  /\ rtc_callback \in {"idle", "ended", "expiring"}
  /\ service_queue \in Seq(Requests) /\ results \in Seq(Requests)

\* Every variable keeps the type of its C field (mybot_device_lifecycle_t), and
\* every queue holds service requests.
TypeOK == FlagTypes /\ DataTypes

----------------------------------------------------------------------------
(* Safety *)

\* A running device that is not bound always has a reason to act: a pairing
\* request, a retry that counts down, or a call in progress.  PAIRING lasts
\* exactly as long as the call (tick() returns at once from PAIRING, so a device
\* left there would never pair again).
NeverStranded ==
  initialized /\ ~shutting_down =>
    /\ state = "UNPROVISIONED" => pairing_requested \/ pair_retry_remaining > 0
    /\ state = "PAIRING" <=> control \in {"pair_call", "pair_http"}

\* A device that acts as bound (RUNTIME, IN_CONVERSATION) holds the credential a
\* reset would find: persist_device_auth comes before RUNTIME and every way to
\* lose the credential leaves RUNTIME, across failing stores and lost power.
CredentialIsDurable ==
  state \in {"RUNTIME", "IN_CONVERSATION"} => device_token # NoToken /\ kv = device_token

\* Matching the binding generation is as good as comparing credentials: a
\* request on its way that carries the present generation carries the credential
\* in use, whatever was paired, unbound and paired again meanwhile.
GenerationIdentifiesCredential ==
  \A r \in Outstanding :
    r.binding_generation = binding_generation =>
      r.credential = CredentialFor(r.type)

\* poll_pending is the only thing that keeps polls from piling up behind a slow
\* service: while the runtime runs, exactly one poll is on its way when it is
\* set and none when it is clear, across reconnects and re-pairing.
OnePollOutstanding ==
  running =>
    LET Polls(q) == { i \in DOMAIN q : IsPoll(q[i]) }
    IN Cardinality(Polls(service_queue)) + Cardinality(Polls(results))
         = IF poll_pending THEN 1 ELSE 0

\* A stop request exists only inside the conversation it was made for, although
\* the RTC thread tests the state before it writes the request.
StopRequestInConversation ==
  stop_request # "NONE" => state = "IN_CONVERSATION"

\* A device knows the conversation it is in, and only while it is in it: from
\* the answer of the service until it starts to leave RTC.
ConversationKnown ==
  conversation_id # NoConversation
    <=> state = "IN_CONVERSATION" /\ control \notin Leaving

\* A network loss ends everything the user asked for before it: a conversation
\* runs over the network it was requested on, unless a loss is still being
\* published or waits for the next tick, however the loss, the return, the
\* request, the service's answer and the ticks are interleaved.
NoConversationAcrossLoss ==
  conversation_id # NoConversation =>
    requested_in = network_generation \/ network_loss_pending \/ publisher = "loss"

\* A requested start belongs to the present binding: re-pairing, rejection and
\* the start itself leave no request behind for the next binding.
PendingStartIsFresh ==
  conversation_requested => state = "RUNTIME" \/ pairing_requested

\* The service is told to stop a conversation with the credential that started
\* it, at most once, and never one the device is still in.
StopsAreForEndedConversations ==
  LET sent == results \o service_queue
      Stops == { i \in DOMAIN sent : sent[i].type = "STOP" }
  IN \A i \in Stops :
       /\ sent[i].conversation \in 1 .. conversations
       /\ sent[i].credential = started_with[sent[i].conversation]
       /\ sent[i].conversation # conversation_id
       /\ \A j \in Stops : sent[j].conversation = sent[i].conversation => i = j

\* A conversation begins without a stop request or a token renewal left over
\* from the one before, whatever the RTC thread wrote while that one ended.
FreshConversation ==
  [][state # "IN_CONVERSATION" /\ state' = "IN_CONVERSATION" =>
       stop_request' = "NONE" /\ ~renewal_requested' /\ ~renewal_pending']_vars

----------------------------------------------------------------------------
(* The abstract specification.                                             *)

BindingPower == IF ~initialized THEN "off" ELSE IF running THEN "on" ELSE "exiting"

BindingPhase ==
  IF state = "RUNTIME" THEN "bound"
  ELSE IF state = "IN_CONVERSATION" THEN "talking" ELSE "unbound"

\* A user's request counts until the service has answered the start it led to:
\* the control worker clears the request before it calls the service.
StartAsked ==
  \/ conversation_requested /\ state = "RUNTIME"
  \/ control \in {"start_call", "start_http"}

\* The stop requests on their way, by what the service learns from them.
StopsOnTheirWay ==
  { [credential |-> r.credential, conversation |-> r.conversation] :
      r \in { s \in Outstanding : s.type = "STOP" } }

Binding == INSTANCE DeviceBinding WITH
  Credentials <- Tokens, NoCredential <- NoToken,
  power <- BindingPower, phase <- BindingPhase,
  credential <- device_token, record <- kv,
  asked <- StartAsked, talks <- conversations, told <- StopsOnTheirWay

\* However pairing, conversations, renewals, losses of the network, late answers,
\* failing stores, exits and losses of power are interleaved, the device is to its
\* service what DeviceBinding promises: bound only by the credential it would find
\* after a reset, in conversation only once for each request made to this binding,
\* and each conversation ended with a single notice that names its own credential.
ImplementsBinding == Binding!BindingSpec

----------------------------------------------------------------------------
(* What the application sees.                                              *)

\* The lifecycle is in use: the memory of a runtime that ends is not read again.
Up == initialized /\ ~shutting_down

ReducedState == IF Up /\ state \in {"RUNTIME", "IN_CONVERSATION"} THEN state ELSE "PAIRING"

\* The application takes events again while the lifecycle is in its other calls.
ReducedControl ==
  CASE Up /\ control = "start_call" -> "starting"
    [] Up /\ control = "start_http" -> "calling"
    [] Up /\ control \in {"leave_stop", "leave_local"} -> "leave"
    [] Up /\ control \in {"leave_pair", "leave_invalid"} -> "leave_pair"
    [] OTHER -> "idle"

\* No loss has begun since the start call.
CallCurrent ==
  control = "start_http" /\ call_generation = network_generation /\ publisher # "generation"

Reduced == INSTANCE ReducedLifecycle WITH
  lifecycle_initialized <- Up, device_state <- ReducedState, control <- ReducedControl,
  network_available <- Up /\ network_available,
  network_loss_pending <- Up /\ (network_loss_pending \/ publisher # "idle"),
  call_current <- Up /\ CallCurrent,
  pairing_requested <- Up /\ pairing_requested /\ control # "leave_pair",
  conversation_requested <- Up /\ conversation_requested,
  stop_requested <- Up /\ stop_request # "NONE"

\* The reduction that AppControl composes with the application leaves out no
\* behaviour of the lifecycle: a loss published between two steps of a tick, an
\* answer or a callback that comes late, a credential rejected in the middle of a
\* start, a conversation or a renewal.
ImplementsReduced == Reduced!ReducedSpec

----------------------------------------------------------------------------
(* Fairness.  Every worker goes on with what it has begun: the HTTP client  *)
(* has timeouts, the workers drain their queues, and the 100 ms timer and   *)
(* the events of the control queue take turns while the runtime runs (a     *)
(* call in between disables both, hence strong fairness).  Leaving RTC has  *)
(* its turn in the queue of the RTC worker between its callbacks.           *)

ControlFairness ==
  /\ SF_vars(Ticks)
  /\ SF_vars(Applied)
  /\ WF_vars(DropResult)
  /\ WF_vars(Calls)
  /\ SF_vars(Finishes)
  /\ WF_vars(Shutdown)
  /\ WF_vars(PowerOff)

ThreadFairness ==
  /\ WF_vars(Service)
  /\ WF_vars(NetworkDownGeneration)
  /\ WF_vars(NetworkDownLoss)
  /\ WF_vars(NotifyConversationEnded \/ RequestRenewal)

\* What the environment owes a device that is to be bound: the network comes
\* back, a pair code is given to a device that keeps asking, and a device that
\* keeps polling is claimed and its credential stored.
EnvironmentFairness ==
  /\ WF_vars(NetworkUp)
  /\ SF_vars(PairCode)
  /\ SF_vars(PairingBound /\ state' = "RUNTIME")

FairSpec == Spec /\ ControlFairness /\ ThreadFairness

----------------------------------------------------------------------------
(* Liveness.  Losing power excuses everything.                             *)

\* Every stop request, from the user or from the RTC thread, ends the
\* conversation, although a tick that finds the network gone discards it.
StopRequestEndsConversation ==
  stop_request # "NONE" ~> state # "IN_CONVERSATION"

\* A conversation whose network was lost ends, also when the network is back
\* before the control worker looks.
LossEndsConversation ==
  (state = "IN_CONVERSATION" /\ requested_in # network_generation)
    ~> state # "IN_CONVERSATION"

\* A poll that is on its way comes back, so that polling never wedges: also when
\* its network or its binding is gone, or the queue refused it.
PollReturns == poll_pending ~> ~poll_pending \/ ~running

\* A pending token renewal is tried again until it succeeds or the conversation
\* ends, whatever failed before.
RenewalRetried ==
  renewal_pending ~> control = "renew_call" \/ ~renewal_pending

\* An exit completes: every call in progress, the conversation, the stop
\* notification and the service worker come to an end.
ExitCompletes == (initialized /\ ~running) ~> ~initialized

\* A device without a binding gets one as soon as the environment lets it: no
\* failure of the network, the service, a queue or the store leaves it waiting.
EventuallyBound ==
  EnvironmentFairness => (running ~> state \in {"RUNTIME", "IN_CONVERSATION"} \/ ~running)

=============================================================================
