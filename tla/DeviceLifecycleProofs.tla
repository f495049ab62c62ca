----------------------- MODULE DeviceLifecycleProofs -----------------------
(***************************************************************************)
(* Proofs about DeviceLifecycle, for every number of credentials, retry    *)
(* delay, network loss, binding and conversation.                          *)
(***************************************************************************)
EXTENDS DeviceLifecycle, TLAPS

(* The inductive invariants.                                               *)

\* What the control worker is doing fits the state of the device: it blocks in
\* the service only in the state that made the call, and it leaves a conversation
\* only while it is in one.
ControlInv ==
  /\ state = "PAIRING" <=> control \in {"pair_call", "pair_http"}
  /\ control \in {"start_call", "start_http"} => state = "RUNTIME"
  /\ control \in {"joining", "renew_call", "renew_http"} \cup Leaving
       => state = "IN_CONVERSATION"
  /\ control = "drain" => shutting_down /\ state # "IN_CONVERSATION"
  /\ shutting_down => control \in {"drain", "leave_stop", "leave_local"}
  /\ ~initialized =>
       /\ state = "UNPROVISIONED" /\ control = "idle"
       /\ ~running /\ ~shutting_down

\* A requested start waits for an idle control worker.
RequestInv ==
  conversation_requested =>
    control = "idle" /\ (state = "RUNTIME" \/ pairing_requested)

\* The network of a conversation is followed from the request on.
NetworkInv ==
  conversation_requested \/ control \in {"start_call", "start_http"}
    \/ conversation_id # NoConversation
  => requested_in = network_generation \/ network_loss_pending \/ publisher = "loss"

\* The RTC thread is inside a callback only while the conversation lasts.
MailboxInv ==
  /\ stop_request # "NONE" => state = "IN_CONVERSATION"
  /\ rtc_callback # "idle" => state = "IN_CONVERSATION"

StrandInv ==
  initialized /\ ~shutting_down /\ state = "UNPROVISIONED"
    => pairing_requested \/ pair_retry_remaining > 0

----------------------------------------------------------------------------
(* The operators the model is built from.                                  *)

\* next_retry_delay_ticks stays within the cap it is given.
LEMMA RetryDelayBound ==
  ASSUME NEW current \in Nat, NEW initial \in Nat, NEW maximum \in Nat,
         current <= maximum, initial <= maximum
  PROVE  NextRetryDelay(current, initial, maximum) \in 0 .. maximum
BY DEF NextRetryDelay

\* A failed call is retried after a delay, never in the same tick.
LEMMA RetryDelayPositive ==
  ASSUME NEW current \in Nat, NEW initial \in Nat \ {0}, NEW maximum \in Nat,
         initial <= maximum
  PROVE  NextRetryDelay(current, initial, maximum) > 0
BY DEF NextRetryDelay

\* create_service_request fills in a well-formed request.
LEMMA RequestType ==
  ASSUME TypeOK, NEW type \in PollTypes \cup {"STOP"}, NEW conversation \in Nat
  PROVE  RequestFor(type, conversation) \in Requests
BY DEF TypeOK, FlagTypes, DataTypes, RequestFor, CredentialFor, Requests

\* submit_service_request keeps the queue a queue of requests.
LEMMA SubmitType ==
  ASSUME service_queue \in Seq(Requests), NEW request \in Requests, Submit(request)
  PROVE  service_queue' \in Seq(Requests)
BY DEF Submit

\* Taking the head of a queue, and passing it on, keeps queues of requests.
LEMMA QueueMoves ==
  ASSUME NEW from \in Seq(Requests), NEW to \in Seq(Requests), from # <<>>
  PROVE  /\ Head(from) \in Requests
         /\ Tail(from) \in Seq(Requests)
         /\ Append(to, Head(from)) \in Seq(Requests)
<1>1. Head(from) \in Requests
  OBVIOUS
<1> QED
  BY <1>1

\* clear_device_auth, type by type.
LEMMA ClearDeviceAuthType ==
  ASSUME TypeOK, ClearDeviceAuth
  PROVE  /\ device_token' \in Tokens \cup {NoToken} /\ kv' \in Tokens \cup {NoToken}
         /\ binding_generation' \in Nat
BY DEF TypeOK, DataTypes, ClearDeviceAuth, Erase

\* The stop notification, sent or not, leaves a queue of requests.
LEMMA NotifyStopType ==
  ASSUME TypeOK, NotifyStop
  PROVE  service_queue' \in Seq(Requests)
<1>1. RequestFor("STOP", stopping_id) \in Requests
  BY RequestType DEF TypeOK, DataTypes
<1> QED
  BY <1>1, SubmitType DEF NotifyStop, TypeOK, DataTypes

\* action_poll_binding, type by type.
LEMMA PollBindingType ==
  ASSUME TypeOK, NEW type \in PollTypes, PollBinding(type)
  PROVE  /\ service_queue' \in Seq(Requests) /\ poll_pending' \in BOOLEAN
         /\ results' = results
<1>1. RequestFor(type, NoConversation) \in Requests
  BY RequestType DEF NoConversation
<1>2. service_queue' \in Seq(Requests)
  BY <1>1, SubmitType DEF PollBinding, TypeOK, DataTypes
<1>3. poll_pending' \in BOOLEAN
  BY DEF PollBinding
<1> QED
  BY <1>2, <1>3 DEF PollBinding

----------------------------------------------------------------------------
(* Types.                                                                  *)

\* Every action preserves the types.
LEMMA TypeStep == TypeOK /\ [Next]_vars => TypeOK'
<1> SUFFICES ASSUME TypeOK, [Next]_vars PROVE TypeOK'
  OBVIOUS
<1> USE DEF DeviceStates, StopRequests, Controls, Leaving, NoConversation,
          deviceVars, bindingVars, credentialVars, pairingVars, retryVars,
               conversationVars, renewalVars,
          renewingVars, mailboxVars, outsideVars, networkVars, powerVars, historyVars,
               queueVars,
          callVars, savedVars
<1>1. CASE BootBound
  <2>1. FlagTypes'
    BY <1>1, Zenon DEF TypeOK, FlagTypes, BootBound
  <2>2. DataTypes'
    BY <1>1 DEF TypeOK, DataTypes, BootBound
  <2> QED
    BY <2>1, <2>2 DEF TypeOK
<1>2. CASE BootUnbound
  <2>1. FlagTypes'
    BY <1>2, Zenon DEF TypeOK, FlagTypes, BootUnbound, Erase
  <2>2. DataTypes'
    BY <1>2 DEF TypeOK, DataTypes, BootUnbound, Erase
  <2> QED
    BY <2>1, <2>2 DEF TypeOK
<1>3. CASE PublishExit
  <2>1. FlagTypes'
    BY <1>3, Zenon DEF TypeOK, FlagTypes, PublishExit
  <2>2. DataTypes'
    BY <1>3 DEF TypeOK, DataTypes, PublishExit
  <2> QED
    BY <2>1, <2>2 DEF TypeOK
<1>4. CASE Shutdown
  <2>1. FlagTypes'
    BY <1>4, Zenon DEF TypeOK, FlagTypes, Shutdown, BeginLeaving, ClearRenewal
  <2>2. DataTypes'
    BY <1>4, RetryAssumption DEF TypeOK, DataTypes, Shutdown, BeginLeaving, ClearRenewal
  <2> QED
    BY <2>1, <2>2 DEF TypeOK
<1>5. CASE PowerOff
  <2>1. FlagTypes'
    BY <1>5, Zenon DEF TypeOK, FlagTypes, PowerOff, Cleared, ClearRenewal
  <2>2. DataTypes'
    BY <1>5, RetryAssumption DEF TypeOK, DataTypes, PowerOff, Cleared, ClearRenewal
  <2> QED
    BY <2>1, <2>2 DEF TypeOK
<1>6. CASE Crash
  <2>1. FlagTypes'
    BY <1>6, Zenon DEF TypeOK, FlagTypes, Crash, Cleared, ClearRenewal
  <2>2. DataTypes'
    BY <1>6, RetryAssumption DEF TypeOK, DataTypes, Crash, Cleared, ClearRenewal
  <2> QED
    BY <2>1, <2>2 DEF TypeOK
<1>7. CASE NetworkDown
  <2>1. FlagTypes'
    BY <1>7, Zenon DEF TypeOK, FlagTypes, NetworkDown
  <2>2. DataTypes'
    BY <1>7 DEF TypeOK, DataTypes, NetworkDown
  <2> QED
    BY <2>1, <2>2 DEF TypeOK
<1>8. CASE NetworkDownGeneration
  <2>1. FlagTypes'
    BY <1>8, Zenon DEF TypeOK, FlagTypes, NetworkDownGeneration
  <2>2. DataTypes'
    BY <1>8 DEF TypeOK, DataTypes, NetworkDownGeneration
  <2> QED
    BY <2>1, <2>2 DEF TypeOK
<1>9. CASE NetworkDownLoss
  <2>1. FlagTypes'
    BY <1>9, Zenon DEF TypeOK, FlagTypes, NetworkDownLoss
  <2>2. DataTypes'
    BY <1>9 DEF TypeOK, DataTypes, NetworkDownLoss
  <2> QED
    BY <2>1, <2>2 DEF TypeOK
<1>10. CASE NetworkUp
  <2>1. FlagTypes'
    BY <1>10, Zenon DEF TypeOK, FlagTypes, NetworkUp
  <2>2. DataTypes'
    BY <1>10 DEF TypeOK, DataTypes, NetworkUp
  <2> QED
    BY <2>1, <2>2 DEF TypeOK
<1>11. CASE \E kind \in {"ended", "expiring"} : RtcCallback(kind)
  <2>1. FlagTypes'
    BY <1>11, Zenon DEF TypeOK, FlagTypes, RtcCallback
  <2>2. DataTypes'
    BY <1>11 DEF TypeOK, DataTypes, RtcCallback
  <2> QED
    BY <2>1, <2>2 DEF TypeOK
<1>12. CASE NotifyConversationEnded
  <2>1. FlagTypes'
    BY <1>12, Zenon DEF TypeOK, FlagTypes, NotifyConversationEnded
  <2>2. DataTypes'
    BY <1>12 DEF TypeOK, DataTypes, NotifyConversationEnded
  <2> QED
    BY <2>1, <2>2 DEF TypeOK
<1>13. CASE RequestRenewal
  <2>1. FlagTypes'
    BY <1>13, Zenon DEF TypeOK, FlagTypes, RequestRenewal
  <2>2. DataTypes'
    BY <1>13 DEF TypeOK, DataTypes, RequestRenewal
  <2> QED
    BY <2>1, <2>2 DEF TypeOK
<1>14. CASE RequestPair
  <2>1. FlagTypes'
    BY <1>14, Zenon DEF TypeOK, FlagTypes, RequestPair
  <2>2. DataTypes'
    BY <1>14 DEF TypeOK, DataTypes, RequestPair
  <2> QED
    BY <2>1, <2>2 DEF TypeOK
<1>15. CASE RequestStart
  <2>1. FlagTypes'
    BY <1>15, Zenon DEF TypeOK, FlagTypes, RequestStart
  <2>2. DataTypes'
    BY <1>15 DEF TypeOK, DataTypes, RequestStart
  <2> QED
    BY <2>1, <2>2 DEF TypeOK
<1>16. CASE RequestStop
  <2>1. FlagTypes'
    BY <1>16, Zenon DEF TypeOK, FlagTypes, RequestStop
  <2>2. DataTypes'
    BY <1>16 DEF TypeOK, DataTypes, RequestStop
  <2> QED
    BY <2>1, <2>2 DEF TypeOK
<1>17. CASE TickLoss
  <2>1. FlagTypes'
    BY <1>17, Zenon DEF TypeOK, FlagTypes, TickLoss, DropRequests, BeginLeaving,
       ClearRenewal
  <2>2. DataTypes'
    BY <1>17, RetryAssumption DEF TypeOK, DataTypes, TickLoss, DropRequests,
       BeginLeaving, ClearRenewal
  <2> QED
    BY <2>1, <2>2 DEF TypeOK
<1>18. CASE TickOffline
  <2>1. FlagTypes'
    BY <1>18, Zenon DEF TypeOK, FlagTypes, TickOffline, DropRequests
  <2>2. DataTypes'
    BY <1>18 DEF TypeOK, DataTypes, TickOffline, DropRequests
  <2> QED
    BY <2>1, <2>2 DEF TypeOK
<1>19. CASE TickPair
  <2>1. FlagTypes'
    BY <1>19, Zenon DEF TypeOK, FlagTypes, TickPair, BeginLeaving, ClearRenewal,
       EnterPairing, ClearDeviceAuth, Erase
  <2>2. CASE state = "IN_CONVERSATION"
    BY <1>19, <2>1, <2>2, RetryAssumption
    DEF TypeOK, DataTypes, TickPair, BeginLeaving, ClearRenewal
  <2>3. CASE state # "IN_CONVERSATION"
    BY <1>19, <2>1, <2>3, ClearDeviceAuthType DEF TypeOK, DataTypes, TickPair,
       EnterPairing
  <2> QED
    BY <2>2, <2>3
<1>20. CASE TickPairRetry
  <2>1. FlagTypes'
    BY <1>20, Zenon DEF TypeOK, FlagTypes, TickPairRetry
  <2>2. DataTypes'
    BY <1>20, RetryAssumption DEF TypeOK, DataTypes, TickPairRetry
  <2> QED
    BY <2>1, <2>2 DEF TypeOK
<1>21. CASE TickPairPoll
  <2>1. FlagTypes'
    BY <1>21, Zenon DEF TypeOK, FlagTypes, TickPairPoll, PollBinding
  <2>2. DataTypes'
    BY <1>21, PollBindingType DEF TypeOK, DataTypes, TickPairPoll, PollTypes
  <2> QED
    BY <2>1, <2>2 DEF TypeOK
<1>22. CASE TickStart
  <2>1. FlagTypes'
    BY <1>22, Zenon DEF TypeOK, FlagTypes, TickStart
  <2>2. DataTypes'
    BY <1>22 DEF TypeOK, DataTypes, TickStart
  <2> QED
    BY <2>1, <2>2 DEF TypeOK
<1>23. CASE TickDevicePoll
  <2>1. FlagTypes'
    BY <1>23, Zenon DEF TypeOK, FlagTypes, TickDevicePoll, PollBinding
  <2>2. DataTypes'
    BY <1>23, PollBindingType DEF TypeOK, DataTypes, TickDevicePoll, PollTypes
  <2> QED
    BY <2>1, <2>2 DEF TypeOK
<1>24. CASE TickStop
  <2>1. FlagTypes'
    BY <1>24, Zenon DEF TypeOK, FlagTypes, TickStop, BeginLeaving, ClearRenewal
  <2>2. DataTypes'
    BY <1>24, RetryAssumption DEF TypeOK, DataTypes, TickStop, BeginLeaving, ClearRenewal
  <2> QED
    BY <2>1, <2>2 DEF TypeOK
<1>25. CASE TickRenew
  <2>1. FlagTypes'
    BY <1>25, Zenon DEF TypeOK, FlagTypes, TickRenew, RenewalCountdown, PollBinding
  <2>2. DataTypes'
    BY <1>25, RetryAssumption, PollBindingType DEF TypeOK, DataTypes, TickRenew,
       RenewalCountdown, PollTypes
  <2> QED
    BY <2>1, <2>2 DEF TypeOK
<1>26. CASE FinishStop
  <2>1. FlagTypes'
    BY <1>26, Zenon DEF TypeOK, FlagTypes, FinishStop, SetState, NotifyStop, EnterIdle
  <2>2. DataTypes'
    BY <1>26, RequestType, SubmitType DEF TypeOK, DataTypes, FinishStop, SetState,
       NotifyStop, EnterIdle
  <2> QED
    BY <2>1, <2>2 DEF TypeOK
<1>27. CASE FinishLocal
  <2>1. FlagTypes'
    BY <1>27, Zenon DEF TypeOK, FlagTypes, FinishLocal, SetState, EnterIdle
  <2>2. DataTypes'
    BY <1>27 DEF TypeOK, DataTypes, FinishLocal, SetState, EnterIdle
  <2> QED
    BY <2>1, <2>2 DEF TypeOK
<1>28. CASE FinishPair
  <2>1. FlagTypes'
    BY <1>28, Zenon DEF TypeOK, FlagTypes, FinishPair, NotifyStop, EnterPairing,
       ClearDeviceAuth, Erase
  <2>2. DataTypes'
    BY <1>28, ClearDeviceAuthType, NotifyStopType DEF TypeOK, DataTypes, FinishPair,
       EnterPairing
  <2> QED
    BY <2>1, <2>2 DEF TypeOK
<1>29. CASE FinishInvalid
  <2>1. FlagTypes'
    BY <1>29, Zenon DEF TypeOK, FlagTypes, FinishInvalid, RestartPairing,
       ClearDeviceAuth, Erase, SetState, EnterIdle
  <2>2. DataTypes'
    BY <1>29 DEF TypeOK, DataTypes, FinishInvalid, RestartPairing, ClearDeviceAuth,
       Erase, SetState, EnterIdle
  <2> QED
    BY <2>1, <2>2 DEF TypeOK
<1>30. CASE PairUnavailable
  <2>1. FlagTypes'
    BY <1>30, Zenon DEF TypeOK, FlagTypes, PairUnavailable, Return
  <2>2. DataTypes'
    BY <1>30 DEF TypeOK, DataTypes, PairUnavailable, Return
  <2> QED
    BY <2>1, <2>2 DEF TypeOK
<1>31. CASE PairCall
  <2>1. FlagTypes'
    BY <1>31, Zenon DEF TypeOK, FlagTypes, PairCall
  <2>2. DataTypes'
    BY <1>31 DEF TypeOK, DataTypes, PairCall
  <2> QED
    BY <2>1, <2>2 DEF TypeOK
<1>32. CASE PairFail
  <2>1. FlagTypes'
    BY <1>32, Zenon DEF TypeOK, FlagTypes, PairFail, Return
  <2>2. DataTypes'
    BY <1>32, RetryDelayBound, RetryAssumption DEF TypeOK, DataTypes, PairFail, Return
  <2> QED
    BY <2>1, <2>2 DEF TypeOK
<1>33. CASE PairCode
  <2>1. FlagTypes'
    BY <1>33, Zenon DEF TypeOK, FlagTypes, PairCode, Return
  <2>2. DataTypes'
    BY <1>33, RetryAssumption DEF TypeOK, DataTypes, PairCode, Return
  <2> QED
    BY <2>1, <2>2 DEF TypeOK
<1>34. CASE StartAbandoned
  <2>1. FlagTypes'
    BY <1>34, Zenon DEF TypeOK, FlagTypes, StartAbandoned, Return
  <2>2. DataTypes'
    BY <1>34 DEF TypeOK, DataTypes, StartAbandoned, Return
  <2> QED
    BY <2>1, <2>2 DEF TypeOK
<1>35. CASE StartCall
  <2>1. FlagTypes'
    BY <1>35, Zenon DEF TypeOK, FlagTypes, StartCall
  <2>2. DataTypes'
    BY <1>35 DEF TypeOK, DataTypes, StartCall
  <2> QED
    BY <2>1, <2>2 DEF TypeOK
<1>36. CASE StartRejected
  <2>1. FlagTypes'
    BY <1>36, Zenon DEF TypeOK, FlagTypes, StartRejected, Return, RestartPairing,
       ClearDeviceAuth, Erase, SetState
  <2>2. DataTypes'
    BY <1>36 DEF TypeOK, DataTypes, StartRejected, Return, RestartPairing,
       ClearDeviceAuth, Erase, SetState
  <2> QED
    BY <2>1, <2>2 DEF TypeOK
<1>37. CASE StartAccepted
  <2>1. FlagTypes'
    BY <1>37, Zenon DEF TypeOK, FlagTypes, StartAccepted, ClearRenewal, SetState
  <2>2. DataTypes'
    BY <1>37, RetryAssumption DEF TypeOK, DataTypes, StartAccepted, ClearRenewal, SetState
  <2> QED
    BY <2>1, <2>2 DEF TypeOK
<1>38. CASE JoinDone
  <2>1. FlagTypes'
    BY <1>38, Zenon DEF TypeOK, FlagTypes, JoinDone, Return
  <2>2. DataTypes'
    BY <1>38 DEF TypeOK, DataTypes, JoinDone, Return
  <2> QED
    BY <2>1, <2>2 DEF TypeOK
<1>39. CASE RenewCall
  <2>1. FlagTypes'
    BY <1>39, Zenon DEF TypeOK, FlagTypes, RenewCall
  <2>2. DataTypes'
    BY <1>39 DEF TypeOK, DataTypes, RenewCall
  <2> QED
    BY <2>1, <2>2 DEF TypeOK
<1>40. CASE RenewStale
  <2>1. FlagTypes'
    BY <1>40, Zenon DEF TypeOK, FlagTypes, RenewStale, Return
  <2>2. DataTypes'
    BY <1>40 DEF TypeOK, DataTypes, RenewStale, Return
  <2> QED
    BY <2>1, <2>2 DEF TypeOK
<1>41. CASE RenewRejected
  <2>1. FlagTypes'
    BY <1>41, Zenon DEF TypeOK, FlagTypes, RenewRejected, BeginLeaving, ClearRenewal
  <2>2. DataTypes'
    BY <1>41, RetryAssumption DEF TypeOK, DataTypes, RenewRejected, BeginLeaving,
       ClearRenewal
  <2> QED
    BY <2>1, <2>2 DEF TypeOK
<1>42. CASE RenewHopeless
  <2>1. FlagTypes'
    BY <1>42, Zenon DEF TypeOK, FlagTypes, RenewHopeless, BeginLeaving, ClearRenewal
  <2>2. DataTypes'
    BY <1>42, RetryAssumption DEF TypeOK, DataTypes, RenewHopeless, BeginLeaving,
       ClearRenewal
  <2> QED
    BY <2>1, <2>2 DEF TypeOK
<1>43. CASE RenewFail
  <2>1. FlagTypes'
    BY <1>43, Zenon DEF TypeOK, FlagTypes, RenewFail, Return
  <2>2. DataTypes'
    BY <1>43, RetryDelayBound, RetryAssumption DEF TypeOK, DataTypes, RenewFail, Return
  <2> QED
    BY <2>1, <2>2 DEF TypeOK
<1>44. CASE Renewed
  <2>1. FlagTypes'
    BY <1>44, Zenon DEF TypeOK, FlagTypes, Renewed, Return
  <2>2. DataTypes'
    BY <1>44, RetryAssumption DEF TypeOK, DataTypes, Renewed, Return
  <2> QED
    BY <2>1, <2>2 DEF TypeOK
<1>45. CASE ServiceExecute
  <2>1. FlagTypes'
    BY <1>45, Zenon DEF TypeOK, FlagTypes, ServiceExecute
  <2>2. /\ service_queue' \in Seq(Requests)
        /\ results' \in Seq(Requests)
    BY <1>45, QueueMoves DEF TypeOK, DataTypes, ServiceExecute
  <2>3. DataTypes'
    BY <1>45, <2>2 DEF TypeOK, DataTypes, ServiceExecute
  <2> QED
    BY <2>1, <2>3 DEF TypeOK
<1>46. CASE ServiceResultLost
  <2>1. FlagTypes'
    BY <1>46, Zenon DEF TypeOK, FlagTypes, ServiceResultLost
  <2>2. DataTypes'
    BY <1>46 DEF TypeOK, DataTypes, ServiceResultLost
  <2> QED
    BY <2>1, <2>2 DEF TypeOK
<1>47. CASE ResultWithoutEffect
  <2>1. FlagTypes'
    BY <1>47, Zenon DEF TypeOK, FlagTypes, ResultWithoutEffect, TakeResult
  <2>2. DataTypes'
    BY <1>47 DEF TypeOK, DataTypes, ResultWithoutEffect, TakeResult
  <2> QED
    BY <2>1, <2>2 DEF TypeOK
<1>48. CASE PairingRefused
  <2>1. FlagTypes'
    BY <1>48, Zenon DEF TypeOK, FlagTypes, PairingRefused, TakeResult
  <2>2. DataTypes'
    BY <1>48 DEF TypeOK, DataTypes, PairingRefused, TakeResult
  <2> QED
    BY <2>1, <2>2 DEF TypeOK
<1>49. CASE PairingBound
  <2>1. FlagTypes'
    BY <1>49, Zenon DEF TypeOK, FlagTypes, PairingBound, TakeResult, Persist
  <2>2. DataTypes'
    BY <1>49 DEF TypeOK, DataTypes, PairingBound, TakeResult, Persist
  <2> QED
    BY <2>1, <2>2 DEF TypeOK
<1>50. CASE BindingInvalidated
  <2>1. FlagTypes'
    BY <1>50, Zenon DEF TypeOK, FlagTypes, BindingInvalidated, TakeResult,
       BeginLeaving, ClearRenewal, RestartPairing, ClearDeviceAuth, Erase, SetState
  <2>2. results' \in Seq(Requests)
    BY <1>50, QueueMoves DEF TypeOK, DataTypes, BindingInvalidated, TakeResult
  <2>3. CASE state = "IN_CONVERSATION"
    BY <1>50, <2>1, <2>2, <2>3, RetryAssumption
    DEF TypeOK, DataTypes, BindingInvalidated, TakeResult, BeginLeaving, ClearRenewal
  <2>4. CASE state # "IN_CONVERSATION"
    BY <1>50, <2>1, <2>2, <2>4, ClearDeviceAuthType
    DEF TypeOK, DataTypes, BindingInvalidated, TakeResult, RestartPairing, SetState
  <2> QED
    BY <2>3, <2>4
<1>51. CASE DropResult
  <2>1. FlagTypes'
    BY <1>51, Zenon DEF TypeOK, FlagTypes, DropResult
  <2>2. DataTypes'
    BY <1>51 DEF TypeOK, DataTypes, DropResult
  <2> QED
    BY <2>1, <2>2 DEF TypeOK
<1>52. CASE UNCHANGED vars
  BY <1>52 DEF vars, TypeOK, FlagTypes, DataTypes
<1> QED
  BY <1>1, <1>2, <1>3, <1>4, <1>5, <1>6, <1>7, <1>8, <1>9, <1>10, <1>11, <1>12, <1>13,
     <1>14, <1>15, <1>16, <1>17, <1>18, <1>19, <1>20, <1>21, <1>22, <1>23, <1>24,
     <1>25, <1>26, <1>27, <1>28, <1>29, <1>30, <1>31, <1>32, <1>33, <1>34, <1>35,
     <1>36, <1>37, <1>38, <1>39, <1>40, <1>41, <1>42, <1>43, <1>44, <1>45, <1>46,
     <1>47, <1>48, <1>49, <1>50, <1>51, <1>52
  DEF Next, Power, Network, Rtc, User, Ticks, Finishes, Calls, Service, Applied

\* The type invariant.
THEOREM TypeCorrect == Spec => []TypeOK
<1>1. Init => TypeOK
  <2> SUFFICES ASSUME Init PROVE TypeOK
    OBVIOUS
  <2>1. FlagTypes
    BY Zenon DEF Init, FlagTypes
  <2>2. DataTypes
    BY RetryAssumption DEF Init, DataTypes, DeviceStates, StopRequests, Controls,
       NoConversation
  <2> QED
    BY <2>1, <2>2 DEF TypeOK
<1> QED
  BY <1>1, TypeStep, PTL DEF Spec


----------------------------------------------------------------------------
(* What the control worker does fits the state of the device.              *)

\* Every action preserves ControlInv.
LEMMA ControlStep == TypeOK /\ ControlInv /\ [Next]_vars => ControlInv'
<1> SUFFICES ASSUME TypeOK, ControlInv, [Next]_vars PROVE ControlInv'
  OBVIOUS
<1> USE DEF deviceVars, bindingVars, credentialVars, pairingVars, retryVars,
            conversationVars, renewalVars,
          renewingVars, mailboxVars, outsideVars, networkVars, powerVars, historyVars,
               queueVars,
          callVars, savedVars
\* The other actions leave alone what the invariant is about.
<1>1. CASE \/ NetworkDown \/ NetworkDownGeneration \/ NetworkDownLoss
           \/ NetworkUp \/ (\E kind \in {"ended", "expiring"} : RtcCallback(kind))
           \/ NotifyConversationEnded
           \/ RequestRenewal \/ RequestPair \/ RequestStart
           \/ RequestStop \/ TickOffline \/ TickPairPoll
           \/ TickDevicePoll \/ ServiceExecute \/ ResultWithoutEffect
           \/ DropResult
  <2>1. UNCHANGED <<state, control, shutting_down, initialized, running>>
    BY <1>1 DEF NetworkDown, NetworkDownGeneration, NetworkDownLoss, NetworkUp,
               RtcCallback, NotifyConversationEnded, RequestRenewal, RequestPair,
               RequestStart, RequestStop, TickOffline, TickPairPoll, TickDevicePoll,
               ServiceExecute, ResultWithoutEffect, DropResult, ControlReady,
               DropRequests, PollBinding, TakeResult, Tick
  <2> QED
    BY <2>1 DEF ControlInv
<1>2. CASE BootBound
  BY <1>2 DEF ControlInv, Leaving, BootBound
<1>3. CASE BootUnbound
  BY <1>3 DEF ControlInv, Leaving, BootUnbound, Erase
<1>4. CASE PublishExit
  BY <1>4 DEF ControlInv, Leaving, PublishExit
<1>5. CASE Shutdown
  BY <1>5 DEF ControlInv, Leaving, Shutdown, BeginLeaving, ClearRenewal
<1>6. CASE PowerOff
  BY <1>6 DEF ControlInv, Leaving, PowerOff, Cleared, ClearRenewal
<1>7. CASE Crash
  BY <1>7 DEF ControlInv, Leaving, Crash, Cleared, ClearRenewal
<1>8. CASE TickLoss
  BY <1>8 DEF ControlInv, Leaving, TickLoss, Tick, ControlReady, DropRequests,
     BeginLeaving, ClearRenewal
<1>9. CASE TickPair
  BY <1>9 DEF ControlInv, Leaving, TickPair, OnlineTick, Tick, ControlReady,
     BeginLeaving, ClearRenewal, EnterPairing, ClearDeviceAuth, Erase
<1>10. CASE TickPairRetry
  BY <1>10 DEF ControlInv, Leaving, BoundTick, OnlineTick, Tick, ControlReady,
     TickPairRetry
<1>11. CASE TickStart
  BY <1>11 DEF ControlInv, Leaving, BoundTick, OnlineTick, Tick, ControlReady, TickStart
<1>12. CASE TickStop
  BY <1>12 DEF ControlInv, Leaving, BoundTick, OnlineTick, Tick, ControlReady, TickStop,
     BeginLeaving, ClearRenewal
<1>13. CASE TickRenew
  BY <1>13 DEF ControlInv, Leaving, BoundTick, OnlineTick, Tick, ControlReady,
     TickRenew, PollBinding, RenewalCountdown
<1>14. CASE FinishStop
  BY <1>14 DEF ControlInv, Leaving, FinishStop, LeftRtc, SetState, NotifyStop, EnterIdle
<1>15. CASE FinishLocal
  BY <1>15 DEF ControlInv, Leaving, FinishLocal, LeftRtc, SetState, EnterIdle
<1>16. CASE FinishPair
  BY <1>16 DEF ControlInv, Leaving, FinishPair, LeftRtc, NotifyStop, EnterPairing,
     ClearDeviceAuth, Erase
<1>17. CASE FinishInvalid
  BY <1>17 DEF ControlInv, Leaving, FinishInvalid, LeftRtc, RestartPairing,
     ClearDeviceAuth, Erase, SetState, EnterIdle
<1>18. CASE PairUnavailable
  BY <1>18 DEF ControlInv, Leaving, PairUnavailable, Return
<1>19. CASE PairCall
  BY <1>19 DEF ControlInv, Leaving, PairCall
<1>20. CASE PairFail
  BY <1>20 DEF ControlInv, Leaving, PairFail, Return
<1>21. CASE PairCode
  BY <1>21 DEF ControlInv, Leaving, PairCode, Return
<1>22. CASE StartAbandoned
  BY <1>22 DEF ControlInv, Leaving, StartAbandoned, Return
<1>23. CASE StartCall
  BY <1>23 DEF ControlInv, Leaving, StartCall
<1>24. CASE StartRejected
  BY <1>24 DEF ControlInv, Leaving, StartRejected, Return, RestartPairing,
     ClearDeviceAuth, Erase, SetState
<1>25. CASE StartAccepted
  BY <1>25 DEF ControlInv, Leaving, StartAccepted, ClearRenewal, SetState
<1>26. CASE JoinDone
  BY <1>26 DEF ControlInv, Leaving, JoinDone, Return
<1>27. CASE RenewCall
  BY <1>27 DEF ControlInv, Leaving, RenewCall
<1>28. CASE RenewStale
  BY <1>28 DEF ControlInv, Leaving, RenewStale, Return
<1>29. CASE RenewRejected
  BY <1>29 DEF ControlInv, Leaving, RenewRejected, BeginLeaving, ClearRenewal
<1>30. CASE RenewHopeless
  BY <1>30 DEF ControlInv, Leaving, RenewHopeless, BeginLeaving, ClearRenewal
<1>31. CASE RenewFail
  BY <1>31 DEF ControlInv, Leaving, RenewFail, Return
<1>32. CASE Renewed
  BY <1>32 DEF ControlInv, Leaving, Renewed, Return
<1>33. CASE ServiceResultLost
  BY <1>33 DEF ControlInv, Leaving, ServiceResultLost
<1>34. CASE PairingRefused
  BY <1>34 DEF ControlInv, Leaving, ControlReady, ResultApplies, PairingRefused,
     TakeResult
<1>35. CASE PairingBound
  BY <1>35 DEF ControlInv, Leaving, ControlReady, ResultApplies, PairingBound,
     TakeResult, Persist
<1>36. CASE BindingInvalidated
  BY <1>36 DEF ControlInv, Leaving, ControlReady, ResultApplies, BindingInvalidated,
     TakeResult, BeginLeaving, ClearRenewal, RestartPairing, ClearDeviceAuth, Erase,
     SetState
<1>37. CASE UNCHANGED vars
  BY <1>37 DEF vars, ControlInv
<1> QED
  BY <1>1, <1>2, <1>3, <1>4, <1>5, <1>6, <1>7, <1>8, <1>9, <1>10, <1>11, <1>12, <1>13,
     <1>14, <1>15, <1>16, <1>17, <1>18, <1>19, <1>20, <1>21, <1>22, <1>23, <1>24, <1>25,
     <1>26, <1>27, <1>28, <1>29, <1>30, <1>31, <1>32, <1>33, <1>34, <1>35, <1>36, <1>37
  DEF Next, Power, Network, Rtc, User, Ticks, Finishes, Calls, Service, Applied

\* What the control worker is doing always fits the state of the device: a call
\* or a conversation being left is found only where the tick begins it.
THEOREM ControlCorrect == Spec => []ControlInv
<1>1. Init => ControlInv
  BY DEF Init, ControlInv, Leaving
<1> QED
  BY <1>1, ControlStep, TypeCorrect, PTL DEF Spec

----------------------------------------------------------------------------
(* A device without a binding has a reason to act.                         *)

\* Every action preserves StrandInv.
LEMMA StrandStep ==
  TypeOK /\ StrandInv /\ [Next]_vars => StrandInv'
<1> SUFFICES ASSUME TypeOK, StrandInv, [Next]_vars PROVE StrandInv'
  OBVIOUS
<1> USE DEF deviceVars, bindingVars, credentialVars, pairingVars, retryVars,
            conversationVars, renewalVars,
          renewingVars, mailboxVars, outsideVars, networkVars, powerVars, historyVars,
               queueVars,
          callVars, savedVars
\* The other actions leave alone what the invariant is about.
<1>1. CASE \/ PublishExit \/ NetworkDown \/ NetworkDownGeneration
           \/ NetworkDownLoss \/ NetworkUp
           \/ (\E kind \in {"ended", "expiring"} : RtcCallback(kind))
           \/ NotifyConversationEnded \/ RequestRenewal \/ RequestStart
           \/ RequestStop \/ TickLoss \/ TickOffline
           \/ TickPairPoll \/ TickStart \/ TickDevicePoll
           \/ TickStop \/ TickRenew \/ PairCall
           \/ StartAbandoned \/ StartCall \/ JoinDone
           \/ RenewCall \/ RenewStale \/ RenewRejected
           \/ RenewHopeless \/ RenewFail \/ Renewed
           \/ ServiceExecute \/ ServiceResultLost \/ ResultWithoutEffect
           \/ DropResult
  <2>1. UNCHANGED <<initialized, shutting_down, state, pairing_requested,
       pair_retry_remaining>>
    BY <1>1 DEF PublishExit, NetworkDown, NetworkDownGeneration, NetworkDownLoss,
               NetworkUp, RtcCallback, NotifyConversationEnded, RequestRenewal,
               RequestStart, RequestStop, TickLoss, TickOffline, TickPairPoll,
               TickStart, TickDevicePoll, TickStop, TickRenew, PairCall, StartAbandoned,
               StartCall, JoinDone, RenewCall, RenewStale, RenewRejected, RenewHopeless,
               RenewFail, Renewed, ServiceExecute, ServiceResultLost,
               ResultWithoutEffect, DropResult, BeginLeaving, ControlReady,
               DropRequests, PollBinding, RenewalCountdown, Return, TakeResult, Tick
  <2> QED
    BY <2>1 DEF StrandInv
<1>2. CASE BootBound
  BY <1>2 DEF StrandInv, BootBound
<1>3. CASE BootUnbound
  BY <1>3 DEF StrandInv, BootUnbound, Erase
<1>4. CASE Shutdown
  BY <1>4 DEF StrandInv, Shutdown, BeginLeaving, ClearRenewal
<1>5. CASE PowerOff
  BY <1>5 DEF StrandInv, PowerOff, Cleared, ClearRenewal
<1>6. CASE Crash
  BY <1>6 DEF StrandInv, Crash, Cleared, ClearRenewal
<1>7. CASE RequestPair
  BY <1>7 DEF StrandInv, RequestPair, ControlReady
<1>8. CASE TickPair
  BY <1>8 DEF StrandInv, TickPair, OnlineTick, Tick, ControlReady, BeginLeaving,
     ClearRenewal, EnterPairing, ClearDeviceAuth, Erase
<1>9. CASE TickPairRetry
  BY <1>9 DEF StrandInv, BoundTick, OnlineTick, Tick, ControlReady, TypeOK, FlagTypes,
     DataTypes, TickPairRetry
<1>10. CASE FinishStop
  BY <1>10 DEF StrandInv, FinishStop, LeftRtc, SetState, NotifyStop, EnterIdle
<1>11. CASE FinishLocal
  BY <1>11 DEF StrandInv, FinishLocal, LeftRtc, SetState, EnterIdle
<1>12. CASE FinishPair
  BY <1>12 DEF StrandInv, FinishPair, LeftRtc, NotifyStop, EnterPairing,
     ClearDeviceAuth, Erase
<1>13. CASE FinishInvalid
  BY <1>13 DEF StrandInv, FinishInvalid, LeftRtc, RestartPairing, ClearDeviceAuth,
     Erase, SetState, EnterIdle
<1>14. CASE PairUnavailable
  BY <1>14 DEF StrandInv, PairUnavailable, Return
<1>15. CASE PairFail
  BY <1>15, RetryDelayPositive, RetryAssumption DEF StrandInv, TypeOK, FlagTypes,
     DataTypes, PairFail, Return
<1>16. CASE PairCode
  BY <1>16 DEF StrandInv, PairCode, Return
<1>17. CASE StartRejected
  BY <1>17 DEF StrandInv, StartRejected, Return, RestartPairing, ClearDeviceAuth, Erase,
     SetState
<1>18. CASE StartAccepted
  BY <1>18 DEF StrandInv, StartAccepted, ClearRenewal, SetState
<1>19. CASE PairingRefused
  BY <1>19 DEF StrandInv, ControlReady, ResultApplies, PairingRefused, TakeResult
<1>20. CASE PairingBound
  BY <1>20 DEF StrandInv, ControlReady, ResultApplies, PairingBound, TakeResult, Persist
<1>21. CASE BindingInvalidated
  BY <1>21 DEF StrandInv, ControlReady, ResultApplies, BindingInvalidated, TakeResult,
     BeginLeaving, ClearRenewal, RestartPairing, ClearDeviceAuth, Erase, SetState
<1>22. CASE UNCHANGED vars
  BY <1>22 DEF vars, StrandInv
<1> QED
  BY <1>1, <1>2, <1>3, <1>4, <1>5, <1>6, <1>7, <1>8, <1>9, <1>10, <1>11, <1>12, <1>13,
     <1>14, <1>15, <1>16, <1>17, <1>18, <1>19, <1>20, <1>21, <1>22
  DEF Next, Power, Network, Rtc, User, Ticks, Finishes, Calls, Service, Applied

\* No running device is stranded without a binding: it wants to pair, waits for a
\* retry, or is in the call for a pair code.
THEOREM DeviceNeverStranded == Spec => []NeverStranded
<1>1. Init => StrandInv
  BY DEF Init, StrandInv
<1>2. StrandInv /\ ControlInv => NeverStranded
  BY DEF StrandInv, ControlInv, NeverStranded
<1> QED
  BY <1>1, <1>2, StrandStep, TypeCorrect, ControlCorrect, PTL DEF Spec

----------------------------------------------------------------------------
(* The conversation the device is in.                                      *)

\* Every action preserves ConversationKnown.
LEMMA ConversationStep ==
  TypeOK /\ ControlInv /\ ConversationKnown /\ [Next]_vars => ConversationKnown'
<1> SUFFICES ASSUME TypeOK, ControlInv, ConversationKnown, [Next]_vars
             PROVE  ConversationKnown'
  OBVIOUS
<1> USE DEF deviceVars, bindingVars, credentialVars, pairingVars, retryVars,
            conversationVars, renewalVars,
          renewingVars, mailboxVars, outsideVars, networkVars, powerVars, historyVars,
               queueVars,
          callVars, savedVars
\* The other actions leave alone what the invariant is about.
<1>1. CASE \/ PublishExit \/ NetworkDown \/ NetworkDownGeneration
           \/ NetworkDownLoss \/ NetworkUp
           \/ (\E kind \in {"ended", "expiring"} : RtcCallback(kind))
           \/ NotifyConversationEnded \/ RequestRenewal \/ RequestPair
           \/ RequestStart \/ RequestStop \/ TickOffline
           \/ TickPairPoll \/ TickDevicePoll \/ ServiceExecute
           \/ ServiceResultLost \/ ResultWithoutEffect \/ DropResult
  <2>1. UNCHANGED <<conversation_id, state, control>>
    BY <1>1 DEF PublishExit, NetworkDown, NetworkDownGeneration, NetworkDownLoss,
               NetworkUp, RtcCallback, NotifyConversationEnded, RequestRenewal,
               RequestPair, RequestStart, RequestStop, TickOffline, TickPairPoll,
               TickDevicePoll, ServiceExecute, ServiceResultLost, ResultWithoutEffect,
               DropResult, ControlReady, DropRequests, PollBinding, TakeResult, Tick
  <2> QED
    BY <2>1 DEF ConversationKnown
<1>2. CASE BootBound
  BY <1>2 DEF ConversationKnown, Leaving, ControlInv, NoConversation, BootBound
<1>3. CASE BootUnbound
  BY <1>3 DEF ConversationKnown, Leaving, ControlInv, NoConversation, BootUnbound, Erase
<1>4. CASE Shutdown
  BY <1>4 DEF ConversationKnown, Leaving, ControlInv, NoConversation, Shutdown,
     BeginLeaving, ClearRenewal
<1>5. CASE PowerOff
  BY <1>5 DEF ConversationKnown, Leaving, ControlInv, NoConversation, PowerOff, Cleared,
     ClearRenewal
<1>6. CASE Crash
  BY <1>6 DEF ConversationKnown, Leaving, ControlInv, NoConversation, Crash, Cleared,
     ClearRenewal
<1>7. CASE TickLoss
  BY <1>7 DEF ConversationKnown, Leaving, ControlInv, NoConversation, TickLoss, Tick,
     ControlReady, DropRequests, BeginLeaving, ClearRenewal
<1>8. CASE TickPair
  BY <1>8 DEF ConversationKnown, Leaving, ControlInv, NoConversation, TickPair,
     OnlineTick, Tick, ControlReady, BeginLeaving, ClearRenewal, EnterPairing,
     ClearDeviceAuth, Erase
<1>9. CASE TickPairRetry
  BY <1>9 DEF ConversationKnown, Leaving, BoundTick, OnlineTick, Tick, ControlReady,
     ControlInv, NoConversation, TickPairRetry
<1>10. CASE TickStart
  BY <1>10 DEF ConversationKnown, Leaving, BoundTick, OnlineTick, Tick, ControlReady,
     ControlInv, NoConversation, TickStart
<1>11. CASE TickStop
  BY <1>11 DEF ConversationKnown, Leaving, BoundTick, OnlineTick, Tick, ControlReady,
     ControlInv, NoConversation, TickStop, BeginLeaving, ClearRenewal
<1>12. CASE TickRenew
  BY <1>12 DEF ConversationKnown, Leaving, BoundTick, OnlineTick, Tick, ControlReady,
     ControlInv, NoConversation, TickRenew, PollBinding, RenewalCountdown
<1>13. CASE FinishStop
  BY <1>13 DEF ConversationKnown, Leaving, ControlInv, NoConversation, FinishStop,
     LeftRtc, SetState, NotifyStop, EnterIdle
<1>14. CASE FinishLocal
  BY <1>14 DEF ConversationKnown, Leaving, ControlInv, NoConversation, FinishLocal,
     LeftRtc, SetState, EnterIdle
<1>15. CASE FinishPair
  BY <1>15 DEF ConversationKnown, Leaving, ControlInv, NoConversation, FinishPair,
     LeftRtc, NotifyStop, EnterPairing, ClearDeviceAuth, Erase
<1>16. CASE FinishInvalid
  BY <1>16 DEF ConversationKnown, Leaving, ControlInv, NoConversation, FinishInvalid,
     LeftRtc, RestartPairing, ClearDeviceAuth, Erase, SetState, EnterIdle
<1>17. CASE PairUnavailable
  BY <1>17 DEF ConversationKnown, Leaving, ControlInv, NoConversation, PairUnavailable,
     Return
<1>18. CASE PairCall
  BY <1>18 DEF ConversationKnown, Leaving, ControlInv, NoConversation, PairCall
<1>19. CASE PairFail
  BY <1>19 DEF ConversationKnown, Leaving, ControlInv, NoConversation, PairFail, Return
<1>20. CASE PairCode
  BY <1>20 DEF ConversationKnown, Leaving, ControlInv, NoConversation, PairCode, Return
<1>21. CASE StartAbandoned
  BY <1>21 DEF ConversationKnown, Leaving, ControlInv, NoConversation, StartAbandoned,
     Return
<1>22. CASE StartCall
  BY <1>22 DEF ConversationKnown, Leaving, ControlInv, NoConversation, StartCall
<1>23. CASE StartRejected
  BY <1>23 DEF ConversationKnown, Leaving, ControlInv, NoConversation, StartRejected,
     Return, RestartPairing, ClearDeviceAuth, Erase, SetState
<1>24. CASE StartAccepted
  BY <1>24 DEF ConversationKnown, Leaving, ControlInv, TypeOK, DataTypes,
     NoConversation, StartAccepted, ClearRenewal, SetState
<1>25. CASE JoinDone
  BY <1>25 DEF ConversationKnown, Leaving, ControlInv, NoConversation, JoinDone, Return
<1>26. CASE RenewCall
  BY <1>26 DEF ConversationKnown, Leaving, ControlInv, NoConversation, RenewCall
<1>27. CASE RenewStale
  BY <1>27 DEF ConversationKnown, Leaving, ControlInv, NoConversation, RenewStale,
     Return
<1>28. CASE RenewRejected
  BY <1>28 DEF ConversationKnown, Leaving, ControlInv, NoConversation, RenewRejected,
     BeginLeaving, ClearRenewal
<1>29. CASE RenewHopeless
  BY <1>29 DEF ConversationKnown, Leaving, ControlInv, NoConversation, RenewHopeless,
     BeginLeaving, ClearRenewal
<1>30. CASE RenewFail
  BY <1>30 DEF ConversationKnown, Leaving, ControlInv, NoConversation, RenewFail, Return
<1>31. CASE Renewed
  BY <1>31 DEF ConversationKnown, Leaving, ControlInv, NoConversation, Renewed, Return
<1>32. CASE PairingRefused
  BY <1>32 DEF ConversationKnown, Leaving, ControlReady, ResultApplies, ControlInv,
     NoConversation, PairingRefused, TakeResult
<1>33. CASE PairingBound
  BY <1>33 DEF ConversationKnown, Leaving, ControlReady, ResultApplies, ControlInv,
     NoConversation, PairingBound, TakeResult, Persist
<1>34. CASE BindingInvalidated
  BY <1>34 DEF ConversationKnown, Leaving, ControlReady, ResultApplies, ControlInv,
     NoConversation, BindingInvalidated, TakeResult, BeginLeaving, ClearRenewal,
     RestartPairing, ClearDeviceAuth, Erase, SetState
<1>35. CASE UNCHANGED vars
  BY <1>35 DEF vars, ConversationKnown
<1> QED
  BY <1>1, <1>2, <1>3, <1>4, <1>5, <1>6, <1>7, <1>8, <1>9, <1>10, <1>11, <1>12, <1>13,
     <1>14, <1>15, <1>16, <1>17, <1>18, <1>19, <1>20, <1>21, <1>22, <1>23, <1>24, <1>25,
     <1>26, <1>27, <1>28, <1>29, <1>30, <1>31, <1>32, <1>33, <1>34, <1>35
  DEF Next, Power, Network, Rtc, User, Ticks, Finishes, Calls, Service, Applied

\* The conversation identifier is set exactly while the device is in a
\* conversation that it has not begun to leave.
THEOREM ConversationIsKnown == Spec => []ConversationKnown
<1>1. Init => ConversationKnown
  BY DEF Init, ConversationKnown
<1> QED
  BY <1>1, ConversationStep, TypeCorrect, ControlCorrect, PTL DEF Spec

----------------------------------------------------------------------------
(* The credential of a bound device.                                       *)

\* Every action preserves CredentialIsDurable.
LEMMA CredentialStep ==
  TypeOK /\ ControlInv /\ CredentialIsDurable /\ [Next]_vars => CredentialIsDurable'
<1> SUFFICES ASSUME TypeOK, ControlInv, CredentialIsDurable, [Next]_vars
             PROVE  CredentialIsDurable'
  OBVIOUS
<1> USE DEF deviceVars, bindingVars, credentialVars, pairingVars, retryVars,
            conversationVars, renewalVars,
          renewingVars, mailboxVars, outsideVars, networkVars, powerVars, historyVars,
               queueVars,
          callVars, savedVars
\* The other actions leave alone what the invariant is about.
<1>1. CASE \/ PublishExit \/ Shutdown \/ NetworkDown
           \/ NetworkDownGeneration \/ NetworkDownLoss \/ NetworkUp
           \/ (\E kind \in {"ended", "expiring"} : RtcCallback(kind))
           \/ NotifyConversationEnded \/ RequestRenewal
           \/ RequestPair \/ RequestStart \/ RequestStop
           \/ TickLoss \/ TickOffline \/ TickPairPoll
           \/ TickStart \/ TickDevicePoll \/ TickStop
           \/ TickRenew \/ PairCall \/ StartAbandoned
           \/ StartCall \/ JoinDone \/ RenewCall
           \/ RenewStale \/ RenewRejected \/ RenewHopeless
           \/ RenewFail \/ Renewed \/ ServiceExecute
           \/ ServiceResultLost \/ ResultWithoutEffect \/ DropResult
  <2>1. UNCHANGED <<state, device_token, kv>>
    BY <1>1 DEF PublishExit, Shutdown, NetworkDown, NetworkDownGeneration,
               NetworkDownLoss, NetworkUp, RtcCallback, NotifyConversationEnded,
               RequestRenewal, RequestPair, RequestStart, RequestStop, TickLoss,
               TickOffline, TickPairPoll, TickStart, TickDevicePoll, TickStop,
               TickRenew, PairCall, StartAbandoned, StartCall, JoinDone, RenewCall,
               RenewStale, RenewRejected, RenewHopeless, RenewFail, Renewed,
               ServiceExecute, ServiceResultLost, ResultWithoutEffect, DropResult,
               BeginLeaving, ControlReady, DropRequests, PollBinding, RenewalCountdown,
               Return, TakeResult, Tick
  <2> QED
    BY <2>1 DEF CredentialIsDurable
<1>2. CASE BootBound
  BY <1>2, TokenAssumption DEF CredentialIsDurable, ControlInv, Leaving, BootBound
<1>3. CASE BootUnbound
  BY <1>3 DEF CredentialIsDurable, ControlInv, Leaving, BootUnbound, Erase
<1>4. CASE PowerOff
  BY <1>4 DEF CredentialIsDurable, ControlInv, Leaving, PowerOff, Cleared, ClearRenewal
<1>5. CASE Crash
  BY <1>5 DEF CredentialIsDurable, ControlInv, Leaving, Crash, Cleared, ClearRenewal
<1>6. CASE TickPair
  BY <1>6 DEF CredentialIsDurable, ControlInv, Leaving, TickPair, OnlineTick, Tick,
     ControlReady, BeginLeaving, ClearRenewal, EnterPairing, ClearDeviceAuth, Erase
<1>7. CASE TickPairRetry
  BY <1>7 DEF CredentialIsDurable, ControlInv, Leaving, TickPairRetry
<1>8. CASE FinishStop
  BY <1>8 DEF CredentialIsDurable, ControlInv, Leaving, FinishStop, LeftRtc, SetState,
     NotifyStop, EnterIdle
<1>9. CASE FinishLocal
  BY <1>9 DEF CredentialIsDurable, ControlInv, Leaving, FinishLocal, LeftRtc, SetState,
     EnterIdle
<1>10. CASE FinishPair
  BY <1>10 DEF CredentialIsDurable, ControlInv, Leaving, FinishPair, LeftRtc,
     NotifyStop, EnterPairing, ClearDeviceAuth, Erase
<1>11. CASE FinishInvalid
  BY <1>11 DEF CredentialIsDurable, ControlInv, Leaving, FinishInvalid, LeftRtc,
     RestartPairing, ClearDeviceAuth, Erase, SetState, EnterIdle
<1>12. CASE PairUnavailable
  BY <1>12 DEF CredentialIsDurable, ControlInv, Leaving, PairUnavailable, Return
<1>13. CASE PairFail
  BY <1>13 DEF CredentialIsDurable, ControlInv, Leaving, PairFail, Return
<1>14. CASE PairCode
  BY <1>14 DEF CredentialIsDurable, ControlInv, Leaving, PairCode, Return
<1>15. CASE StartRejected
  BY <1>15 DEF CredentialIsDurable, ControlInv, Leaving, StartRejected, Return,
     RestartPairing, ClearDeviceAuth, Erase, SetState
<1>16. CASE StartAccepted
  BY <1>16 DEF CredentialIsDurable, ControlInv, Leaving, StartAccepted, ClearRenewal,
     SetState
<1>17. CASE PairingRefused
  BY <1>17 DEF CredentialIsDurable, ControlInv, Leaving, ResultApplies, PairingRefused,
     TakeResult
<1>18. CASE PairingBound
  BY <1>18 DEF CredentialIsDurable, ControlInv, Leaving, ResultApplies, PairingBound,
     TakeResult, Persist
<1>19. CASE BindingInvalidated
  BY <1>19 DEF CredentialIsDurable, ControlInv, Leaving, ResultApplies,
     BindingInvalidated, TakeResult, BeginLeaving, ClearRenewal, RestartPairing,
     ClearDeviceAuth, Erase, SetState
<1>20. CASE UNCHANGED vars
  BY <1>20 DEF vars, CredentialIsDurable
<1> QED
  BY <1>1, <1>2, <1>3, <1>4, <1>5, <1>6, <1>7, <1>8, <1>9, <1>10, <1>11, <1>12, <1>13,
     <1>14, <1>15, <1>16, <1>17, <1>18, <1>19, <1>20
  DEF Next, Power, Network, Rtc, User, Ticks, Finishes, Calls, Service, Applied

\* A device that acts as bound holds the credential that a reset would find in
\* the store, whatever the store refused and wherever power was lost.
THEOREM BoundCredentialIsDurable == Spec => []CredentialIsDurable
<1>1. Init => CredentialIsDurable
  BY DEF Init, CredentialIsDurable
<1> QED
  BY <1>1, CredentialStep, TypeCorrect, ControlCorrect, PTL DEF Spec

----------------------------------------------------------------------------
(* A requested start.                                                      *)

\* Every action preserves RequestInv.
LEMMA RequestStep ==
  TypeOK /\ ControlInv /\ RequestInv /\ [Next]_vars => RequestInv'
<1> SUFFICES ASSUME TypeOK, ControlInv, RequestInv, [Next]_vars PROVE RequestInv'
  OBVIOUS
<1> USE DEF deviceVars, bindingVars, credentialVars, pairingVars, retryVars,
            conversationVars, renewalVars,
          renewingVars, mailboxVars, outsideVars, networkVars, powerVars, historyVars,
               queueVars,
          callVars, savedVars
\* The other actions leave alone what the invariant is about.
<1>1. CASE \/ PublishExit \/ NetworkDown \/ NetworkDownGeneration
           \/ NetworkDownLoss \/ NetworkUp
           \/ (\E kind \in {"ended", "expiring"} : RtcCallback(kind))
           \/ NotifyConversationEnded \/ RequestRenewal \/ RequestStop
           \/ TickPairPoll \/ TickDevicePoll \/ ServiceExecute
           \/ ServiceResultLost \/ ResultWithoutEffect \/ DropResult
  <2>1. UNCHANGED <<conversation_requested, control, state, pairing_requested>>
    BY <1>1 DEF PublishExit, NetworkDown, NetworkDownGeneration, NetworkDownLoss,
               NetworkUp, RtcCallback, NotifyConversationEnded, RequestRenewal,
               RequestStop, TickPairPoll, TickDevicePoll, ServiceExecute,
               ServiceResultLost, ResultWithoutEffect, DropResult, ControlReady,
               PollBinding, TakeResult
  <2> QED
    BY <2>1 DEF RequestInv
<1>2. CASE BootBound
  BY <1>2 DEF RequestInv, Leaving, ControlInv, BootBound
<1>3. CASE BootUnbound
  BY <1>3 DEF RequestInv, Leaving, ControlInv, BootUnbound, Erase
<1>4. CASE Shutdown
  BY <1>4 DEF RequestInv, Leaving, ControlInv, Shutdown, BeginLeaving, ClearRenewal
<1>5. CASE PowerOff
  BY <1>5 DEF RequestInv, Leaving, ControlInv, PowerOff, Cleared, ClearRenewal
<1>6. CASE Crash
  BY <1>6 DEF RequestInv, Leaving, ControlInv, Crash, Cleared, ClearRenewal
<1>7. CASE RequestPair
  BY <1>7 DEF RequestInv, Leaving, ControlInv, RequestPair, ControlReady
<1>8. CASE RequestStart
  BY <1>8 DEF RequestInv, ControlReady, RequestStart, ControlReady
<1>9. CASE TickLoss
  BY <1>9 DEF RequestInv, Leaving, ControlInv, TickLoss, Tick, ControlReady,
     DropRequests, BeginLeaving, ClearRenewal
<1>10. CASE TickOffline
  BY <1>10 DEF RequestInv, Leaving, ControlInv, TickOffline, Tick, ControlReady,
     DropRequests
<1>11. CASE TickPair
  BY <1>11 DEF RequestInv, Leaving, ControlInv, ControlReady, TickPair, OnlineTick,
     Tick, ControlReady, BeginLeaving, ClearRenewal, EnterPairing, ClearDeviceAuth,
     Erase
<1>12. CASE TickPairRetry
  BY <1>12 DEF RequestInv, Leaving, BoundTick, OnlineTick, Tick, ControlReady,
     ControlInv, TickPairRetry
<1>13. CASE TickStart
  BY <1>13 DEF RequestInv, Leaving, BoundTick, OnlineTick, Tick, ControlReady,
     ControlInv, TickStart
<1>14. CASE TickStop
  BY <1>14 DEF RequestInv, Leaving, BoundTick, OnlineTick, Tick, ControlReady,
     ControlInv, TickStop, BeginLeaving, ClearRenewal
<1>15. CASE TickRenew
  BY <1>15 DEF RequestInv, Leaving, BoundTick, OnlineTick, Tick, ControlReady,
     ControlInv, TickRenew, PollBinding, RenewalCountdown
<1>16. CASE FinishStop
  BY <1>16 DEF RequestInv, Leaving, ControlInv, FinishStop, LeftRtc, SetState,
     NotifyStop, EnterIdle
<1>17. CASE FinishLocal
  BY <1>17 DEF RequestInv, Leaving, ControlInv, FinishLocal, LeftRtc, SetState,
     EnterIdle
<1>18. CASE FinishPair
  BY <1>18 DEF RequestInv, Leaving, ControlInv, FinishPair, LeftRtc, NotifyStop,
     EnterPairing, ClearDeviceAuth, Erase
<1>19. CASE FinishInvalid
  BY <1>19 DEF RequestInv, Leaving, ControlInv, FinishInvalid, LeftRtc, RestartPairing,
     ClearDeviceAuth, Erase, SetState, EnterIdle
<1>20. CASE PairUnavailable
  BY <1>20 DEF RequestInv, Leaving, ControlInv, PairUnavailable, Return
<1>21. CASE PairCall
  BY <1>21 DEF RequestInv, Leaving, ControlInv, PairCall
<1>22. CASE PairFail
  BY <1>22 DEF RequestInv, Leaving, ControlInv, PairFail, Return
<1>23. CASE PairCode
  BY <1>23 DEF RequestInv, Leaving, ControlInv, PairCode, Return
<1>24. CASE StartAbandoned
  BY <1>24 DEF RequestInv, Leaving, ControlInv, StartAbandoned, Return
<1>25. CASE StartCall
  BY <1>25 DEF RequestInv, Leaving, ControlInv, StartCall
<1>26. CASE StartRejected
  BY <1>26 DEF RequestInv, Leaving, ControlInv, StartRejected, Return, RestartPairing,
     ClearDeviceAuth, Erase, SetState
<1>27. CASE StartAccepted
  BY <1>27 DEF RequestInv, Leaving, ControlInv, StartAccepted, ClearRenewal, SetState
<1>28. CASE JoinDone
  BY <1>28 DEF RequestInv, Leaving, ControlInv, JoinDone, Return
<1>29. CASE RenewCall
  BY <1>29 DEF RequestInv, Leaving, ControlInv, RenewCall
<1>30. CASE RenewStale
  BY <1>30 DEF RequestInv, Leaving, ControlInv, RenewStale, Return
<1>31. CASE RenewRejected
  BY <1>31 DEF RequestInv, Leaving, ControlInv, RenewRejected, BeginLeaving,
     ClearRenewal
<1>32. CASE RenewHopeless
  BY <1>32 DEF RequestInv, Leaving, ControlInv, RenewHopeless, BeginLeaving,
     ClearRenewal
<1>33. CASE RenewFail
  BY <1>33 DEF RequestInv, Leaving, ControlInv, RenewFail, Return
<1>34. CASE Renewed
  BY <1>34 DEF RequestInv, Leaving, ControlInv, Renewed, Return
<1>35. CASE PairingRefused
  BY <1>35 DEF RequestInv, Leaving, ControlReady, ResultApplies, ControlInv,
     PairingRefused, TakeResult
<1>36. CASE PairingBound
  BY <1>36 DEF RequestInv, Leaving, ControlReady, ResultApplies, ControlInv,
     ResultIsCurrent, PairingBound, TakeResult, Persist
<1>37. CASE BindingInvalidated
  BY <1>37 DEF RequestInv, Leaving, ControlReady, ResultApplies, ControlInv,
     ResultIsCurrent, BindingInvalidated, TakeResult, BeginLeaving, ClearRenewal,
     RestartPairing, ClearDeviceAuth, Erase, SetState
<1>38. CASE UNCHANGED vars
  BY <1>38 DEF vars, RequestInv
<1> QED
  BY <1>1, <1>2, <1>3, <1>4, <1>5, <1>6, <1>7, <1>8, <1>9, <1>10, <1>11, <1>12, <1>13,
     <1>14, <1>15, <1>16, <1>17, <1>18, <1>19, <1>20, <1>21, <1>22, <1>23, <1>24, <1>25,
     <1>26, <1>27, <1>28, <1>29, <1>30, <1>31, <1>32, <1>33, <1>34, <1>35, <1>36, <1>37,
     <1>38
  DEF Next, Power, Network, Rtc, User, Ticks, Finishes, Calls, Service, Applied

\* No requested start outlives the binding it was made for.
THEOREM PendingStartFresh == Spec => []PendingStartIsFresh
<1>1. Init => RequestInv
  BY DEF Init, RequestInv
<1>2. RequestInv => PendingStartIsFresh
  BY DEF RequestInv, PendingStartIsFresh
<1> QED
  BY <1>1, <1>2, RequestStep, TypeCorrect, ControlCorrect, PTL DEF Spec

----------------------------------------------------------------------------
(* The network of a conversation.                                          *)

\* Every action preserves NetworkInv.
LEMMA NetworkStep ==
  TypeOK /\ ControlInv /\ ConversationKnown /\ NetworkInv /\ [Next]_vars => NetworkInv'
<1> SUFFICES ASSUME TypeOK, ControlInv, ConversationKnown, NetworkInv, [Next]_vars
             PROVE  NetworkInv'
  OBVIOUS
<1> USE DEF deviceVars, bindingVars, credentialVars, pairingVars, retryVars,
            conversationVars, renewalVars,
          renewingVars, mailboxVars, outsideVars, networkVars, powerVars, historyVars,
               queueVars,
          callVars, savedVars
\* The other actions leave alone what the invariant is about.
<1>1. CASE \/ PublishExit \/ (\E kind \in {"ended", "expiring"} : RtcCallback(kind))
           \/ NotifyConversationEnded
           \/ RequestRenewal \/ RequestPair \/ RequestStop
           \/ TickPairPoll \/ TickDevicePoll \/ ServiceExecute
           \/ ServiceResultLost \/ ResultWithoutEffect \/ DropResult
  <2>1. UNCHANGED <<conversation_requested, control, conversation_id, requested_in,
       network_generation,
                  network_loss_pending, publisher>>
    BY <1>1 DEF PublishExit, RtcCallback, NotifyConversationEnded, RequestRenewal,
               RequestPair, RequestStop, TickPairPoll, TickDevicePoll, ServiceExecute,
               ServiceResultLost, ResultWithoutEffect, DropResult, ControlReady,
               PollBinding, TakeResult
  <2> QED
    BY <2>1 DEF NetworkInv
<1>2. CASE BootBound
  BY <1>2 DEF NetworkInv, Leaving, ControlInv, ConversationKnown, NoConversation,
     BootBound
<1>3. CASE BootUnbound
  BY <1>3 DEF NetworkInv, Leaving, ControlInv, ConversationKnown, NoConversation,
     BootUnbound, Erase
<1>4. CASE Shutdown
  BY <1>4 DEF NetworkInv, Leaving, ControlInv, ConversationKnown, NoConversation,
     Shutdown, BeginLeaving, ClearRenewal
<1>5. CASE PowerOff
  BY <1>5 DEF NetworkInv, Leaving, ControlInv, ConversationKnown, NoConversation,
     PowerOff, Cleared, ClearRenewal
<1>6. CASE Crash
  BY <1>6 DEF NetworkInv, Leaving, ControlInv, ConversationKnown, NoConversation, Crash,
     Cleared, ClearRenewal
<1>7. CASE NetworkDown
  BY <1>7 DEF NetworkInv, TypeOK, DataTypes, NetworkDown
<1>8. CASE NetworkDownGeneration
  BY <1>8 DEF NetworkInv, TypeOK, DataTypes, NetworkDownGeneration
<1>9. CASE NetworkDownLoss
  BY <1>9 DEF NetworkInv, TypeOK, DataTypes, NetworkDownLoss
<1>10. CASE NetworkUp
  BY <1>10 DEF NetworkInv, Leaving, ControlInv, ConversationKnown, NoConversation,
     NetworkUp
<1>11. CASE RequestStart
  BY <1>11 DEF NetworkInv, NoConversation, RequestStart, ControlReady
<1>12. CASE TickLoss
  BY <1>12 DEF NetworkInv, Leaving, ControlInv, ConversationKnown, NoConversation,
     TickLoss, Tick, ControlReady, DropRequests, BeginLeaving, ClearRenewal
<1>13. CASE TickOffline
  BY <1>13 DEF NetworkInv, Leaving, ControlInv, ConversationKnown, NoConversation,
     TickOffline, Tick, ControlReady, DropRequests
<1>14. CASE TickPair
  BY <1>14 DEF NetworkInv, Leaving, ControlInv, ConversationKnown, NoConversation,
     TickPair, OnlineTick, Tick, ControlReady, BeginLeaving, ClearRenewal, EnterPairing,
     ClearDeviceAuth, Erase
<1>15. CASE TickPairRetry
  BY <1>15 DEF NetworkInv, Leaving, BoundTick, OnlineTick, Tick, ControlReady,
     ControlInv, ConversationKnown, NoConversation, TickPairRetry
<1>16. CASE TickStart
  BY <1>16 DEF NetworkInv, Leaving, BoundTick, OnlineTick, Tick, ControlReady,
     ControlInv, ConversationKnown, NoConversation, TickStart
<1>17. CASE TickStop
  BY <1>17 DEF NetworkInv, Leaving, BoundTick, OnlineTick, Tick, ControlReady,
     ControlInv, ConversationKnown, NoConversation, TickStop, BeginLeaving, ClearRenewal
<1>18. CASE TickRenew
  BY <1>18 DEF NetworkInv, Leaving, BoundTick, OnlineTick, Tick, ControlReady,
     ControlInv, ConversationKnown, NoConversation, TickRenew, PollBinding,
     RenewalCountdown
<1>19. CASE FinishStop
  BY <1>19 DEF NetworkInv, Leaving, ControlInv, ConversationKnown, NoConversation,
     FinishStop, LeftRtc, SetState, NotifyStop, EnterIdle
<1>20. CASE FinishLocal
  BY <1>20 DEF NetworkInv, Leaving, ControlInv, ConversationKnown, NoConversation,
     FinishLocal, LeftRtc, SetState, EnterIdle
<1>21. CASE FinishPair
  BY <1>21 DEF NetworkInv, Leaving, ControlInv, ConversationKnown, NoConversation,
     FinishPair, LeftRtc, NotifyStop, EnterPairing, ClearDeviceAuth, Erase
<1>22. CASE FinishInvalid
  BY <1>22 DEF NetworkInv, Leaving, ControlInv, ConversationKnown, NoConversation,
     FinishInvalid, LeftRtc, RestartPairing, ClearDeviceAuth, Erase, SetState, EnterIdle
<1>23. CASE PairUnavailable
  BY <1>23 DEF NetworkInv, Leaving, ControlInv, ConversationKnown, NoConversation,
     PairUnavailable, Return
<1>24. CASE PairCall
  BY <1>24 DEF NetworkInv, Leaving, ControlInv, ConversationKnown, NoConversation,
     PairCall
<1>25. CASE PairFail
  BY <1>25 DEF NetworkInv, Leaving, ControlInv, ConversationKnown, NoConversation,
     PairFail, Return
<1>26. CASE PairCode
  BY <1>26 DEF NetworkInv, Leaving, ControlInv, ConversationKnown, NoConversation,
     PairCode, Return
<1>27. CASE StartAbandoned
  BY <1>27 DEF NetworkInv, Leaving, ControlInv, ConversationKnown, NoConversation,
     StartAbandoned, Return
<1>28. CASE StartCall
  BY <1>28 DEF NetworkInv, Leaving, ControlInv, ConversationKnown, NoConversation,
     StartCall
<1>29. CASE StartRejected
  BY <1>29 DEF NetworkInv, Leaving, ControlInv, ConversationKnown, NoConversation,
     StartRejected, Return, RestartPairing, ClearDeviceAuth, Erase, SetState
<1>30. CASE StartAccepted
  BY <1>30 DEF NetworkInv, Leaving, ControlInv, ConversationKnown, NoConversation,
     StartAccepted, ClearRenewal, SetState
<1>31. CASE JoinDone
  BY <1>31 DEF NetworkInv, Leaving, ControlInv, ConversationKnown, NoConversation,
     JoinDone, Return
<1>32. CASE RenewCall
  BY <1>32 DEF NetworkInv, Leaving, ControlInv, ConversationKnown, NoConversation,
     RenewCall
<1>33. CASE RenewStale
  BY <1>33 DEF NetworkInv, Leaving, ControlInv, ConversationKnown, NoConversation,
     RenewStale, Return
<1>34. CASE RenewRejected
  BY <1>34 DEF NetworkInv, Leaving, ControlInv, ConversationKnown, NoConversation,
     RenewRejected, BeginLeaving, ClearRenewal
<1>35. CASE RenewHopeless
  BY <1>35 DEF NetworkInv, Leaving, ControlInv, ConversationKnown, NoConversation,
     RenewHopeless, BeginLeaving, ClearRenewal
<1>36. CASE RenewFail
  BY <1>36 DEF NetworkInv, Leaving, ControlInv, ConversationKnown, NoConversation,
     RenewFail, Return
<1>37. CASE Renewed
  BY <1>37 DEF NetworkInv, Leaving, ControlInv, ConversationKnown, NoConversation,
     Renewed, Return
<1>38. CASE PairingRefused
  BY <1>38 DEF NetworkInv, Leaving, ControlReady, ResultApplies, ControlInv,
     ConversationKnown, NoConversation, PairingRefused, TakeResult
<1>39. CASE PairingBound
  BY <1>39 DEF NetworkInv, Leaving, ControlReady, ResultApplies, ControlInv,
     ConversationKnown, NoConversation, PairingBound, TakeResult, Persist
<1>40. CASE BindingInvalidated
  BY <1>40 DEF NetworkInv, Leaving, ControlReady, ResultApplies, ControlInv,
     ConversationKnown, NoConversation, BindingInvalidated, TakeResult, BeginLeaving,
     ClearRenewal, RestartPairing, ClearDeviceAuth, Erase, SetState
<1>41. CASE UNCHANGED vars
  BY <1>41 DEF vars, NetworkInv
<1> QED
  BY <1>1, <1>2, <1>3, <1>4, <1>5, <1>6, <1>7, <1>8, <1>9, <1>10, <1>11, <1>12, <1>13,
     <1>14, <1>15, <1>16, <1>17, <1>18, <1>19, <1>20, <1>21, <1>22, <1>23, <1>24, <1>25,
     <1>26, <1>27, <1>28, <1>29, <1>30, <1>31, <1>32, <1>33, <1>34, <1>35, <1>36, <1>37,
     <1>38, <1>39, <1>40, <1>41
  DEF Next, Power, Network, Rtc, User, Ticks, Finishes, Calls, Service, Applied

\* No conversation runs over a network other than the one it was requested on,
\* unless the loss is still being published or waits for the next tick.
THEOREM ConversationEndsWithNetwork == Spec => []NoConversationAcrossLoss
<1>1. Init => NetworkInv
  BY DEF Init, NetworkInv, NoConversation
<1>2. NetworkInv => NoConversationAcrossLoss
  BY DEF NetworkInv, NoConversationAcrossLoss
<1> QED
  BY <1>1, <1>2, NetworkStep, TypeCorrect, ControlCorrect, ConversationIsKnown,
     PTL DEF Spec

----------------------------------------------------------------------------
(* The mailboxes of the RTC thread.                                        *)

\* Every action preserves MailboxInv, when calls to the RTC worker are delivered.
LEMMA MailboxStep ==
  RtcCallsDelivered /\ TypeOK /\ ControlInv /\ MailboxInv /\ [Next]_vars => MailboxInv'
<1> SUFFICES ASSUME RtcCallsDelivered, TypeOK, ControlInv, MailboxInv, [Next]_vars
             PROVE  MailboxInv'
  OBVIOUS
<1> USE DEF deviceVars, bindingVars, credentialVars, pairingVars, retryVars,
            conversationVars, renewalVars,
          renewingVars, mailboxVars, outsideVars, networkVars, powerVars, historyVars,
               queueVars,
          callVars, savedVars
\* The other actions leave alone what the invariant is about.
<1>1. CASE \/ PublishExit \/ NetworkDown \/ NetworkDownGeneration
           \/ NetworkDownLoss \/ NetworkUp \/ RequestPair
           \/ RequestStart \/ TickPairPoll \/ TickDevicePoll
           \/ TickRenew \/ PairCall \/ StartAbandoned
           \/ StartCall \/ RenewCall \/ RenewStale
           \/ RenewRejected \/ RenewHopeless \/ RenewFail
           \/ Renewed \/ ServiceExecute \/ ServiceResultLost
           \/ ResultWithoutEffect \/ DropResult
  <2>1. UNCHANGED <<stop_request, rtc_callback, state>>
    BY <1>1 DEF PublishExit, NetworkDown, NetworkDownGeneration, NetworkDownLoss,
               NetworkUp, RequestPair, RequestStart, TickPairPoll, TickDevicePoll,
               TickRenew, PairCall, StartAbandoned, StartCall, RenewCall, RenewStale,
               RenewRejected, RenewHopeless, RenewFail, Renewed, ServiceExecute,
               ServiceResultLost, ResultWithoutEffect, DropResult, BeginLeaving,
               ControlReady, PollBinding, RenewalCountdown, Return, TakeResult
  <2> QED
    BY <2>1 DEF MailboxInv
<1>2. CASE BootBound
  BY <1>2 DEF MailboxInv, Leaving, ControlInv, BootBound
<1>3. CASE BootUnbound
  BY <1>3 DEF MailboxInv, Leaving, ControlInv, BootUnbound, Erase
<1>4. CASE Shutdown
  BY <1>4 DEF MailboxInv, Leaving, ControlInv, Shutdown, BeginLeaving, ClearRenewal
<1>5. CASE PowerOff
  BY <1>5 DEF MailboxInv, Leaving, ControlInv, PowerOff, Cleared, ClearRenewal
<1>6. CASE Crash
  BY <1>6 DEF MailboxInv, Leaving, ControlInv, Crash, Cleared, ClearRenewal
<1>7. CASE (\E kind \in {"ended", "expiring"} : RtcCallback(kind))
  BY <1>7 DEF MailboxInv, Leaving, ControlInv, RtcCallback
<1>8. CASE NotifyConversationEnded
  BY <1>8 DEF MailboxInv, Leaving, ControlInv, NotifyConversationEnded
<1>9. CASE RequestRenewal
  BY <1>9 DEF MailboxInv, Leaving, ControlInv, RequestRenewal
<1>10. CASE RequestStop
  BY <1>10 DEF MailboxInv, Leaving, ControlInv, RequestStop, ControlReady
<1>11. CASE TickLoss
  BY <1>11 DEF MailboxInv, Leaving, ControlInv, TickLoss, Tick, ControlReady,
     DropRequests, BeginLeaving, ClearRenewal
<1>12. CASE TickOffline
  BY <1>12 DEF MailboxInv, Leaving, ControlInv, TickOffline, Tick, ControlReady,
     DropRequests
<1>13. CASE TickPair
  BY <1>13 DEF MailboxInv, Leaving, ControlInv, TickPair, OnlineTick, Tick,
     ControlReady, BeginLeaving, ClearRenewal, EnterPairing, ClearDeviceAuth, Erase
<1>14. CASE TickPairRetry
  BY <1>14 DEF MailboxInv, Leaving, BoundTick, OnlineTick, Tick, ControlReady,
     ControlInv, TickPairRetry
<1>15. CASE TickStart
  BY <1>15 DEF MailboxInv, Leaving, BoundTick, OnlineTick, Tick, ControlReady,
     ControlInv, TickStart
<1>16. CASE TickStop
  BY <1>16 DEF MailboxInv, Leaving, BoundTick, OnlineTick, Tick, ControlReady,
     ControlInv, TickStop, BeginLeaving, ClearRenewal
<1>17. CASE FinishStop
  BY <1>17 DEF MailboxInv, Leaving, ControlInv, FinishStop, LeftRtc, SetState,
     NotifyStop, EnterIdle
<1>18. CASE FinishLocal
  BY <1>18 DEF MailboxInv, Leaving, ControlInv, FinishLocal, LeftRtc, SetState,
     EnterIdle
<1>19. CASE FinishPair
  BY <1>19 DEF MailboxInv, Leaving, ControlInv, FinishPair, LeftRtc, NotifyStop,
     EnterPairing, ClearDeviceAuth, Erase
<1>20. CASE FinishInvalid
  BY <1>20 DEF MailboxInv, Leaving, ControlInv, FinishInvalid, LeftRtc, RestartPairing,
     ClearDeviceAuth, Erase, SetState, EnterIdle
<1>21. CASE PairUnavailable
  BY <1>21 DEF MailboxInv, Leaving, ControlInv, PairUnavailable, Return
<1>22. CASE PairFail
  BY <1>22 DEF MailboxInv, Leaving, ControlInv, PairFail, Return
<1>23. CASE PairCode
  BY <1>23 DEF MailboxInv, Leaving, ControlInv, PairCode, Return
<1>24. CASE StartRejected
  BY <1>24 DEF MailboxInv, Leaving, ControlInv, StartRejected, Return, RestartPairing,
     ClearDeviceAuth, Erase, SetState
<1>25. CASE StartAccepted
  BY <1>25 DEF MailboxInv, Leaving, ControlInv, StartAccepted, ClearRenewal, SetState
<1>26. CASE JoinDone
  BY <1>26 DEF MailboxInv, Leaving, ControlInv, JoinDone, Return
<1>27. CASE PairingRefused
  BY <1>27 DEF MailboxInv, Leaving, ControlReady, ResultApplies, ControlInv,
     PairingRefused, TakeResult
<1>28. CASE PairingBound
  BY <1>28 DEF MailboxInv, Leaving, ControlReady, ResultApplies, ControlInv,
     PairingBound, TakeResult, Persist
<1>29. CASE BindingInvalidated
  BY <1>29 DEF MailboxInv, Leaving, ControlReady, ResultApplies, ControlInv,
     BindingInvalidated, TakeResult, BeginLeaving, ClearRenewal, RestartPairing,
     ClearDeviceAuth, Erase, SetState
<1>30. CASE UNCHANGED vars
  BY <1>30 DEF vars, MailboxInv
<1> QED
  BY <1>1, <1>2, <1>3, <1>4, <1>5, <1>6, <1>7, <1>8, <1>9, <1>10, <1>11, <1>12, <1>13,
     <1>14, <1>15, <1>16, <1>17, <1>18, <1>19, <1>20, <1>21, <1>22, <1>23, <1>24, <1>25,
     <1>26, <1>27, <1>28, <1>29, <1>30
  DEF Next, Power, Network, Rtc, User, Ticks, Finishes, Calls, Service, Applied

\* A stop request exists only inside a conversation, provided that a call to the
\* RTC worker is never refused.
THEOREM StopRequestWellPlaced ==
  ASSUME RtcCallsDelivered
  PROVE  Spec => []StopRequestInConversation
<1>1. Init => MailboxInv
  BY DEF Init, MailboxInv
<1>2. MailboxInv => StopRequestInConversation
  BY DEF MailboxInv, StopRequestInConversation
<1>3. TypeOK /\ ControlInv /\ MailboxInv /\ [Next]_vars => MailboxInv'
  BY MailboxStep
<1> QED
  BY <1>1, <1>2, <1>3, TypeCorrect, ControlCorrect, PTL DEF Spec

\* A conversation is begun only by an accepted start.
LEMMA OnlyStartBegins ==
  ASSUME TypeOK, ControlInv, [Next]_vars,
         state # "IN_CONVERSATION", state' = "IN_CONVERSATION"
  PROVE  StartAccepted
<1> USE DEF deviceVars, bindingVars, credentialVars, pairingVars, retryVars,
            conversationVars, renewalVars,
          renewingVars, mailboxVars, outsideVars, networkVars, powerVars, historyVars,
               queueVars,
          callVars, savedVars
<1>1. CASE \/ PublishExit \/ Shutdown \/ NetworkDown
           \/ NetworkDownGeneration \/ NetworkDownLoss \/ NetworkUp
           \/ (\E kind \in {"ended", "expiring"} : RtcCallback(kind))
           \/ NotifyConversationEnded \/ RequestRenewal
           \/ RequestPair \/ RequestStart \/ RequestStop
           \/ TickLoss \/ TickOffline \/ TickPairPoll
           \/ TickStart \/ TickDevicePoll \/ TickStop
           \/ TickRenew \/ PairCall \/ StartAbandoned
           \/ StartCall \/ JoinDone \/ RenewCall
           \/ RenewStale \/ RenewRejected \/ RenewHopeless
           \/ RenewFail \/ Renewed \/ ServiceExecute
           \/ ServiceResultLost \/ ResultWithoutEffect \/ DropResult
  <2>1. UNCHANGED state
    BY <1>1 DEF PublishExit, Shutdown, NetworkDown, NetworkDownGeneration,
               NetworkDownLoss, NetworkUp, RtcCallback, NotifyConversationEnded,
               RequestRenewal, RequestPair, RequestStart, RequestStop, TickLoss,
               TickOffline, TickPairPoll, TickStart, TickDevicePoll, TickStop,
               TickRenew, PairCall, StartAbandoned, StartCall, JoinDone, RenewCall,
               RenewStale, RenewRejected, RenewHopeless, RenewFail, Renewed,
               ServiceExecute, ServiceResultLost, ResultWithoutEffect, DropResult,
               BeginLeaving, ControlReady, DropRequests, PollBinding, RenewalCountdown,
               Return, TakeResult, Tick
  <2> QED
    BY <2>1
<1>2. CASE BootBound
  BY <1>2 DEF BootBound
<1>3. CASE BootUnbound
  BY <1>3 DEF BootUnbound, Erase
<1>4. CASE PowerOff
  BY <1>4 DEF PowerOff, Cleared, ClearRenewal
<1>5. CASE Crash
  BY <1>5 DEF Crash, Cleared, ClearRenewal
<1>6. CASE TickPair
  BY <1>6 DEF TickPair, OnlineTick, Tick, ControlReady, BeginLeaving, ClearRenewal,
     EnterPairing, ClearDeviceAuth, Erase
<1>7. CASE TickPairRetry
  BY <1>7 DEF TickPairRetry
<1>8. CASE PairingRefused
  BY <1>8 DEF ResultApplies, PairingRefused, TakeResult
<1>9. CASE PairingBound
  BY <1>9 DEF ResultApplies, PairingBound, TakeResult, Persist
<1>10. CASE BindingInvalidated
  BY <1>10 DEF ResultApplies, BindingInvalidated, TakeResult, BeginLeaving,
     ClearRenewal, RestartPairing, ClearDeviceAuth, Erase, SetState
<1>11. CASE FinishStop
  BY <1>11 DEF FinishStop, LeftRtc, SetState, NotifyStop, EnterIdle
<1>12. CASE FinishLocal
  BY <1>12 DEF FinishLocal, LeftRtc, SetState, EnterIdle
<1>13. CASE FinishPair
  BY <1>13 DEF FinishPair, LeftRtc, NotifyStop, EnterPairing, ClearDeviceAuth, Erase
<1>14. CASE FinishInvalid
  BY <1>14 DEF FinishInvalid, LeftRtc, RestartPairing, ClearDeviceAuth, Erase, SetState,
     EnterIdle
<1>15. CASE PairUnavailable
  BY <1>15 DEF PairUnavailable, Return
<1>16. CASE PairFail
  BY <1>16 DEF PairFail, Return
<1>17. CASE PairCode
  BY <1>17 DEF PairCode, Return
<1>18. CASE StartRejected
  BY <1>18 DEF StartRejected, Return, RestartPairing, ClearDeviceAuth, Erase, SetState
<1>19. CASE UNCHANGED vars
  BY <1>19 DEF vars
<1> QED
  BY <1>1, <1>2, <1>3, <1>4, <1>5, <1>6, <1>7, <1>8, <1>9, <1>10, <1>11, <1>12, <1>13,
     <1>14, <1>15, <1>16, <1>17, <1>18, <1>19
  DEF Next, Power, Network, Rtc, User, Ticks, Finishes, Calls, Service, Applied

\* A conversation begins with empty mailboxes, provided that a call to the RTC
\* worker is never refused.
THEOREM ConversationBeginsFresh ==
  ASSUME RtcCallsDelivered
  PROVE  Spec => FreshConversation
<1> DEFINE Fresh == state # "IN_CONVERSATION" /\ state' = "IN_CONVERSATION" =>
                     stop_request' = "NONE" /\ ~renewal_requested' /\ ~renewal_pending'
<1>1. TypeOK /\ ControlInv /\ MailboxInv /\ [Next]_vars => Fresh
  <2> SUFFICES ASSUME TypeOK, ControlInv, MailboxInv, [Next]_vars,
                      state # "IN_CONVERSATION", state' = "IN_CONVERSATION"
               PROVE  stop_request' = "NONE" /\ ~renewal_requested' /\ ~renewal_pending'
    OBVIOUS
  <2>1. StartAccepted
    BY OnlyStartBegins
  <2>2. stop_request = "NONE"
    BY DEF MailboxInv
  <2> QED
    BY <2>1, <2>2 DEF StartAccepted, SetState, ClearRenewal
<1>2. Init => MailboxInv
  BY DEF Init, MailboxInv
<1>3. TypeOK /\ ControlInv /\ MailboxInv /\ [Next]_vars => MailboxInv'
  BY MailboxStep
<1>4. Spec => [][Fresh]_vars
  BY <1>1, <1>2, <1>3, TypeCorrect, ControlCorrect, PTL DEF Spec
<1> QED
  BY <1>4 DEF FreshConversation

----------------------------------------------------------------------------
(* The lifecycle as the application sees it.                               *)

\* A loss is withdrawn from the start of its publication to the return of the
\* network, no start call is ahead of the network, and a runtime that is not
\* initialized knows of no loss and of no request.
ViewInv ==
  /\ publisher # "idle" => ~network_available
  /\ control = "start_http" => call_generation <= network_generation
  /\ ~initialized =>
       /\ network_available /\ ~network_loss_pending
       /\ publisher = "idle" /\ rtc_callback = "idle"
       /\ ~pairing_requested /\ ~conversation_requested /\ stop_request = "NONE"

\* Before the boot, only a service worker left over can do anything.
LEMMA OffMoves ==
  ASSUME ControlInv, ViewInv, ~initialized, [Next]_vars
  PROVE  BootBound \/ BootUnbound \/ ServiceExecute \/ UNCHANGED vars
<1>1. /\ control = "idle" /\ ~running /\ ~shutting_down
      /\ publisher = "idle" /\ rtc_callback = "idle"
  BY DEF ControlInv, ViewInv
<1> QED
  BY <1>1 DEF Next, Power, Network, Rtc, User, Ticks, Finishes, Calls, Service, Applied,
     PublishExit, Shutdown, PowerOff, Crash, NetworkDown, NetworkDownGeneration,
     NetworkDownLoss, NetworkUp, RtcCallback, NotifyConversationEnded, RequestRenewal,
     RequestPair, RequestStart, RequestStop, TickLoss, TickOffline, TickPair,
     TickPairRetry, TickPairPoll, TickStart, TickDevicePoll, TickStop, TickRenew, Tick,
     OnlineTick, BoundTick, ControlReady, FinishStop, FinishLocal, FinishPair,
     FinishInvalid, LeftRtc, PairUnavailable, PairCall, PairFail, PairCode,
     StartAbandoned, StartCall, StartRejected, StartAccepted, JoinDone, RenewCall,
     RenewStale, RenewRejected, RenewHopeless, RenewFail, Renewed, ServiceResultLost,
     ResultWithoutEffect, PairingRefused, PairingBound, BindingInvalidated, TakeResult,
     DropResult

\* Every action preserves ViewInv.
LEMMA ViewStep == TypeOK /\ ControlInv /\ ViewInv /\ [Next]_vars => ViewInv'
<1> SUFFICES ASSUME TypeOK, ControlInv, ViewInv, [Next]_vars PROVE ViewInv'
  OBVIOUS
<1> USE DEF deviceVars, bindingVars, credentialVars, pairingVars, retryVars,
            conversationVars, renewalVars, renewingVars, mailboxVars, outsideVars,
            networkVars, powerVars, historyVars, queueVars, callVars, savedVars
<1>1. CASE PowerOff \/ Crash
  BY <1>1 DEF PowerOff, Crash, Cleared, ViewInv
<1>2. CASE ~initialized
  <2>1. CASE BootBound \/ BootUnbound
    BY <1>2, <2>1 DEF BootBound, BootUnbound, ViewInv
  <2>2. CASE ServiceExecute \/ UNCHANGED vars
    <3>1. UNCHANGED <<networkVars, control, call_generation, initialized, rtc_callback,
                      pairing_requested, mailboxVars>>
      BY <2>2 DEF ServiceExecute, vars
    <3> QED
      BY <3>1 DEF ViewInv
  <2> QED
    BY <1>2, <2>1, <2>2, OffMoves
<1>3. CASE initialized /\ ~(PowerOff \/ Crash)
  <2>1. CASE \/ NetworkDown \/ NetworkDownGeneration \/ NetworkDownLoss \/ NetworkUp
    <3>1. UNCHANGED <<control, call_generation, initialized>>
      BY <2>1 DEF NetworkDown, NetworkDownGeneration, NetworkDownLoss, NetworkUp
    <3>2. /\ publisher' # "idle" => ~network_available'
          /\ network_generation' \in {network_generation, network_generation + 1}
      BY <2>1 DEF NetworkDown, NetworkDownGeneration, NetworkDownLoss, NetworkUp, ViewInv
    <3> QED
      BY <1>3, <3>1, <3>2 DEF TypeOK, DataTypes, ViewInv
  <2>2. CASE ~(\/ NetworkDown \/ NetworkDownGeneration \/ NetworkDownLoss \/ NetworkUp)
    <3>1. initialized' /\ UNCHANGED <<network_available, network_generation, publisher>>
      BY <1>3, <2>2 DEF Next, Power, Network, Rtc, User, Ticks, Finishes, Calls, Service,
         Applied, vars, BootBound, BootUnbound,
         PublishExit, Shutdown, RtcCallback, NotifyConversationEnded, RequestRenewal,
         RequestPair, RequestStart, RequestStop, TickLoss, TickOffline, TickPair,
         TickPairRetry, TickPairPoll, TickStart, TickDevicePoll, TickStop, TickRenew,
         FinishStop, FinishLocal, FinishPair,
         FinishInvalid, PairUnavailable, PairCall, PairFail, PairCode,
         StartAbandoned, StartCall, StartRejected, StartAccepted, JoinDone, RenewCall,
         RenewStale, RenewRejected, RenewHopeless, RenewFail, Renewed, Return, ServiceExecute,
         ServiceResultLost, ResultWithoutEffect, PairingRefused, PairingBound,
         BindingInvalidated, TakeResult, DropResult
    <3>2. control' = "start_http" =>
            \/ control = "start_http" /\ UNCHANGED call_generation
            \/ call_generation' = network_generation
      BY <1>3, <2>2 DEF Next, Power, Network, Rtc, User, Ticks, Finishes, Calls, Service,
         Applied, vars, BootBound, BootUnbound,
         PublishExit, Shutdown, RtcCallback, NotifyConversationEnded, RequestRenewal,
         RequestPair, RequestStart, RequestStop, TickLoss, TickOffline, TickPair,
         TickPairRetry, TickPairPoll, TickStart, TickDevicePoll, TickStop, TickRenew,
         Tick, OnlineTick, BoundTick, ControlReady,
         FinishStop, FinishLocal, FinishPair, EnterIdle, EnterPairing, BeginLeaving,
         FinishInvalid, PairUnavailable, PairCall, PairFail, PairCode,
         StartAbandoned, StartCall, StartRejected, StartAccepted, JoinDone, RenewCall,
         RenewStale, RenewRejected, RenewHopeless, RenewFail, Renewed, Return, ServiceExecute,
         ServiceResultLost, ResultWithoutEffect, PairingRefused, PairingBound,
         BindingInvalidated, TakeResult, DropResult
    <3> QED
      BY <3>1, <3>2 DEF TypeOK, DataTypes, ViewInv
  <2> QED
    BY <2>1, <2>2
<1> QED
  BY <1>1, <1>2, <1>3

\* What the application sees of the control worker.
LEMMA ControlView ==
  /\ ~Up => ReducedControl = "idle" /\ ReducedState = "PAIRING"
  /\ control \notin {"start_call", "start_http"} \cup Leaving => ReducedControl = "idle"
  /\ Up =>
       /\ control = "start_call" => ReducedControl = "starting"
       /\ control = "start_http" => ReducedControl = "calling"
       /\ control \in {"leave_stop", "leave_local"} => ReducedControl = "leave"
       /\ control \in {"leave_pair", "leave_invalid"} => ReducedControl = "leave_pair"
       /\ state \in {"RUNTIME", "IN_CONVERSATION"} => ReducedState = state
       /\ state \notin {"RUNTIME", "IN_CONVERSATION"} => ReducedState = "PAIRING"
BY DEF ReducedControl, ReducedState, Leaving

\* And after a step.
LEMMA ControlViewNext ==
  /\ ~Up' => ReducedControl' = "idle" /\ ReducedState' = "PAIRING"
  /\ control' \notin {"start_call", "start_http"} \cup Leaving => ReducedControl' = "idle"
  /\ Up' =>
       /\ control' = "start_call" => ReducedControl' = "starting"
       /\ control' = "start_http" => ReducedControl' = "calling"
       /\ control' \in {"leave_stop", "leave_local"} => ReducedControl' = "leave"
       /\ control' \in {"leave_pair", "leave_invalid"} => ReducedControl' = "leave_pair"
       /\ state' \in {"RUNTIME", "IN_CONVERSATION"} => ReducedState' = state'
       /\ state' \notin {"RUNTIME", "IN_CONVERSATION"} => ReducedState' = "PAIRING"
BY DEF ReducedControl, ReducedState, Leaving

\* What is seen is the same if each part of it is.
LEMMA SameView ==
  ASSUME UNCHANGED <<running, ReducedControl, ReducedState>>,
         Up' <=> Up,
         Up /\ Up' =>
           /\ network_available' <=> network_available
           /\ network_loss_pending' \/ publisher' # "idle"
                <=> network_loss_pending \/ publisher # "idle"
           /\ CallCurrent' <=> CallCurrent
           /\ pairing_requested' /\ control' # "leave_pair"
                <=> pairing_requested /\ control # "leave_pair"
           /\ conversation_requested' <=> conversation_requested
           /\ stop_request' # "NONE" <=> stop_request # "NONE"
  PROVE  UNCHANGED Reduced!reducedVars
<1>1. Up' = Up
  BY DEF Up
<1>2. (Up /\ network_available)' = (Up /\ network_available)
  OBVIOUS
<1>3. (Up /\ (network_loss_pending \/ publisher # "idle"))'
        = (Up /\ (network_loss_pending \/ publisher # "idle"))
  OBVIOUS
<1>4. (Up /\ CallCurrent)' = (Up /\ CallCurrent)
  OBVIOUS
<1>5. (Up /\ pairing_requested /\ control # "leave_pair")'
        = (Up /\ pairing_requested /\ control # "leave_pair")
  OBVIOUS
<1>6. (Up /\ conversation_requested)' = (Up /\ conversation_requested)
  OBVIOUS
<1>7. (Up /\ stop_request # "NONE")' = (Up /\ stop_request # "NONE")
  OBVIOUS
<1> QED
  BY <1>1, <1>2, <1>3, <1>4, <1>5, <1>6, <1>7
  DEF Reduced!reducedVars, Reduced!lifecycleVars, Reduced!networkVars, Reduced!requestVars

\* A lifecycle that is not in use shows nothing.
LEMMA DownStutters ==
  ASSUME ~Up, ~Up', UNCHANGED running
  PROVE  UNCHANGED Reduced!reducedVars
<1>1. UNCHANGED <<ReducedControl, ReducedState>>
  BY ControlView, ControlViewNext
<1> QED
  BY <1>1, SameView


\* In use, the network and the requests are seen as they are.
LEMMA NetworkView ==
  ASSUME Up, Up', UNCHANGED <<network_available, network_loss_pending, publisher>>,
         CallCurrent' <=> CallCurrent
  PROVE  UNCHANGED Reduced!networkVars
<1>1. (Up /\ network_available)' = (Up /\ network_available)
  OBVIOUS
<1>2. (Up /\ (network_loss_pending \/ publisher # "idle"))'
        = (Up /\ (network_loss_pending \/ publisher # "idle"))
  OBVIOUS
<1>3. (Up /\ CallCurrent)' = (Up /\ CallCurrent)
  OBVIOUS
<1> QED
  BY <1>1, <1>2, <1>3 DEF Reduced!networkVars

\* A tick of a control worker that takes events runs in a lifecycle in use.
LEMMA ReadyIsUp ==
  ASSUME ControlInv, ControlReady
  PROVE  Up /\ ReducedControl = "idle" /\ Reduced!Ready /\ ~CallCurrent
<1>1. Up
  BY DEF ControlInv, ControlReady, Up
<1>2. ReducedControl = "idle"
  BY ControlView DEF ControlReady, Leaving
<1> QED
  BY <1>1, <1>2 DEF ControlReady, Reduced!Ready, CallCurrent

\* With a network and no loss, the application sees it online.
LEMMA OnlineView ==
  ASSUME ControlInv, ViewInv, OnlineTick
  PROVE  Up /\ ReducedControl = "idle" /\ Reduced!Online /\ ~CallCurrent
<1>1. ControlReady
  BY DEF OnlineTick, Tick
<1>2. Up /\ ReducedControl = "idle" /\ Reduced!Ready /\ ~CallCurrent
  BY <1>1, ReadyIsUp
<1> QED
  BY <1>2 DEF OnlineTick, ViewInv, Reduced!Online

\* TickPair is Pair.
LEMMA PairReduces ==
  ASSUME ControlInv, ViewInv, TickPair
  PROVE  Reduced!Pair /\ UNCHANGED running
<1> USE DEF bindingVars, credentialVars, pairingVars, renewalVars, renewingVars,
            outsideVars, networkVars, powerVars, historyVars, queueVars, savedVars
<1>1. Up /\ ReducedControl = "idle" /\ Reduced!Online /\ ~CallCurrent
  BY OnlineView DEF TickPair
<1>2. /\ Up' = Up /\ UNCHANGED <<running, stop_request, network_available,
                                 network_loss_pending, publisher>>
      /\ pairing_requested /\ ~conversation_requested' /\ control = "idle"
  BY DEF TickPair, OnlineTick, Tick, ControlReady, Up
<1>3. \/ state = "IN_CONVERSATION" /\ UNCHANGED state /\ control' = "leave_pair"
      \/ state # "IN_CONVERSATION" /\ state' = "PAIRING" /\ control' = "pair_call"
           /\ ~pairing_requested'
  BY DEF TickPair, BeginLeaving, EnterPairing
<1>4. UNCHANGED Reduced!networkVars
  BY <1>1, <1>2, <1>3, NetworkView DEF CallCurrent
<1>5. (Up /\ stop_request # "NONE")' = (Up /\ stop_request # "NONE")
  BY <1>2
<1>6. (Up /\ conversation_requested)' = FALSE
  BY <1>2
<1>7. /\ Up /\ pairing_requested /\ control # "leave_pair"
      /\ (Up /\ pairing_requested /\ control # "leave_pair")' = FALSE
  BY <1>1, <1>2, <1>3
<1>8. IF ReducedState = "IN_CONVERSATION"
        THEN ReducedControl' = "leave_pair" /\ UNCHANGED ReducedState
        ELSE ReducedState' = "PAIRING" /\ UNCHANGED ReducedControl
  BY <1>1, <1>2, <1>3, ControlView, ControlViewNext DEF Leaving
<1> QED
  BY <1>1, <1>2, <1>4, <1>5, <1>6, <1>7, <1>8 DEF Reduced!Pair


\* TickLoss and TickOffline are Offline.
LEMMA OfflineReduces ==
  ASSUME ControlInv, ViewInv, TickLoss \/ TickOffline
  PROVE  Reduced!Offline /\ UNCHANGED running
<1> USE DEF bindingVars, credentialVars, pairingVars, renewalVars, renewingVars,
            outsideVars, networkVars, powerVars, historyVars, queueVars, callVars, savedVars
<1>1. ControlReady
  BY DEF TickLoss, TickOffline, Tick
<1>2. Up /\ ReducedControl = "idle" /\ Reduced!Ready /\ ~CallCurrent
  BY <1>1, ReadyIsUp
<1>3. /\ Up' = Up
      /\ UNCHANGED <<running, state, pairing_requested, network_available, publisher>>
      /\ ~conversation_requested' /\ stop_request' = "NONE"
      /\ control = "idle"
  <2>1. Up' = Up
    BY DEF TickLoss, TickOffline, Up
  <2>2. CASE TickLoss
    BY <1>1, <2>1, <2>2 DEF TickLoss, DropRequests, ControlReady
  <2>3. CASE TickOffline
    BY <1>1, <2>1, <2>3 DEF TickOffline, DropRequests, ControlReady
  <2> QED
    BY <2>2, <2>3
<1>4. \/ /\ network_loss_pending /\ ~network_loss_pending'
         /\ control' = IF state = "IN_CONVERSATION" THEN "leave_local" ELSE control
      \/ ~network_available /\ UNCHANGED <<network_loss_pending, control>>
  BY DEF TickLoss, TickOffline, BeginLeaving
<1>5. Up' /\ control' \in {"idle", "leave_local"}
  BY <1>2, <1>3, <1>4
<1>6. /\ (Up /\ network_available)' = (Up /\ network_available)
      /\ (Up /\ pairing_requested /\ control # "leave_pair")'
           = (Up /\ pairing_requested /\ control # "leave_pair")
  BY <1>3, <1>5
<1>7. (Up /\ CallCurrent)' = (Up /\ CallCurrent)
  BY <1>2, <1>5 DEF CallCurrent
<1>8. (Up /\ conversation_requested)' = FALSE /\ (Up /\ stop_request # "NONE")' = FALSE
  BY <1>3
<1>9. UNCHANGED ReducedState
  BY <1>2, <1>3, <1>5, ControlView, ControlViewNext
<1>10. \/ /\ Up /\ (network_loss_pending \/ publisher # "idle")
          /\ (Up /\ (network_loss_pending \/ publisher # "idle"))'
               \in {FALSE, ~(Up /\ network_available)}
          /\ ReducedControl' = IF ReducedState = "IN_CONVERSATION" THEN "leave"
                                                                   ELSE ReducedControl
       \/ /\ ~(Up /\ network_available)
          /\ (Up /\ (network_loss_pending \/ publisher # "idle"))'
               = (Up /\ (network_loss_pending \/ publisher # "idle"))
          /\ UNCHANGED ReducedControl
  <2>1. CASE network_loss_pending /\ ~network_loss_pending'
    <3>1. (Up /\ (network_loss_pending \/ publisher # "idle"))'
             \in {FALSE, ~(Up /\ network_available)}
      BY <1>2, <1>3, <1>5, <2>1 DEF ViewInv
    <3>2. control' = IF state = "IN_CONVERSATION" THEN "leave_local" ELSE control
      BY <1>4, <2>1
    <3>3. ReducedControl' = IF ReducedState = "IN_CONVERSATION" THEN "leave"
                                                                ELSE ReducedControl
      BY <1>2, <1>3, <1>5, <3>2, ControlView, ControlViewNext DEF Leaving
    <3> QED
      BY <1>2, <2>1, <3>1, <3>3
  <2>2. CASE ~network_available /\ UNCHANGED <<network_loss_pending, control>>
    <3>1. UNCHANGED ReducedControl
      BY <1>2, <1>3, <2>2, ControlViewNext DEF Leaving
    <3>2. (Up /\ (network_loss_pending \/ publisher # "idle"))'
             = (Up /\ (network_loss_pending \/ publisher # "idle"))
      BY <1>3, <2>2
    <3> QED
      BY <2>2, <3>1, <3>2
  <2> QED
    BY <1>4, <2>1, <2>2
<1> QED
  BY <1>2, <1>3, <1>6, <1>7, <1>8, <1>9, <1>10 DEF Reduced!Offline

\* TickStart is Start, and TickStop is Stop.
LEMMA StartStopReduces ==
  ASSUME ControlInv, ViewInv, TickStart \/ TickStop
  PROVE  (Reduced!Start \/ Reduced!Stop) /\ UNCHANGED running
<1> USE DEF bindingVars, credentialVars, pairingVars, renewalVars, renewingVars,
            outsideVars, networkVars, powerVars, historyVars, queueVars, savedVars
<1>1. Up /\ ReducedControl = "idle" /\ Reduced!Online /\ ~CallCurrent
  BY OnlineView DEF TickStart, TickStop, BoundTick
<1>2. /\ Up' = Up
      /\ UNCHANGED <<running, state, pairing_requested, network_available,
                     network_loss_pending, publisher>>
      /\ ~pairing_requested /\ control = "idle" /\ stop_request' = "NONE"
  BY DEF TickStart, TickStop, BoundTick, OnlineTick, Tick, ControlReady, Up
<1>3. \/ /\ state = "RUNTIME" /\ control' = "start_call"
         /\ conversation_requested /\ ~conversation_requested'
      \/ /\ state = "IN_CONVERSATION" /\ control' = "leave_stop"
         /\ stop_request # "NONE" /\ UNCHANGED conversation_requested
  BY DEF TickStart, TickStop, StopDue, BeginLeaving
<1>4. UNCHANGED Reduced!networkVars
  BY <1>1, <1>2, <1>3, NetworkView DEF CallCurrent
<1>5. /\ (Up /\ stop_request # "NONE")' = FALSE
      /\ ~(Up /\ pairing_requested /\ control # "leave_pair")
      /\ (Up /\ pairing_requested /\ control # "leave_pair")'
           = (Up /\ pairing_requested /\ control # "leave_pair")
  BY <1>2
<1>6. UNCHANGED ReducedState /\ ReducedState = state
  BY <1>1, <1>2, <1>3, ControlView, ControlViewNext
<1>7. CASE state = "RUNTIME" /\ control' = "start_call"
  <2>1. ReducedControl' = "starting" /\ Up /\ conversation_requested
    BY <1>1, <1>2, <1>3, <1>7, ControlViewNext
  <2>2. (Up /\ conversation_requested)' = FALSE
    BY <1>3, <1>7
  <2> QED
    BY <1>1, <1>2, <1>4, <1>5, <1>6, <1>7, <2>1, <2>2 DEF Reduced!Start
<1>8. CASE state = "IN_CONVERSATION" /\ control' = "leave_stop"
  <2>1. ReducedControl' = "leave" /\ Up /\ stop_request # "NONE"
    BY <1>1, <1>2, <1>3, <1>8, ControlViewNext
  <2>2. (Up /\ conversation_requested)' = (Up /\ conversation_requested)
    BY <1>2, <1>3, <1>8
  <2> QED
    BY <1>1, <1>2, <1>4, <1>5, <1>6, <1>8, <2>1, <2>2 DEF Reduced!Stop
<1> QED
  BY <1>3, <1>7, <1>8

\* The other ticks show nothing: a pairing that is tried again, polls, renewals.
LEMMA TicksUnseen ==
  ASSUME ControlInv, ViewInv,
         TickPairRetry \/ TickPairPoll \/ TickDevicePoll \/ TickRenew
  PROVE  UNCHANGED Reduced!reducedVars
<1> USE DEF deviceVars, bindingVars, credentialVars, pairingVars, conversationVars,
            renewalVars, mailboxVars, outsideVars, networkVars, powerVars, historyVars,
            callVars, savedVars
<1>1. Up /\ ReducedControl = "idle" /\ ~CallCurrent
  BY OnlineView DEF TickPairRetry, TickPairPoll, TickDevicePoll, TickRenew, BoundTick
<1>2. /\ Up' = Up
      /\ UNCHANGED <<running, network_available, network_loss_pending, publisher,
                     pairing_requested, conversation_requested, stop_request>>
      /\ control = "idle" /\ control' \in {"idle", "pair_call", "renew_call"}
      /\ UNCHANGED state \/ (state = "UNPROVISIONED" /\ state' = "PAIRING")
  BY DEF TickPairRetry, TickPairPoll, TickDevicePoll, TickRenew, BoundTick, OnlineTick,
         Tick, ControlReady, Up
<1>3. UNCHANGED <<ReducedControl, ReducedState>>
  BY <1>1, <1>2, ControlView, ControlViewNext DEF Leaving
<1>4. ~CallCurrent'
  BY <1>2 DEF CallCurrent
<1> QED
  BY <1>1, <1>2, <1>3, <1>4, SameView

\* The network thread.
LEMMA NetworkReduces ==
  ASSUME TypeOK, ControlInv, ViewInv, Up, Network
  PROVE  /\ Reduced!ReducedCalled \/ UNCHANGED Reduced!reducedVars
         /\ UNCHANGED running
<1> USE DEF deviceVars, bindingVars, credentialVars, pairingVars, conversationVars,
            renewalVars, mailboxVars, powerVars, historyVars, callVars, savedVars
<1>1. /\ Up' = Up
      /\ UNCHANGED <<running, state, control, call_generation, pairing_requested,
                     conversation_requested, stop_request>>
  <2>1. UNCHANGED <<deviceVars, powerVars, callVars>>
    BY DEF Network, NetworkDown, NetworkDownGeneration, NetworkDownLoss, NetworkUp
  <2>2. Up' = Up
    BY <2>1 DEF Up
  <2> QED
    BY <2>1, <2>2
<1>2. UNCHANGED <<ReducedControl, ReducedState>>
  BY <1>1 DEF ReducedControl, ReducedState
<1>3. CASE NetworkDownGeneration \/ NetworkDownLoss
  <2>1. /\ UNCHANGED network_available
        /\ publisher # "idle" /\ (publisher' # "idle" \/ network_loss_pending')
    BY <1>3 DEF NetworkDownGeneration, NetworkDownLoss
  <2>2. CallCurrent' <=> CallCurrent
    <3>1. CASE NetworkDownGeneration
      <4>1. ~CallCurrent
        BY <3>1 DEF NetworkDownGeneration, CallCurrent
      <4>2. control = "start_http" => call_generation # network_generation'
        BY <3>1 DEF NetworkDownGeneration, TypeOK, DataTypes, ViewInv
      <4> QED
        BY <1>1, <4>1, <4>2 DEF CallCurrent
    <3>2. CASE NetworkDownLoss
      BY <1>1, <3>2 DEF NetworkDownLoss, CallCurrent
    <3> QED
      BY <1>3, <3>1, <3>2
  <2> QED
    BY <1>1, <1>2, <2>1, <2>2, SameView
<1>4. CASE NetworkDown \/ NetworkUp
  <2>1. /\ UNCHANGED network_loss_pending
        /\ publisher = "idle"
        /\ \/ network_available /\ network_available' = FALSE /\ publisher' = "generation"
           \/ /\ ~network_available /\ network_available' = TRUE
              /\ UNCHANGED <<publisher, network_generation>>
    BY <1>4 DEF NetworkDown, NetworkUp
  <2>2. UNCHANGED Reduced!requestVars
    <3>1. (Up /\ conversation_requested)' = (Up /\ conversation_requested)
      BY <1>1
    <3>2. (Up /\ stop_request # "NONE")' = (Up /\ stop_request # "NONE")
      BY <1>1
    <3>3. (Up /\ pairing_requested /\ control # "leave_pair")'
            = (Up /\ pairing_requested /\ control # "leave_pair")
      BY <1>1
    <3> QED
      BY <3>1, <3>2, <3>3 DEF Reduced!requestVars
  <2>3. (Up /\ network_available)' = network_available' /\ network_available' \in BOOLEAN
    <3>1. Up'
      BY <1>1
    <3> QED
      BY <2>1, <3>1
  <2>4. (Up /\ (network_loss_pending \/ publisher # "idle"))'
          = (\/ Up /\ (network_loss_pending \/ publisher # "idle")
             \/ (Up /\ network_available) /\ ~network_available')
    BY <1>1, <2>1
  <2>5. (Up /\ CallCurrent)'
          = ((Up /\ CallCurrent) /\ (network_available' \/ ~(Up /\ network_available)))
    BY <1>1, <2>1 DEF CallCurrent
  <2>6. Reduced!SetNetworkAvailable(network_available')
    BY <2>3, <2>4, <2>5 DEF Reduced!SetNetworkAvailable
  <2> QED
    BY <1>1, <1>2, <2>2, <2>3, <2>6 DEF Reduced!ReducedCalled
<1> QED
  BY <1>3, <1>4 DEF Network


\* The RTC thread: a conversation that ended, even if the device has left it since.
LEMMA RtcReduces ==
  ASSUME Up, Rtc
  PROVE  /\ Reduced!ConversationEnded \/ UNCHANGED Reduced!reducedVars
         /\ UNCHANGED running
<1> USE DEF deviceVars, bindingVars, credentialVars, pairingVars, conversationVars,
            renewalVars, mailboxVars, networkVars, powerVars, historyVars, callVars,
            savedVars
<1>1. /\ UNCHANGED <<networkVars, powerVars, callVars, state, pairing_requested,
                     conversation_requested>>
      /\ UNCHANGED stop_request \/ stop_request' = "ERROR"
  BY DEF Rtc, RtcCallback, NotifyConversationEnded, RequestRenewal
<1>2. Up' = Up
  BY <1>1 DEF Up
<1>3. /\ UNCHANGED <<ReducedControl, ReducedState>>
      /\ CallCurrent' <=> CallCurrent
  BY <1>1, <1>2 DEF ReducedControl, ReducedState, CallCurrent
<1>4. CASE UNCHANGED stop_request
  BY <1>1, <1>2, <1>3, <1>4, SameView
<1>5. CASE stop_request' = "ERROR"
  <2>1. UNCHANGED Reduced!networkVars
    BY <1>1, <1>2, <1>3, NetworkView
  <2>2. (Up /\ stop_request # "NONE")' = TRUE
    BY <1>2, <1>5
  <2>3. /\ (Up /\ pairing_requested /\ control # "leave_pair")'
             = (Up /\ pairing_requested /\ control # "leave_pair")
        /\ (Up /\ conversation_requested)' = (Up /\ conversation_requested)
    BY <1>1, <1>2
  <2> QED
    BY <1>1, <1>2, <1>3, <2>1, <2>2, <2>3 DEF Reduced!ConversationEnded
<1> QED
  BY <1>1, <1>4, <1>5

\* The user, whose requests the lifecycle keeps if its state allows them.
LEMMA UserReduces ==
  ASSUME ControlInv, User
  PROVE  Reduced!ReducedCalled /\ UNCHANGED running
<1> USE DEF bindingVars, credentialVars, pairingVars, conversationVars,
            renewalVars, mailboxVars, outsideVars, networkVars, powerVars, historyVars,
            callVars, savedVars
<1>1. ControlReady
  BY DEF User, RequestPair, RequestStart, RequestStop
<1>2. Up /\ ReducedControl = "idle" /\ Reduced!Ready /\ ~CallCurrent
  BY <1>1, ReadyIsUp
<1>3. UNCHANGED <<networkVars, powerVars, callVars, state>>
  BY DEF User, RequestPair, RequestStart, RequestStop
<1>4. Up' = Up
  BY <1>3 DEF Up
<1>5. /\ UNCHANGED <<ReducedControl, ReducedState>>
      /\ CallCurrent' <=> CallCurrent
      /\ ReducedState \in {"RUNTIME", "IN_CONVERSATION"} => ReducedState = state
  BY <1>3, <1>4 DEF ReducedControl, ReducedState, CallCurrent
<1>6. UNCHANGED Reduced!networkVars
  BY <1>2, <1>3, <1>4, <1>5, NetworkView
<1>7. control # "leave_pair" /\ control' # "leave_pair"
  BY <1>1, <1>3 DEF ControlReady
<1>8. \E key \in {"START", "STOP", "PAIR"} : Reduced!Request(key)
  <2>1. CASE RequestPair
    <3>1. /\ (Up /\ pairing_requested /\ control # "leave_pair")'
               = (\/ Up /\ pairing_requested /\ control # "leave_pair"
                  \/ "PAIR" = "PAIR")
          /\ (Up /\ conversation_requested)'
               = (\/ Up /\ conversation_requested
                  \/ /\ "PAIR" = "START" /\ (Up /\ network_available)
                     /\ ReducedState = "RUNTIME")
          /\ (Up /\ stop_request # "NONE")'
               = (\/ Up /\ stop_request # "NONE"
                  \/ "PAIR" = "STOP" /\ ReducedState = "IN_CONVERSATION")
      BY <1>2, <1>4, <1>7, <2>1 DEF RequestPair
    <3>2. Reduced!Request("PAIR")
      BY <3>1 DEF Reduced!Request
    <3> QED
      BY <3>2
  <2>2. CASE RequestStart
    <3>1. Up /\ network_available /\ ReducedState = "RUNTIME"
      BY <1>2, <2>2, ControlView DEF RequestStart
    <3>2. /\ (Up /\ pairing_requested /\ control # "leave_pair")'
               = (\/ Up /\ pairing_requested /\ control # "leave_pair"
                  \/ "START" = "PAIR")
          /\ (Up /\ conversation_requested)'
               = (\/ Up /\ conversation_requested
                  \/ /\ "START" = "START" /\ (Up /\ network_available)
                     /\ ReducedState = "RUNTIME")
          /\ (Up /\ stop_request # "NONE")'
               = (\/ Up /\ stop_request # "NONE"
                  \/ "START" = "STOP" /\ ReducedState = "IN_CONVERSATION")
      BY <1>2, <1>3, <1>4, <1>7, <2>2, <3>1 DEF RequestStart
    <3>3. Reduced!Request("START")
      BY <3>2 DEF Reduced!Request
    <3> QED
      BY <3>3
  <2>3. CASE RequestStop
    <3>1. ReducedState = "IN_CONVERSATION"
      BY <1>2, <2>3, ControlView DEF RequestStop
    <3>2. /\ (Up /\ pairing_requested /\ control # "leave_pair")'
               = (\/ Up /\ pairing_requested /\ control # "leave_pair"
                  \/ "STOP" = "PAIR")
          /\ (Up /\ conversation_requested)'
               = (\/ Up /\ conversation_requested
                  \/ /\ "STOP" = "START" /\ (Up /\ network_available)
                     /\ ReducedState = "RUNTIME")
          /\ (Up /\ stop_request # "NONE")'
               = (\/ Up /\ stop_request # "NONE"
                  \/ "STOP" = "STOP" /\ ReducedState = "IN_CONVERSATION")
      BY <1>2, <1>3, <1>4, <1>7, <2>3, <3>1 DEF RequestStop
    <3>3. Reduced!Request("STOP")
      BY <3>2 DEF Reduced!Request
    <3> QED
      BY <3>3
  <2> QED
    BY <2>1, <2>2, <2>3 DEF User
<1> QED
  BY <1>2, <1>3, <1>4, <1>5, <1>6, <1>8 DEF Reduced!ReducedCalled

\* The runtime begins.
LEMMA BootReduces ==
  ASSUME ControlInv, ViewInv, BootBound \/ BootUnbound
  PROVE  Reduced!ReducedRun
<1> USE DEF bindingVars, pairingVars, conversationVars, mailboxVars, networkVars, callVars
<1>1. /\ state = "UNPROVISIONED" /\ control = "idle" /\ ~running /\ ~shutting_down
      /\ network_available /\ ~network_loss_pending /\ publisher = "idle"
      /\ ~pairing_requested /\ ~conversation_requested /\ stop_request = "NONE"
  BY DEF BootBound, BootUnbound, ControlInv, ViewInv
<1>2. /\ UNCHANGED <<control, networkVars, mailboxVars, shutting_down>>
      /\ initialized' = TRUE /\ running' = TRUE
      /\ \/ state' = "RUNTIME" /\ UNCHANGED pairing_requested
         \/ UNCHANGED state /\ pairing_requested' = TRUE
  BY DEF BootBound, BootUnbound
<1>3. Up' = TRUE
  BY <1>1, <1>2 DEF Up
<1>4. /\ ReducedControl = "idle" /\ ReducedControl' = "idle"
      /\ \/ ReducedState' = "RUNTIME" /\ ~pairing_requested'
         \/ ReducedState' = "PAIRING" /\ pairing_requested'
  BY <1>1, <1>2, <1>3, ControlView, ControlViewNext DEF Leaving
<1>5. /\ (Up /\ network_available)' = TRUE
      /\ (Up /\ (network_loss_pending \/ publisher # "idle"))' = FALSE
      /\ (Up /\ conversation_requested)' = FALSE
      /\ (Up /\ stop_request # "NONE")' = FALSE
  BY <1>1, <1>2, <1>3
<1>6. (Up /\ CallCurrent)' = FALSE
  BY <1>1, <1>2 DEF CallCurrent
<1>7. (Up /\ pairing_requested /\ control # "leave_pair")' = (ReducedState' = "PAIRING")
  BY <1>1, <1>2, <1>3, <1>4
<1>8. Reduced!LifecycleInit
  BY <1>3, <1>4, <1>5, <1>6, <1>7 DEF Reduced!LifecycleInit
<1> QED
  BY <1>2, <1>4, <1>8 DEF Reduced!ReducedRun

\* And ends, or loses power.
LEMMA EndReduces ==
  ASSUME ~Up', running' = FALSE
  PROVE  Reduced!ReducedRun
<1>1. ReducedControl' = "idle" /\ ReducedState' = "PAIRING"
  BY ControlViewNext
<1>2. /\ Up' = FALSE
      /\ (Up /\ network_available)' = FALSE
      /\ (Up /\ (network_loss_pending \/ publisher # "idle"))' = FALSE
      /\ (Up /\ CallCurrent)' = FALSE
      /\ (Up /\ pairing_requested /\ control # "leave_pair")' = FALSE
      /\ (Up /\ conversation_requested)' = FALSE
      /\ (Up /\ stop_request # "NONE")' = FALSE
  BY DEF Up
<1>3. Reduced!LifecycleShutdown
  BY <1>1, <1>2 DEF Reduced!LifecycleShutdown
<1> QED
  BY <1>1, <1>3 DEF Reduced!ReducedRun


\* The runtime is told to end: from any thread, or because a result is lost.
LEMMA ExitReduces ==
  ASSUME PublishExit \/ ServiceResultLost
  PROVE  Reduced!ReducedRun
<1> USE DEF deviceVars, bindingVars, pairingVars, conversationVars, mailboxVars,
            networkVars, callVars, savedVars
<1>1. /\ running' = FALSE
      /\ UNCHANGED <<networkVars, callVars, mailboxVars, state, pairing_requested,
                     initialized, shutting_down>>
  BY DEF PublishExit, ServiceResultLost
<1>2. Up' = Up
  BY <1>1 DEF Up
<1>3. /\ UNCHANGED <<ReducedControl, ReducedState>>
      /\ (Up /\ CallCurrent)' = (Up /\ CallCurrent)
  BY <1>1, <1>2 DEF ReducedControl, ReducedState, CallCurrent
<1>4. (Up /\ network_available)' = (Up /\ network_available)
  BY <1>1, <1>2
<1>5. (Up /\ (network_loss_pending \/ publisher # "idle"))'
        = (Up /\ (network_loss_pending \/ publisher # "idle"))
  BY <1>1, <1>2
<1>6. (Up /\ pairing_requested /\ control # "leave_pair")'
        = (Up /\ pairing_requested /\ control # "leave_pair")
  BY <1>1, <1>2
<1>7. (Up /\ conversation_requested)' = (Up /\ conversation_requested)
  BY <1>1, <1>2
<1>8. (Up /\ stop_request # "NONE")' = (Up /\ stop_request # "NONE")
  BY <1>1, <1>2
<1>9. UNCHANGED Reduced!lifecycleVars
  BY <1>2, <1>3, <1>4, <1>5, <1>6, <1>7, <1>8
  DEF Reduced!lifecycleVars, Reduced!networkVars, Reduced!requestVars
<1> QED
  BY <1>1, <1>3, <1>9 DEF Reduced!ReducedRun

\* The service worker and results without effect are not seen.
LEMMA ServiceUnseen ==
  ASSUME ServiceExecute \/ ResultWithoutEffect \/ DropResult \/ UNCHANGED vars
  PROVE  UNCHANGED Reduced!reducedVars
<1> USE DEF deviceVars, bindingVars, pairingVars, conversationVars, mailboxVars,
            outsideVars, networkVars, powerVars, callVars, savedVars
<1>1. UNCHANGED <<networkVars, callVars, mailboxVars, powerVars, state, pairing_requested>>
  BY DEF ServiceExecute, ResultWithoutEffect, DropResult, TakeResult, vars
<1>2. Up' = Up
  BY <1>1 DEF Up
<1>3. /\ UNCHANGED <<ReducedControl, ReducedState>>
      /\ CallCurrent' <=> CallCurrent
  BY <1>1, <1>2 DEF ReducedControl, ReducedState, CallCurrent
<1> QED
  BY <1>1, <1>2, <1>3, SameView

\* Outside its shutdown, a control worker in one of its calls is in use.
LEMMA CallIsUp ==
  ASSUME ControlInv,
         control \in {"pair_call", "pair_http", "start_call", "start_http", "joining",
                      "renew_call", "renew_http", "leave_pair", "leave_invalid"}
  PROVE  Up
BY DEF ControlInv, Up

\* The calls of the pairing and of the renewal are not seen, but what comes of them.
LEMMA CallsUnseen ==
  ASSUME ControlInv,
         PairCall \/ PairFail \/ PairCode \/ RenewCall \/ RenewStale \/ RenewFail \/ Renewed
  PROVE  UNCHANGED Reduced!reducedVars
<1> USE DEF deviceVars, bindingVars, pairingVars, conversationVars, mailboxVars,
            outsideVars, networkVars, powerVars, savedVars, Return
<1>1. /\ UNCHANGED <<networkVars, mailboxVars, powerVars, pairing_requested>>
      /\ control \in {"pair_call", "pair_http", "renew_call", "renew_http"}
      /\ control' \in {"idle", "pair_http", "renew_http"}
  BY DEF PairCall, PairFail, PairCode, RenewCall, RenewStale, RenewFail, Renewed
<1>2. Up' = Up /\ Up
  BY <1>1, CallIsUp DEF Up
<1>3. \/ UNCHANGED state
      \/ /\ state = "PAIRING"
         /\ state' \in {"UNPROVISIONED", "AWAITING_CLAIM"}
  BY DEF PairCall, PairFail, PairCode, RenewCall, RenewStale, RenewFail, Renewed, ControlInv
<1>4. UNCHANGED <<ReducedControl, ReducedState>> /\ ~CallCurrent /\ ~CallCurrent'
  BY <1>1, <1>2, <1>3, ControlView, ControlViewNext DEF Leaving, CallCurrent
<1> QED
  BY <1>1, <1>2, <1>4, SameView

\* The pair code has to be asked for again.
LEMMA PairAgainReduces ==
  ASSUME ControlInv, PairUnavailable \/ PairingRefused
  PROVE  Reduced!PairAgain /\ UNCHANGED running
<1> USE DEF bindingVars, credentialVars, conversationVars, mailboxVars,
            outsideVars, networkVars, powerVars, callVars, savedVars
<1>1. /\ UNCHANGED <<networkVars, powerVars, mailboxVars>>
      /\ control \in {"idle", "pair_call", "pair_http"} /\ control' = "idle"
      /\ state \in {"PAIRING", "AWAITING_CLAIM"}
      /\ state' \in {"UNPROVISIONED", "AWAITING_CLAIM"}
      /\ pairing_requested' = TRUE /\ initialized
  <2>1. CASE PairUnavailable
    BY <2>1 DEF PairUnavailable, Return, ControlInv
  <2>2. CASE PairingRefused
    BY <2>2 DEF PairingRefused, TakeResult, ControlReady, ResultApplies, ControlInv
  <2> QED
    BY <2>1, <2>2
<1>2. Up' = Up /\ Up
  BY <1>1 DEF Up, ControlInv
<1>3. /\ ReducedControl = "idle" /\ ReducedControl' = "idle"
      /\ ReducedState = "PAIRING" /\ ReducedState' = "PAIRING"
      /\ ~CallCurrent /\ ~CallCurrent'
  BY <1>1, <1>2, ControlView, ControlViewNext DEF Leaving, CallCurrent
<1>4. UNCHANGED Reduced!networkVars
  BY <1>1, <1>2, <1>3, NetworkView
<1>5. (Up /\ pairing_requested /\ control # "leave_pair")' = TRUE
  BY <1>1, <1>2
<1>6. /\ (Up /\ conversation_requested)' = (Up /\ conversation_requested)
      /\ (Up /\ stop_request # "NONE")' = (Up /\ stop_request # "NONE")
  BY <1>1, <1>2
<1> QED
  BY <1>1, <1>2, <1>3, <1>4, <1>5, <1>6 DEF Reduced!PairAgain

\* The start call, to the answer of the service.
LEMMA StartCallReduces ==
  ASSUME ControlInv, ViewInv, StartCall \/ StartAccepted \/ StartAbandoned
  PROVE  /\ Reduced!StartCall \/ Reduced!StartAccepted \/ Reduced!StartAbandoned
         /\ UNCHANGED running
<1> USE DEF deviceVars, bindingVars, credentialVars, pairingVars, conversationVars,
            mailboxVars, outsideVars, networkVars, powerVars, savedVars
<1>1. /\ UNCHANGED <<networkVars, powerVars, mailboxVars, pairing_requested>>
      /\ control \in {"start_call", "start_http"} /\ state = "RUNTIME"
      /\ control' \in {"idle", "start_http", "joining"}
  <2>1. control \in {"start_call", "start_http"} /\ state = "RUNTIME"
    BY DEF StartCall, StartAccepted, StartAbandoned, ControlInv
  <2>2. CASE StartAccepted
    BY <2>1, <2>2 DEF StartAccepted, SetState
  <2>3. CASE StartCall \/ StartAbandoned
    BY <2>1, <2>3 DEF StartCall, StartAbandoned, Return
  <2> QED
    BY <2>2, <2>3
<1>2. Up' = Up /\ Up
  BY <1>1, CallIsUp DEF Up
<1>3. /\ (Up /\ network_available)' = (Up /\ network_available)
      /\ (Up /\ (network_loss_pending \/ publisher # "idle"))'
           = (Up /\ (network_loss_pending \/ publisher # "idle"))
  BY <1>1, <1>2
<1>4. UNCHANGED Reduced!requestVars
  <2>1. (Up /\ conversation_requested)' = (Up /\ conversation_requested)
    BY <1>1, <1>2
  <2>2. (Up /\ stop_request # "NONE")' = (Up /\ stop_request # "NONE")
    BY <1>1, <1>2
  <2>3. (Up /\ pairing_requested /\ control # "leave_pair")'
          = (Up /\ pairing_requested /\ control # "leave_pair")
    BY <1>1, <1>2
  <2> QED
    BY <2>1, <2>2, <2>3 DEF Reduced!requestVars
<1>5. CASE StartCall
  <2>1. /\ ReducedControl = "starting" /\ ReducedControl' = "calling"
        /\ UNCHANGED ReducedState
    BY <1>2, <1>5, ControlView, ControlViewNext DEF StartCall, ReducedState
  <2>2. (Up /\ CallCurrent)' = TRUE /\ network_available
    BY <1>1, <1>2, <1>5 DEF StartCall, CallCurrent, ViewInv
  <2> QED
    BY <1>1, <1>2, <1>3, <1>4, <2>1, <2>2 DEF Reduced!StartCall
<1>6. CASE StartAccepted
  <2>1. /\ ReducedControl = "calling" /\ ReducedControl' = "idle"
        /\ ReducedState' = "IN_CONVERSATION"
    BY <1>2, <1>6, ControlView, ControlViewNext DEF StartAccepted, SetState, Leaving
  <2>2. Up /\ CallCurrent /\ Up /\ network_available
    BY <1>2, <1>6 DEF StartAccepted, NetworkIsCurrent, CallCurrent, ViewInv
  <2>3. (Up /\ CallCurrent)' = FALSE
    BY <1>6 DEF StartAccepted, CallCurrent
  <2> QED
    BY <1>1, <1>2, <1>3, <1>4, <2>1, <2>2, <2>3 DEF Reduced!StartAccepted
<1>7. CASE StartAbandoned
  <2>1. /\ ReducedControl \in {"starting", "calling"} /\ ReducedControl' = "idle"
        /\ UNCHANGED ReducedState
    BY <1>1, <1>2, <1>7, ControlView, ControlViewNext
    DEF StartAbandoned, Return, ReducedState, Leaving
  <2>2. (Up /\ CallCurrent)' = FALSE
    BY <1>7 DEF StartAbandoned, Return, CallCurrent
  <2> QED
    BY <1>1, <1>2, <1>3, <1>4, <2>1, <2>2 DEF Reduced!StartAbandoned
<1> QED
  BY <1>1, <1>5, <1>6, <1>7


\* The device was claimed, or has to ask for its credential again.
LEMMA BoundReduces ==
  ASSUME ControlInv, ViewInv, PairingBound
  PROVE  /\ Reduced!Bound \/ UNCHANGED Reduced!reducedVars
         /\ UNCHANGED running
<1> USE DEF conversationVars, pairingVars, mailboxVars, outsideVars, networkVars, powerVars,
            callVars, savedVars
<1>1. ControlReady
  BY DEF PairingBound, TakeResult
<1>2. Up /\ ReducedControl = "idle" /\ Reduced!Ready /\ ~CallCurrent
  BY <1>1, ReadyIsUp
<1>3. /\ UNCHANGED <<networkVars, powerVars, mailboxVars, callVars, pairing_requested>>
      /\ state = "AWAITING_CLAIM" /\ ~pairing_requested /\ network_available
      /\ state' = "RUNTIME" \/ UNCHANGED state
  <2>1. state = "AWAITING_CLAIM" /\ ~pairing_requested /\ network_available
    BY DEF PairingBound, ResultApplies, ResultIsCurrent, NetworkIsCurrent
  <2>2. state' = "RUNTIME" \/ UNCHANGED state
    BY DEF PairingBound
  <2> QED
    BY <2>1, <2>2 DEF PairingBound, TakeResult
<1>4. Up' = Up
  BY <1>3 DEF Up
<1>5. UNCHANGED ReducedControl /\ ~CallCurrent' /\ ReducedState = "PAIRING"
  BY <1>1, <1>2, <1>3, <1>4, ControlView, ControlViewNext
  DEF ControlReady, Leaving, CallCurrent
<1>6. CASE UNCHANGED state
  <2>1. UNCHANGED ReducedState
    BY <1>4, <1>6 DEF ReducedState
  <2> QED
    BY <1>2, <1>3, <1>4, <1>5, <2>1, SameView
<1>7. CASE state' = "RUNTIME"
  <2>1. ReducedState' = "RUNTIME"
    BY <1>2, <1>4, <1>7, ControlViewNext
  <2>2. UNCHANGED Reduced!networkVars
    BY <1>2, <1>3, <1>4, <1>5, NetworkView
  <2>3. /\ ~(Up /\ pairing_requested /\ control # "leave_pair") /\ (Up /\ network_available)
        /\ (Up /\ pairing_requested /\ control # "leave_pair")'
             = (Up /\ pairing_requested /\ control # "leave_pair")
        /\ (Up /\ conversation_requested)' = (Up /\ conversation_requested)
        /\ (Up /\ stop_request # "NONE")' = (Up /\ stop_request # "NONE")
    BY <1>2, <1>3, <1>4
  <2>4. UNCHANGED Reduced!requestVars
    BY <2>3 DEF Reduced!requestVars
  <2> QED
    BY <1>2, <1>3, <1>4, <1>5, <2>1, <2>2, <2>3, <2>4 DEF Reduced!Bound
<1> QED
  BY <1>3, <1>6, <1>7

\* The service rejects the credential of the binding.
LEMMA UnboundReduces ==
  ASSUME ControlInv, ViewInv,
         StartRejected \/ (BindingInvalidated /\ state # "IN_CONVERSATION")
  PROVE  Reduced!Unbound /\ UNCHANGED running
<1> USE DEF conversationVars, outsideVars, networkVars, powerVars, callVars, savedVars,
            Return, RestartPairing, SetState
<1>1. /\ UNCHANGED <<networkVars, powerVars, conversation_requested, stop_request>>
      /\ state = "RUNTIME" /\ state' = "UNPROVISIONED" /\ network_available
      /\ control' = "idle" /\ pairing_requested' = TRUE
      /\ control = "start_http" \/ ControlReady
  <2>1. CASE StartRejected
    BY <2>1 DEF StartRejected, NetworkIsCurrent, ControlInv
  <2>2. CASE BindingInvalidated /\ state # "IN_CONVERSATION"
    <3>1. /\ ControlReady /\ state = "RUNTIME" /\ network_available
      BY <2>2 DEF BindingInvalidated, TakeResult, ResultApplies, ResultIsCurrent,
                  NetworkIsCurrent
    <3>2. /\ UNCHANGED <<networkVars, powerVars, conversation_requested, callVars>>
          /\ RestartPairing
      BY <2>2 DEF BindingInvalidated, TakeResult
    <3> QED
      BY <3>1, <3>2 DEF ControlReady
  <2> QED
    BY <2>1, <2>2
<1>2. /\ Up' = Up /\ Up
      /\ \/ Reduced!Ready
         \/ ReducedControl = "calling"
  BY <1>1, CallIsUp, ReadyIsUp, ControlView DEF Up
<1>3. ReducedControl' = "idle" /\ ReducedState = "RUNTIME" /\ ReducedState' = "PAIRING"
  BY <1>1, <1>2, ControlView, ControlViewNext DEF Leaving
<1>4. /\ (Up /\ pairing_requested /\ control # "leave_pair")' = TRUE
      /\ (Up /\ CallCurrent)' = FALSE
      /\ Up /\ network_available
  BY <1>1, <1>2 DEF CallCurrent
<1>5. /\ (Up /\ network_available)' = (Up /\ network_available)
      /\ (Up /\ (network_loss_pending \/ publisher # "idle"))'
           = (Up /\ (network_loss_pending \/ publisher # "idle"))
      /\ (Up /\ conversation_requested)' = (Up /\ conversation_requested)
      /\ (Up /\ stop_request # "NONE")' = (Up /\ stop_request # "NONE")
  BY <1>1, <1>2
<1> QED
  BY <1>1, <1>2, <1>3, <1>4, <1>5 DEF Reduced!Unbound

\* A conversation is left because of an answer of the service.
LEMMA FailReduces ==
  ASSUME ControlInv, ViewInv,
         \/ RenewRejected \/ RenewHopeless
         \/ BindingInvalidated /\ state = "IN_CONVERSATION"
  PROVE  Reduced!Fail /\ UNCHANGED running
<1> USE DEF bindingVars, pairingVars, mailboxVars, outsideVars, networkVars, powerVars,
            BeginLeaving
<1>1. /\ UNCHANGED <<networkVars, powerVars, mailboxVars, state, pairing_requested>>
      /\ state = "IN_CONVERSATION"
      /\ control \in {"idle", "renew_call", "renew_http"}
      /\ control' \in {"leave_invalid", "leave_stop"}
      /\ control = "idle" => initialized
  <2>1. CASE RenewRejected \/ RenewHopeless
    BY <2>1 DEF RenewRejected, RenewHopeless, ControlInv, Leaving
  <2>2. CASE BindingInvalidated /\ state = "IN_CONVERSATION"
    BY <2>2 DEF BindingInvalidated, TakeResult, ControlReady
  <2> QED
    BY <2>1, <2>2
<1>2. Up' = Up /\ Up
  BY <1>1 DEF Up, ControlInv
<1>3. /\ ReducedControl = "idle" /\ ReducedControl' \in {"leave", "leave_pair"}
      /\ ReducedState = "IN_CONVERSATION" /\ UNCHANGED ReducedState
      /\ ~CallCurrent /\ ~CallCurrent'
  BY <1>1, <1>2, ControlView, ControlViewNext DEF Leaving, CallCurrent
<1>4. UNCHANGED Reduced!networkVars
  BY <1>1, <1>2, <1>3, NetworkView
<1>5. /\ (Up /\ pairing_requested /\ control # "leave_pair")'
           = (Up /\ pairing_requested /\ control # "leave_pair")
      /\ (Up /\ conversation_requested)' = (Up /\ conversation_requested)
      /\ (Up /\ stop_request # "NONE")' = (Up /\ stop_request # "NONE")
  BY <1>1, <1>2
<1>6. UNCHANGED Reduced!lifecycleVars
  BY <1>2, <1>3, <1>4, <1>5 DEF Reduced!lifecycleVars, Reduced!requestVars
<1> QED
  BY <1>1, <1>2, <1>3, <1>6 DEF Reduced!Fail, Reduced!Leaving

\* The application has joined the conversation, or asks at once for its end.
LEMMA JoinReduces ==
  ASSUME ControlInv, JoinDone
  PROVE  /\ Reduced!ConversationEnded \/ UNCHANGED Reduced!reducedVars
         /\ UNCHANGED running
<1> USE DEF bindingVars, pairingVars, networkVars, powerVars, Return
<1>1. /\ UNCHANGED <<networkVars, powerVars, state, pairing_requested,
                     conversation_requested>>
      /\ control = "joining" /\ control' = "idle"
      /\ UNCHANGED stop_request \/ stop_request' = "ERROR"
  BY DEF JoinDone
<1>2. Up' = Up /\ Up
  BY <1>1, CallIsUp DEF Up
<1>3. /\ UNCHANGED <<ReducedControl, ReducedState>> /\ ~CallCurrent /\ ~CallCurrent'
  BY <1>1, <1>2, ControlView, ControlViewNext DEF Leaving, ReducedState, CallCurrent
<1>4. CASE UNCHANGED stop_request
  BY <1>1, <1>2, <1>3, <1>4, SameView
<1>5. CASE stop_request' = "ERROR"
  <2>1. UNCHANGED Reduced!networkVars
    BY <1>1, <1>2, <1>3, NetworkView
  <2>2. (Up /\ stop_request # "NONE")' = TRUE
    BY <1>2, <1>5
  <2>3. /\ (Up /\ pairing_requested /\ control # "leave_pair")'
             = (Up /\ pairing_requested /\ control # "leave_pair")
        /\ (Up /\ conversation_requested)' = (Up /\ conversation_requested)
    BY <1>1, <1>2
  <2> QED
    BY <1>1, <1>2, <1>3, <2>1, <2>2, <2>3 DEF Reduced!ConversationEnded
<1> QED
  BY <1>1, <1>4, <1>5

\* RTC has been left.
LEMMA LeftReduces ==
  ASSUME ControlInv, Finishes, Up, Up'
  PROVE  Reduced!Left /\ UNCHANGED running
<1> USE DEF credentialVars, pairingVars, renewalVars, outsideVars, networkVars, powerVars,
            savedVars, LeftRtc, SetState, EnterIdle, RestartPairing, EnterPairing
<1>1. /\ UNCHANGED <<networkVars, powerVars, conversation_requested>>
      /\ stop_request' = "NONE"
      /\ \/ /\ control \in {"leave_stop", "leave_local"} /\ control' = "idle"
            /\ state' = "RUNTIME" /\ UNCHANGED pairing_requested
         \/ /\ control = "leave_pair" /\ control' = "pair_call"
            /\ state' = "PAIRING" /\ pairing_requested' = FALSE
         \/ /\ control = "leave_invalid" /\ control' = "idle"
            /\ state' = "UNPROVISIONED" /\ pairing_requested' = TRUE
  <2>1. control \in Leaving /\ ~shutting_down /\ state = "IN_CONVERSATION"
    BY DEF Finishes, FinishStop, FinishLocal, FinishPair, FinishInvalid, Leaving, Up,
           ControlInv
  <2>2. CASE FinishStop \/ FinishLocal
    BY <2>1, <2>2 DEF FinishStop, FinishLocal
  <2>3. CASE FinishPair
    BY <2>1, <2>3 DEF FinishPair
  <2>4. CASE FinishInvalid
    BY <2>1, <2>4 DEF FinishInvalid
  <2> QED
    BY <2>2, <2>3, <2>4 DEF Finishes
<1>2. /\ ReducedControl \in {"leave", "leave_pair"} /\ ReducedControl' = "idle"
      /\ ~CallCurrent /\ ~CallCurrent'
  BY <1>1, ControlView, ControlViewNext DEF Leaving, CallCurrent
<1>3. UNCHANGED Reduced!networkVars
  BY <1>1, <1>2, NetworkView
<1>4. /\ (Up /\ stop_request # "NONE")' = FALSE
      /\ (Up /\ conversation_requested)' = (Up /\ conversation_requested)
      /\ Up' = Up
  BY <1>1 DEF Up
<1>5. \/ /\ ReducedControl = "leave" /\ ReducedState' = "RUNTIME"
         /\ (Up /\ pairing_requested /\ control # "leave_pair")'
              = (Up /\ pairing_requested /\ control # "leave_pair")
      \/ /\ ReducedControl = "leave_pair" /\ ReducedState' = "PAIRING"
         /\ (Up /\ pairing_requested /\ control # "leave_pair")'
              \in {Up /\ pairing_requested /\ control # "leave_pair", TRUE}
  <2>1. CASE control \in {"leave_stop", "leave_local"}
    <3>1. (Up /\ pairing_requested /\ control # "leave_pair")'
             = (Up /\ pairing_requested /\ control # "leave_pair")
      BY <1>1, <2>1
    <3> QED
      BY <1>1, <2>1, <3>1, ControlView, ControlViewNext
  <2>2. CASE control = "leave_pair"
    <3>1. /\ ~(Up /\ pairing_requested /\ control # "leave_pair")
          /\ ~(Up /\ pairing_requested /\ control # "leave_pair")'
      BY <1>1, <2>2
    <3> QED
      BY <1>1, <2>2, <3>1, ControlView, ControlViewNext
  <2>3. CASE control = "leave_invalid"
    <3>1. (Up /\ pairing_requested /\ control # "leave_pair")' = TRUE
      BY <1>1, <2>3
    <3> QED
      BY <1>1, <2>3, <3>1, ControlView, ControlViewNext
  <2> QED
    BY <1>1, <2>1, <2>2, <2>3
<1> QED
  BY <1>1, <1>2, <1>3, <1>4, <1>5 DEF Reduced!Left, Reduced!Leaving


\* The lifecycle begins as the application expects it.
LEMMA InitReduces == Init => Reduced!ReducedInit
<1> SUFFICES ASSUME Init PROVE Reduced!ReducedInit
  OBVIOUS
<1>1. ~Up /\ ~running
  BY DEF Init, Up
<1>2. ReducedControl = "idle" /\ ReducedState = "PAIRING"
  BY <1>1, ControlView
<1>3. /\ Up = FALSE
      /\ (Up /\ network_available) = FALSE
      /\ (Up /\ (network_loss_pending \/ publisher # "idle")) = FALSE
      /\ (Up /\ CallCurrent) = FALSE
      /\ (Up /\ pairing_requested /\ control # "leave_pair") = FALSE
      /\ (Up /\ conversation_requested) = FALSE
      /\ (Up /\ stop_request # "NONE") = FALSE
  BY <1>1 DEF Up
<1> QED
  BY <1>1, <1>2, <1>3 DEF Reduced!ReducedInit, Reduced!NoMemory

\* While the runtime ends, the application sees nothing of the lifecycle.
LEMMA DownReduces ==
  ASSUME ControlInv, ViewInv, [Next]_vars, ~Up
  PROVE  Reduced!ReducedRun \/ UNCHANGED Reduced!reducedVars
<1> USE DEF powerVars
<1>1. CASE ~initialized
  <2>1. CASE BootBound \/ BootUnbound
    BY <2>1, BootReduces
  <2>2. CASE ServiceExecute \/ UNCHANGED vars
    BY <2>2, ServiceUnseen
  <2> QED
    BY <1>1, <2>1, <2>2, OffMoves
<1>2. CASE initialized /\ shutting_down
  <2>1. control \in {"drain", "leave_stop", "leave_local"}
    BY <1>2 DEF ControlInv
  <2>2. ~Up'
    <3>1. CASE PowerOff \/ Crash
      BY <3>1 DEF PowerOff, Crash, Cleared, Up
    <3>2. CASE ~(PowerOff \/ Crash)
      <4>1. UNCHANGED shutting_down
        BY <1>2, <2>1, <3>2 DEF Next, Power, Network, Rtc, User, Ticks, Finishes, Calls,
         Service, Applied, vars, outsideVars, BootBound, BootUnbound,
         PublishExit, Shutdown, NetworkDown, NetworkDownGeneration,
         NetworkDownLoss, NetworkUp, RtcCallback, NotifyConversationEnded, RequestRenewal,
         RequestPair, RequestStart, RequestStop, TickLoss, TickOffline, TickPair,
         TickPairRetry, TickPairPoll, TickStart, TickDevicePoll, TickStop, TickRenew,
         FinishStop, FinishLocal, FinishPair,
         FinishInvalid, PairUnavailable, PairCall, PairFail, PairCode,
         StartAbandoned, StartCall, StartRejected, StartAccepted, JoinDone, RenewCall,
         RenewStale, RenewRejected, RenewHopeless, RenewFail, Renewed, Return, ServiceExecute,
         ServiceResultLost, ResultWithoutEffect, PairingRefused, PairingBound,
         BindingInvalidated, TakeResult, DropResult
      <4> QED
        BY <1>2, <4>1 DEF Up
    <3> QED
      BY <3>1, <3>2
  <2>3. UNCHANGED running \/ running' = FALSE
    BY <1>2, <2>1 DEF Next, Power, Network, Rtc, User, Ticks, Finishes, Calls,
         Service, Applied, vars, outsideVars, BootBound, BootUnbound, Cleared,
         PowerOff, Crash, Shutdown, NetworkDown, NetworkDownGeneration,
         NetworkDownLoss, NetworkUp, RtcCallback, NotifyConversationEnded, RequestRenewal,
         RequestPair, RequestStart, RequestStop, TickLoss, TickOffline, TickPair,
         TickPairRetry, TickPairPoll, TickStart, TickDevicePoll, TickStop, TickRenew,
         FinishStop, FinishLocal, FinishPair,
         FinishInvalid, PairUnavailable, PairCall, PairFail, PairCode,
         StartAbandoned, StartCall, StartRejected, StartAccepted, JoinDone, RenewCall,
         RenewStale, RenewRejected, RenewHopeless, RenewFail, Renewed, Return, ServiceExecute,
         ServiceResultLost, PublishExit, ResultWithoutEffect, PairingRefused, PairingBound,
         BindingInvalidated, TakeResult, DropResult
  <2>4. CASE UNCHANGED running
    BY <1>2, <2>2, <2>4, DownStutters DEF Up
  <2>5. CASE running' = FALSE
    BY <2>2, <2>5, EndReduces
  <2> QED
    BY <2>3, <2>4, <2>5
<1> QED
  BY <1>1, <1>2 DEF Up

\* Every step of the lifecycle is one of the reduced lifecycle, or is not seen.
LEMMA StepReduces ==
  ASSUME TypeOK, ControlInv, ViewInv, [Next]_vars
  PROVE  [Reduced!ReducedNext]_(Reduced!reducedVars)
<1> USE DEF Reduced!ReducedNext
<1>1. CASE ~Up
  BY <1>1, DownReduces
<1>2. CASE Up /\ Power
  <2>1. CASE BootBound \/ BootUnbound
    BY <2>1, BootReduces
  <2>2. CASE PublishExit
    BY <2>2, ExitReduces
  <2>3. CASE Shutdown \/ PowerOff \/ Crash
    <3>1. running' = FALSE /\ ~Up'
      BY <2>3 DEF Shutdown, PowerOff, Crash, Cleared, Up
    <3> QED
      BY <3>1, EndReduces
  <2> QED
    BY <1>2, <2>1, <2>2, <2>3 DEF Power
<1>3. CASE Up /\ (Network \/ Rtc \/ User)
  BY <1>3, NetworkReduces, RtcReduces, UserReduces
<1>4. CASE Up /\ Ticks
  BY <1>4, OfflineReduces, PairReduces, StartStopReduces, TicksUnseen DEF Ticks
<1>5. CASE Up /\ Calls
  BY <1>5, PairAgainReduces, StartCallReduces, UnboundReduces, FailReduces, JoinReduces,
     CallsUnseen DEF Calls
<1>6. CASE Up /\ Finishes
  <2>1. Up'
    <3>1. UNCHANGED powerVars
      BY <1>6 DEF Finishes, FinishStop, FinishLocal, FinishPair, FinishInvalid, outsideVars
    <3> QED
      BY <1>6, <3>1 DEF powerVars, Up
  <2> QED
    BY <1>6, <2>1, LeftReduces
<1>7. CASE Service
  BY <1>7, ServiceUnseen, ExitReduces DEF Service
<1>8. CASE Applied
  BY <1>8, ServiceUnseen, PairAgainReduces, BoundReduces, UnboundReduces, FailReduces
  DEF Applied
<1>9. CASE DropResult \/ UNCHANGED vars
  BY <1>9, ServiceUnseen
<1> QED
  BY <1>1, <1>2, <1>3, <1>4, <1>5, <1>6, <1>7, <1>8, <1>9 DEF Next

\* ViewInv holds of every behaviour.
LEMMA ViewCorrect == Spec => []ViewInv
<1>1. Init => ViewInv
  BY DEF Init, ViewInv
<1> QED
  BY <1>1, ViewStep, TypeCorrect, ControlCorrect, PTL DEF Spec

\* The lifecycle that AppControl composes with the application leaves out no behaviour of
\* the device lifecycle, for any number of credentials, retry delays and losses.
THEOREM RefinesReduced == Spec => ImplementsReduced
<1>1. TypeOK /\ ControlInv /\ ViewInv /\ [Next]_vars
        => [Reduced!ReducedNext]_(Reduced!reducedVars)
  BY StepReduces
<1> QED
  BY <1>1, InitReduces, TypeCorrect, ControlCorrect, ViewCorrect, PTL
  DEF Spec, ImplementsReduced, Reduced!ReducedSpec

=============================================================================
